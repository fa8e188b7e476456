--------------------------- MODULE ParkedApproval ---------------------------
(***************************************************************************)
(* The durable approval ledger of agent_gateway/approval_store.py, for the *)
(* calls of one job of one tenant: a tool call that needs a decision       *)
(* creates a request, binds the exact call to it (the executable binding), *)
(* links the binding to the root turn that issued it and becomes           *)
(* pending_user.  A decision route then votes, or re-issues the request    *)
(* under the current policy generation, and an executor claims the bound   *)
(* call, runs it and records its result.                                   *)
(*                                                                         *)
(* Every store method is one SQLite transaction (BEGIN IMMEDIATE), hence   *)
(* one action.  The coroutines that call them (the approval lifecycle of a *)
(* dispatched call, a decision route, an execution attempt) keep what they *)
(* read between transactions in lc, dec and exe; any number of gateway     *)
(* processes may share the database, each under its own policy.            *)
(* A method that raises rolls back, and the coroutine that called it ends: *)
(* that, a cancellation and the death of its process are all a coroutine   *)
(* that takes no further step.                                             *)
(***************************************************************************)
EXTENDS Naturals, FiniteSets

CONSTANTS
  Approvals,   \* approval ids (new_approval_id)
  Prepared,    \* those of durable BusinessModel plans: always captured, and
               \* the only ones a later dispatch resumes or replaces
  Calls,       \* (job_id, tool_call_id) pairs of the job
  Turns,       \* root-turn ids
  Gens,        \* policy generations
  Dispatches,  \* runs of the approval lifecycle
  Deciders,    \* decision requests reaching a route
  Attempts,    \* execution attempts; an attempt is its own claim token
  Kinds,       \* the approval constraints requests are created with
  OwnerVotes,  \* the deciders that are the frozen owner of the request
  GenOf,       \* the policy generation of the gateway that serves a decider
  MaxNonce,    \* bound: nonces drawn in a behaviour
  None

ASSUME NoneIsNew == None \notin Approvals \cup Calls \cup Turns \cup Gens \cup Deciders \cup Attempts
ASSUME PreparedType == Prepared \subseteq Approvals
ASSUME GenOfType == GenOf \in [Deciders -> Gens]
ASSUME KindsType == Kinds \subseteq {"standard", "fresh_human_owner", "legacy_unknown"}
ASSUME OwnerVotesType == OwnerVotes \subseteq Deciders
ASSUME MaxNonceType == MaxNonce \in Nat

VARIABLES
  req,     \* approval_requests
  bind,    \* approval_executable_bindings, by call; appr = None is no row
  turns,   \* approval_root_turns: [gen, refs]; gen = None is no row
  nonces,  \* how many nonces have been drawn; the next one is fresh
  lc,      \* approval lifecycles
  dec,     \* decision routes
  exe,     \* execution attempts
  runs     \* how often each call's consumer was started (history)

vars == <<req, bind, turns, nonces, lc, dec, exe, runs>>
procs == <<lc, dec, exe>>

Terminal == {"approved", "denied", "auto_approved", "auto_denied", "expired"}
States == {"absent", "created", "pending_user"} \cup Terminal
Nonces == 0 .. MaxNonce

NoRequest == [state |-> "absent", ver |-> 0, call |-> None, kind |-> "standard",
              by |-> None, next |-> None]
NewRequest(c, k) == [state |-> "created", ver |-> 0, call |-> c, kind |-> k,
                     by |-> None, next |-> None]
Unclaimed(a, n) == [appr |-> a, nonce |-> n, exec |-> "unclaimed", token |-> None, dver |-> 0]
NoBinding == Unclaimed(None, 0)
NoTurn == [gen |-> None, refs |-> {}]
NoDispatch == [pc |-> "idle", appr |-> None, call |-> None, orig |-> None,
               turn |-> None, ver |-> 0, nonce |-> 0]
Deciding(a, pc) == [pc |-> pc, appr |-> a, call |-> None, turn |-> None, nonce |-> 0]
Reissuing(a, loc) == [pc |-> "reissue", appr |-> a, call |-> loc.call,
                      turn |-> loc.turn, nonce |-> loc.nonce]
NoDecision == Deciding(None, "idle")
NoAttempt == [pc |-> "idle", appr |-> None, call |-> None, nonce |-> 0,
              ver |-> 0, executable |-> FALSE]

\* _write_request_transition_locked: the state moves with its version.
Transition(r, s) == [r EXCEPT !.state = s, !.ver = r.ver + 1]

\* A park points the request at the call it binds.
Naming(r, c) == [r EXCEPT !.call = c]

\* _record_vote's decision, with the decider it is recorded for.
Voted(r, decision, d) == [Transition(r, decision) EXCEPT !.by = d]

\* The request a re-issue expires names its successor.
ReplacedBy(r, b) == [Transition(r, "expired") EXCEPT !.next = b]

\* A binding row claimed by attempt e under version v of its decision.
Claimed(row, e, v) == [row EXCEPT !.exec = "claimed", !.token = e, !.dver = v]
Completed(row) == [row EXCEPT !.exec = "completed"]

\* A coroutine at its next step; one that has returned keeps nothing it read.
At(process, pc) == [process EXCEPT !.pc = pc]
Parked(process, n) == [process EXCEPT !.pc = "parked", !.nonce = n]
Ended(process) == At(process, "done")

Undecided(a) == req[a].state \in {"created", "pending_user"}
Bound(c) == bind[c].appr # None
BoundTo(a, c) == bind[c].appr = a
Recorded(t) == turns[t].gen # None

\* approval_is_executable
Executable(r) ==
  \/ r.kind = "standard" /\ r.state \in {"approved", "auto_approved"}
  \/ r.kind = "fresh_human_owner" /\ r.state = "approved" /\ r.by \in OwnerVotes

\* The root turns whose executable refs name the call under this nonce.
Linking(c, n) == {t \in Turns : <<c, n>> \in turns[t].refs}

\* _linked_root_generation_locked: the generation of the one linking turn.
LinkedGen(c, n) ==
  IF \E t \in Turns : Linking(c, n) = {t}
    THEN turns[CHOOSE t \in Turns : Linking(c, n) = {t}].gen
    ELSE None

Init ==
  /\ req = [a \in Approvals |-> NoRequest]
  /\ bind = [c \in Calls |-> NoBinding]
  /\ turns = [t \in Turns |-> NoTurn]
  /\ nonces = 0
  /\ lc = [l \in Dispatches |-> NoDispatch]
  /\ dec = [d \in Deciders |-> NoDecision]
  /\ exe = [e \in Attempts |-> NoAttempt]
  /\ runs = [c \in Calls |-> 0]

-----------------------------------------------------------------------------
(* Root turns *)

\* record_root_turn_admission: the policy of the admitting gateway names the
\* generation; an identical replay changes nothing.
RecordRootTurn(t, g) ==
  /\ ~Recorded(t)
  /\ turns' = [turns EXCEPT ![t] = [gen |-> g, refs |-> {}]]
  /\ UNCHANGED <<req, bind, nonces, procs, runs>>

-----------------------------------------------------------------------------
(* The approval lifecycle of a dispatched call *)

\* The lifecycle of call c holds the request it created or read: orig is the
\* call the request names, ver its state_version.
StartDispatch(l, a, c, orig, t) ==
  /\ lc[l].pc = "idle"
  /\ t # None => Recorded(t)
  /\ lc' = [lc EXCEPT ![l] = [pc |-> "created", appr |-> a, call |-> c, orig |-> orig,
                              turn |-> t, ver |-> req[a].ver, nonce |-> 0]]

\* store.create
CreateRequest(l, a, c, t, k) ==
  /\ req[a].state = "absent"
  /\ StartDispatch(l, a, c, c, t)
  /\ req' = [req EXCEPT ![a] = NewRequest(c, k)]
  /\ UNCHANGED <<bind, turns, nonces, dec, exe, runs>>

\* Mutant of ReplacePrepared: a replacement also expires what was approved.
ReplaceAnyPrepared(l, a, c, t, k, p) ==
  /\ {a, p} \subseteq Prepared /\ p # a
  /\ req[a].state = "absent" /\ req[p].state # "absent"
  /\ StartDispatch(l, a, c, c, t)
  /\ req' = [req EXCEPT ![a] = NewRequest(c, k), ![p] = Transition(@, "expired")]
  /\ UNCHANGED <<bind, turns, nonces, dec, exe, runs>>

\* create_or_get_with_prepared_business_model_change: a new plan replaces the
\* unclaimed one of p, whose undecided request expires with its binding.
ReplacePrepared(l, a, c, t, k, p) ==
  /\ {a, p} \subseteq Prepared /\ p # a
  /\ req[a].state = "absent"
  /\ req[p].state \in States \ {"absent", "approved", "auto_approved"}
  /\ \A b \in Approvals : req[b].state # "absent" => req[b].call # c
  /\ \A x \in Calls : BoundTo(p, x) => bind[x].exec = "unclaimed"
  /\ StartDispatch(l, a, c, c, t)
  /\ req' = [x \in Approvals |->
       IF x = a THEN NewRequest(c, k)
       ELSE IF x = p /\ Undecided(p) THEN Transition(req[p], "expired") ELSE req[x]]
  /\ bind' = [x \in Calls |-> IF BoundTo(p, x) THEN NoBinding ELSE bind[x]]
  /\ UNCHANGED <<turns, nonces, dec, exe, runs>>

\* The request of a pending plan is resumed, possibly for another call id.
ResumeRequest(l, a, c, t) ==
  /\ a \in Prepared
  /\ Undecided(a)
  /\ StartDispatch(l, a, c, req[a].call, t)
  /\ UNCHANGED <<req, bind, turns, nonces, dec, exe, runs>>

\* transition_state to an automatic outcome, fenced by the version read.
AutoDecide(l, outcome) ==
  LET a == lc[l].appr IN
  /\ lc[l].pc = "created"
  /\ req[a].ver = lc[l].ver
  /\ req' = [req EXCEPT ![a] = Transition(@, outcome)]
  /\ lc' = [lc EXCEPT ![l] = Ended(NoDispatch)]
  /\ UNCHANGED <<bind, turns, nonces, dec, exe, runs>>

\* The binding rows a park of a on c meets: a's own, and the call's.
ParkRows(a, c) == {x \in Calls : Bound(x) /\ (BoundTo(a, x) \/ x = c)}

\* A row of another approval that the new generation g supersedes.
Superseded(x, a, g) ==
  /\ ~BoundTo(a, x)
  /\ g # None
  /\ req[bind[x].appr].state \in {"created", "pending_user", "approved"}
  /\ LinkedGen(x, bind[x].nonce) \notin {None, g}

\* The rows a park may replace: unclaimed ones, of an approval that is still
\* undecided (a's own), superseded, or decided against.
RowsAdmit(a, c, g) ==
  \A x \in ParkRows(a, c) :
    /\ bind[x].exec = "unclaimed"
    /\ IF BoundTo(a, x) THEN Undecided(a)
       ELSE \/ Superseded(x, a, g)
            \/ req[bind[x].appr].state \in {"denied", "auto_denied", "expired"}

\* A call already bound keeps its nonce, unless its approval is superseded.
ParkNonce(a, c, g) ==
  IF Bound(c) /\ ~Superseded(c, a, g) THEN bind[c].nonce ELSE nonces + 1

ParkedBind(a, c, n) ==
  [x \in Calls |-> IF x = c THEN Unclaimed(a, n)
                   ELSE IF x \in ParkRows(a, c) THEN NoBinding ELSE bind[x]]

\* park_executable_binding, called by the lifecycle without a generation.
ParkBinding(l) ==
  LET a == lc[l].appr
      c == lc[l].call
      n == ParkNonce(a, c, None) IN
  /\ lc[l].pc = "created"
  /\ nonces < MaxNonce
  /\ RowsAdmit(a, c, None)
  /\ req[a].call # c => Undecided(a)
  /\ nonces' = nonces + 1
  /\ bind' = ParkedBind(a, c, n)
  /\ req' = [req EXCEPT ![a] = Naming(@, c)]
  /\ lc' = [lc EXCEPT ![l] = Parked(@, n)]
  /\ UNCHANGED <<turns, dec, exe, runs>>

\* A call without a captured executable keeps the nonce it drew.
SkipCapture(l) ==
  /\ lc[l].pc = "created"
  /\ lc[l].appr \notin Prepared
  /\ nonces < MaxNonce
  /\ nonces' = nonces + 1
  /\ lc' = [lc EXCEPT ![l] = Parked(@, nonces + 1)]
  /\ UNCHANGED <<req, bind, turns, dec, exe, runs>>

\* Mutant of NoOtherTurn: a second turn may link the nonce.
AnyTurn(t, c, n) == TRUE

\* turn_link_mismatch: no other turn links the call under this nonce.
NoOtherTurn(t, c, n) == Linking(c, n) \subseteq {t}

\* A captured call's current nonce belongs to one turn; an uncaptured call id
\* to one turn under any nonce.
LinkAdmits(t, c, n) ==
  IF Bound(c)
    THEN bind[c].nonce = n /\ NoOtherTurn(t, c, n)
    ELSE /\ \E b \in Approvals : req[b].state # "absent" /\ req[b].call = c
         /\ \A m \in Nonces : NoOtherTurn(t, c, m)

\* link_root_turn_executable_binding
LinkRootTurn(l) ==
  LET t == lc[l].turn IN
  /\ lc[l].pc = "parked"
  /\ t # None => LinkAdmits(t, lc[l].call, lc[l].nonce)
  /\ turns' = IF t = None THEN turns
              ELSE [turns EXCEPT ![t].refs = @ \cup {<<lc[l].call, lc[l].nonce>>}]
  /\ lc' = [lc EXCEPT ![l] = At(@, "linked")]
  /\ UNCHANGED <<req, bind, nonces, dec, exe, runs>>

\* transition_state to pending_user: never out of a terminal state, and only
\* from the version read.  The call then parks (or waits on its live queue).
PublishPending(l) ==
  LET a == lc[l].appr IN
  /\ lc[l].pc = "linked"
  /\ req[a].ver = lc[l].ver
  /\ req[a].state \notin Terminal
  /\ req' = [req EXCEPT ![a] = Transition(@, "pending_user")]
  /\ lc' = [lc EXCEPT ![l] = At(@, "pending")]
  /\ UNCHANGED <<bind, turns, nonces, dec, exe, runs>>

\* abort_unpublished_approval: the lifecycle of a batch producer raised or was
\* cancelled before its approval was published.
AbortUnpublished(l) ==
  LET a == lc[l].appr IN
  /\ lc[l].pc \in {"created", "parked", "linked", "pending"}
  /\ req[a].call = lc[l].orig
  /\ req' = [req EXCEPT ![a] = IF @.state \in Terminal THEN @
                               ELSE Transition(@, "denied")]
  /\ lc' = [lc EXCEPT ![l] = Ended(NoDispatch)]
  /\ UNCHANGED <<bind, turns, nonces, dec, exe, runs>>

\* terminalize_pending_for_cancellation: a lifecycle boundary, not a vote.
CancelPending(a) ==
  /\ req[a].state = "pending_user"
  /\ req' = [req EXCEPT ![a] = Transition(@, "denied")]
  /\ UNCHANGED <<bind, turns, nonces, procs, runs>>

-----------------------------------------------------------------------------
(* The decision route *)

\* _locate_root_turn_for_approval: the turns that hold a's call.  A request
\* without a binding never claims a ref whose nonce a binding holds.
Located(a) ==
  {loc \in [call : Calls, nonce : Nonces, turn : Turns] :
     LET held == Bound(loc.call) /\ bind[loc.call].nonce = loc.nonce IN
     /\ <<loc.call, loc.nonce>> \in turns[loc.turn].refs
     /\ IF \E x \in Calls : BoundTo(a, x)
          THEN BoundTo(a, loc.call) /\ held
          ELSE req[a].call = loc.call /\ ~held}

\* _locate_request_for_decision: an undecided captured request is first
\* compared with the policy generation of its turn; the replay of an approval
\* reaches the continuation (any other decided state only answers).
ReadRequest(d, a) ==
  /\ dec[d].pc = "idle"
  /\ req[a].state \in {"pending_user", "approved"}
  /\ \A p, q \in Located(a) : p = q
  /\ \A c \in Calls : BoundTo(a, c) => req[a].call = c
  /\ dec' = [dec EXCEPT ![d] = Deciding(a,
       IF req[a].state = "approved" THEN "continue"
       ELSE IF \E c \in Calls : BoundTo(a, c) THEN "check" ELSE "vote")]
  /\ UNCHANGED <<req, bind, turns, nonces, lc, exe, runs>>

\* _reissue_under_current_policy_generation up to the comparison: with one
\* located turn of another generation the call is re-issued, otherwise the
\* decision goes on (nothing located, or custody that cannot be read).
CheckGeneration(d) ==
  LET a == dec[d].appr IN
  /\ dec[d].pc \in {"check", "recheck"}
  /\ \/ \E loc \in Located(a) :
          /\ Located(a) = {loc}
          /\ turns[loc.turn].gen # GenOf[d]
          /\ dec' = [dec EXCEPT ![d] = Reissuing(a, loc)]
     \/ /\ \A loc \in Located(a) :
             Located(a) = {loc} => turns[loc.turn].gen = GenOf[d]
        /\ dec' = [dec EXCEPT ![d] = IF @.pc = "check" THEN At(@, "vote")
                                     ELSE Ended(NoDecision)]
  /\ UNCHANGED <<req, bind, turns, nonces, lc, exe, runs>>

\* _record_vote: the first terminal decision wins.  A vote that agrees with it
\* reaches the continuation, which changes no request unless it was approved.
RecordVote(d, decision) ==
  LET a == dec[d].appr
      first == req[a].state \notin Terminal
      agrees == first \/ req[a].state = decision IN
  /\ dec[d].pc = "vote"
  /\ req' = IF first
              THEN [req EXCEPT ![a] = Voted(@, decision, d)]
              ELSE req
  /\ dec' = [dec EXCEPT ![d] = IF agrees /\ decision = "approved"
                               THEN At(@, "continue") ELSE Ended(NoDecision)]
  /\ UNCHANGED <<bind, turns, nonces, lc, exe, runs>>

\* The host's continuation hook reports that the generation changed for a
\* call that was approved: its owner re-issues it.
ContinueChanged(d) ==
  /\ dec[d].pc = "continue"
  /\ dec' = [dec EXCEPT ![d] = At(@, "recheck")]
  /\ UNCHANGED <<req, bind, turns, nonces, lc, exe, runs>>

\* Mutant of ExpiresPredecessor: the original stays decidable.
KeepsPredecessor(x, c, b, g) == FALSE

\* The superseded holder of the call, which the park expires.
ExpiresPredecessor(x, c, b, g) == BoundTo(x, c) /\ Superseded(c, b, g)

\* reissue_parked_approval: one transaction inserts the successor b and its
\* turn t, moves the binding under a fresh nonce, expires the original and
\* makes the successor pending.
Reissue(d, b, t) ==
  LET a == dec[d].appr
      c == dec[d].call
      g == GenOf[d]
      n == ParkNonce(b, c, g) IN
  /\ dec[d].pc = "reissue"
  /\ nonces < MaxNonce
  /\ b \notin Prepared /\ req[b].state = "absent"
  /\ ~Recorded(t)
  /\ Recorded(dec[d].turn)
  /\ Bound(c) /\ bind[c].nonce = dec[d].nonce
  /\ RowsAdmit(b, c, g)
  /\ NoOtherTurn(t, c, n)
  /\ nonces' = nonces + 1
  /\ bind' = ParkedBind(b, c, n)
  /\ turns' = [turns EXCEPT ![t] = [gen |-> g, refs |-> {<<c, n>>}]]
  /\ req' = [x \in Approvals |->
       IF x = b THEN Transition(NewRequest(c, req[a].kind), "pending_user")
       ELSE IF ExpiresPredecessor(x, c, b, g)
         THEN ReplacedBy(req[x], b)
         ELSE req[x]]
  /\ dec' = [dec EXCEPT ![d] = Ended(NoDecision)]
  /\ UNCHANGED <<lc, exe, runs>>

-----------------------------------------------------------------------------
(* Execution attempts *)

\* _read_executable_binding_for_executor
ReadBinding(e, c) ==
  /\ exe[e].pc = "idle"
  /\ Bound(c)
  /\ exe' = [exe EXCEPT ![e] = [pc |-> "admit", appr |-> bind[c].appr, call |-> c,
                                nonce |-> bind[c].nonce, ver |-> req[bind[c].appr].ver,
                                executable |-> Executable(req[bind[c].appr])]]
  /\ UNCHANGED <<req, bind, turns, nonces, lc, dec, runs>>

\* _verify_executable_attempt_locked: the row is still the binding read.
SameBinding(e) ==
  LET c == exe[e].call IN BoundTo(exe[e].appr, c) /\ bind[c].nonce = exe[e].nonce

\* _read_completed_executable_result_for_executor, then the decision read.
AdmitBinding(e) ==
  LET b == bind[exe[e].call] IN
  /\ exe[e].pc = "admit"
  /\ SameBinding(e)
  /\ b.exec # "claimed"
  /\ exe' = [exe EXCEPT ![e] = IF b.exec = "unclaimed" /\ @.executable
                               THEN At(@, "claim") ELSE Ended(NoAttempt)]
  /\ UNCHANGED <<req, bind, turns, nonces, lc, dec, runs>>

\* Mutant of ClaimBinding: a later attempt takes an unsettled claim over.
ClaimBindingTakeover(e) ==
  LET c == exe[e].call IN
  /\ exe[e].pc = "claim"
  /\ SameBinding(e)
  /\ bind[c].exec # "completed"
  /\ bind' = [bind EXCEPT ![c] = Claimed(@, e, exe[e].ver)]
  /\ exe' = [exe EXCEPT ![e] = At(@, "run")]
  /\ UNCHANGED <<req, turns, nonces, lc, dec, runs>>

\* _claim_executable_binding_for_executor
ClaimBinding(e) ==
  LET c == exe[e].call
      r == req[exe[e].appr] IN
  /\ exe[e].pc = "claim"
  /\ SameBinding(e)
  /\ \/ /\ bind[c].exec = "completed"
        /\ exe' = [exe EXCEPT ![e] = Ended(NoAttempt)]
        /\ bind' = bind
     \/ /\ bind[c].exec = "unclaimed"
        /\ r.ver = exe[e].ver
        /\ Executable(r)
        /\ bind' = [bind EXCEPT ![c] = Claimed(@, e, exe[e].ver)]
        /\ exe' = [exe EXCEPT ![e] = At(@, "run")]
  /\ UNCHANGED <<req, turns, nonces, lc, dec, runs>>

\* The consumer runs the exact prepared call.
RunCall(e) ==
  /\ exe[e].pc = "run"
  /\ runs' = [runs EXCEPT ![exe[e].call] = @ + 1]
  /\ exe' = [exe EXCEPT ![e] = At(@, "ran")]
  /\ UNCHANGED <<req, bind, turns, nonces, lc, dec>>

\* _complete_executable_binding_for_executor: only the claim that ran settles.
CompleteBinding(e) ==
  LET c == exe[e].call IN
  /\ exe[e].pc = "ran"
  /\ SameBinding(e)
  /\ bind[c].token = e /\ bind[c].dver = exe[e].ver
  /\ bind[c].exec = "claimed"
  /\ bind' = [bind EXCEPT ![c] = Completed(@)]
  /\ exe' = [exe EXCEPT ![e] = Ended(NoAttempt)]
  /\ UNCHANGED <<req, turns, nonces, lc, dec, runs>>

-----------------------------------------------------------------------------
DispatchStep(l) ==
  \/ \E a \in Approvals, c \in Calls, t \in Turns \cup {None} :
       \/ \E k \in Kinds : \/ CreateRequest(l, a, c, t, k)
                           \/ \E p \in Approvals : ReplacePrepared(l, a, c, t, k, p)
       \/ ResumeRequest(l, a, c, t)
  \/ \E outcome \in {"auto_approved", "auto_denied"} : AutoDecide(l, outcome)
  \/ ParkBinding(l) \/ SkipCapture(l) \/ LinkRootTurn(l) \/ PublishPending(l)
  \/ AbortUnpublished(l)

DecisionStep(d) ==
  \/ \E a \in Approvals : ReadRequest(d, a)
  \/ CheckGeneration(d) \/ ContinueChanged(d)
  \/ \E decision \in {"approved", "denied"} : RecordVote(d, decision)
  \/ \E b \in Approvals, t \in Turns : Reissue(d, b, t)

AttemptStep(e) ==
  \/ \E c \in Calls : ReadBinding(e, c)
  \/ AdmitBinding(e) \/ ClaimBinding(e) \/ RunCall(e) \/ CompleteBinding(e)

Next ==
  \/ \E t \in Turns, g \in Gens : RecordRootTurn(t, g)
  \/ \E a \in Approvals : CancelPending(a)
  \/ \E l \in Dispatches : DispatchStep(l)
  \/ \E d \in Deciders : DecisionStep(d)
  \/ \E e \in Attempts : AttemptStep(e)

Spec == Init /\ [][Next]_vars

-----------------------------------------------------------------------------
(* Properties *)

Request ==
  [state : States, ver : Nat, call : Calls \cup {None}, kind : Kinds \cup {"standard"},
   by : Deciders \cup {None}, next : Approvals \cup {None}]
Binding ==
  [appr : Approvals \cup {None}, nonce : Nat, exec : {"unclaimed", "claimed", "completed"},
   token : Attempts \cup {None}, dver : Nat]
RootTurn == [gen : Gens \cup {None}, refs : SUBSET (Calls \X Nat)]
Dispatch ==
  [pc : {"idle", "created", "parked", "linked", "pending", "done"},
   appr : Approvals \cup {None}, call : Calls \cup {None}, orig : Calls \cup {None},
   turn : Turns \cup {None}, ver : Nat, nonce : Nat]
Decision ==
  [pc : {"idle", "check", "vote", "continue", "recheck", "reissue", "done"},
   appr : Approvals \cup {None}, call : Calls \cup {None}, turn : Turns \cup {None},
   nonce : Nat]
Attempt ==
  [pc : {"idle", "admit", "claim", "run", "ran", "done"}, appr : Approvals \cup {None},
   call : Calls \cup {None}, nonce : Nat, ver : Nat, executable : BOOLEAN]

\* The tables and coroutines hold records of their kinds.
TypeOK ==
  /\ req \in [Approvals -> Request]
  /\ bind \in [Calls -> Binding]
  /\ turns \in [Turns -> RootTurn]
  /\ nonces \in Nat
  /\ lc \in [Dispatches -> Dispatch]
  /\ dec \in [Deciders -> Decision]
  /\ exe \in [Attempts -> Attempt]
  /\ runs \in [Calls -> Nat]

\* The consumer of a captured call is started at most once, however often the
\* call is re-parked, re-issued, re-read or its executor restarted ("this
\* claims one original call attempt", tool_dispatcher.py).
OneAttempt == \A c \in Calls : runs[c] <= 1

\* A claimed or completed call is held by an approval that authorizes it, in
\* the very version of the decision the claim was made under: no vote, re-issue,
\* replacement or cancellation reaches behind a claim.
ClaimAuthorized ==
  \A c \in Calls : bind[c].exec # "unclaimed" =>
    LET r == req[bind[c].appr] IN Executable(r) /\ r.ver = bind[c].dver

\* "No vote lands under a generation other than the root turn's"
\* (_record_durable_vote_and_continue): the decision a bound call carries was
\* voted by a gateway of the generation of the call's root turn.
VotedUnderTurnGeneration ==
  \A c \in Calls : Bound(c) =>
    LET r == req[bind[c].appr] IN
      (r.state \in {"approved", "denied"} /\ r.by # None) =>
         LinkedGen(c, bind[c].nonce) \in {None, GenOf[r.by]}

\* A pending approval that holds a call keeps holding exactly one call, the one
\* its request names, until it is decided or expired ("so the call always has
\* exactly one decidable approval", reissue_parked_approval).
PendingKeepsItsCall ==
  [][\A a \in Approvals :
       (\E c \in Calls : BoundTo(a, c)) /\ req'[a].state = "pending_user" =>
         \E c \in Calls : /\ \A x \in Calls : bind'[x].appr = a <=> x = c
                          /\ req'[a].call = c]_vars

\* A terminal decision is final (first terminal decision wins), but for an
\* approved call no attempt has claimed, which a re-issue expires.
DecisionFinal ==
  [][\A a \in Approvals : req[a].state \in Terminal /\ req'[a].state # req[a].state =>
       /\ req[a].state = "approved" /\ req'[a].state = "expired"
       /\ \A c \in Calls : BoundTo(a, c) => bind[c].exec = "unclaimed"]_vars

\* A claimed call stays with its approval, nonce and claim: nothing parks over
\* it, takes the claim over or returns it ("no retry or time takeover").
ClaimKept ==
  [][\A c \in Calls : bind[c].exec # "unclaimed" =>
       /\ bind'[c] = [bind[c] EXCEPT !.exec = bind'[c].exec]
       /\ bind'[c].exec \in {bind[c].exec, "completed"}]_vars

\* A re-issue never asks again for a call that was denied: its kept nonce is
\* linked from the turn that asked, so the successor's link refuses.
DeniedNotReissued ==
  [][\A c \in Calls, d \in Deciders :
       dec[d].pc = "reissue" /\ dec[d].call = c /\ bind'[c] # bind[c]
       /\ dec' # dec =>
         req[bind[c].appr].state \notin {"denied", "auto_denied", "expired"}]_vars
=============================================================================
