--------------------------- MODULE AuthorityCache ---------------------------
(***************************************************************************)
(* The cache of live commercial authority with its pushed invalidations    *)
(* (commercial_authority_cache.py) and the subscriber that feeds it        *)
(* (commercial_authority_subscriber.py, commercial_authority_feed.py).     *)
(* Requests resolve a context in their own threads: a look under the lock, *)
(* a load from the service without it, a second look that keeps the answer *)
(* only if no invalidation came between.  The service and its feed are     *)
(* external; its answers may lag behind the feed.                          *)
(***************************************************************************)
EXTENDS Integers, Sequences, Functions, FiniteSets

CONSTANTS
  Contexts,    \* commercial contexts
  Accounts,    \* commercial accounts
  AccountOf,   \* the account of each context; each context has a token of its own
  Threads,     \* requests that resolve at the same time
  None,
  MaxEntries,  \* max_entries
  TTL,         \* ttl_seconds
  PageLimit,   \* the limit of a feed page
  Lag,         \* by how many events an answer of the service may be behind
  MaxFeed, MaxTime, MaxLosses  \* bounds of the model

ASSUME AuthorityConstants ==
  /\ AccountOf \in [Contexts -> Accounts]
  /\ MaxEntries \in Nat /\ PageLimit \in Nat /\ Lag \in Nat /\ TTL \in Nat \ {0}

VARIABLES
  feed,     \* the service's invalidations, in sequence
  clock,    \* time.monotonic
  entries,  \* _entries: the snapshot, when its load began, when the service was read
  used,     \* the order of _entries, least recently used first
  floors,   \* _revision_floor_by_account
  fenced,   \* the order of _revision_floor_by_account
  revoked,  \* _revoked_contexts, in order
  generation,
  res,      \* the resolving requests
  sub,      \* the subscriber: catch_up or run_forever, and its page
  stored,   \* the persisted cursor
  losses,
  \* ghosts:
  answer,   \* what the last step answered, or None
  applied,  \* the invalidations this process applied
  last      \* the generation of the last one of each context's account

fences == <<floors, fenced, revoked, generation, applied, last>>
authorityVars == <<feed, clock, entries, used, fences, res, sub, stored, losses, answer>>

-----------------------------------------------------------------------------
(* The service. *)

Revision(a, v) ==
  1 + Cardinality({i \in 1 .. v : feed[i].kind = "entitlement" /\ feed[i].account = a})

\* What the service said of a context after the first v events.
Snapshot(c, v) ==
  [active |-> \A i \in 1 .. v : c \notin {feed[i].context, feed[i].token},
   revision |-> Revision(AccountOf[c], v)]

\* The service revokes a context or its token, or moves an account's entitlement.
PublishInvalidation(kind, c) ==
  /\ Len(feed) < MaxFeed
  /\ feed' = Append(feed,
       [kind |-> kind, account |-> AccountOf[c],
        context |-> IF kind = "context" THEN c ELSE None,
        token |-> IF kind = "token" THEN c ELSE None,
        revision |-> Revision(AccountOf[c], Len(feed)) + (IF kind = "entitlement" THEN 1 ELSE 0)])
  /\ answer' = None /\ UNCHANGED <<clock, entries, used, fences, res, sub, stored, losses>>

Tick ==
  /\ clock < MaxTime /\ clock' = clock + 1
  /\ answer' = None /\ UNCHANGED <<feed, entries, used, fences, res, sub, stored, losses>>

-----------------------------------------------------------------------------
(* Ordered dictionaries with a bound: pop, move_to_end and _trim. *)

Without(order, k) ==
  IF k \notin Range(order) THEN order
  ELSE LET at == CHOOSE i \in DOMAIN order : order[i] = k
       IN [i \in 1 .. Len(order) - 1 |-> IF i < at THEN order[i] ELSE order[i + 1]]
MoveToEnd(order, k) == Append(Without(order, k), k)
Trimmed(order) == IF Len(order) > MaxEntries THEN {Head(order)} ELSE {}
Trim(order) == IF Len(order) > MaxEntries THEN Tail(order) ELSE order

IdleRequest == [at |-> "idle"]
Fetching(cursor, serving) ==
  [at |-> "fetch", cursor |-> cursor, pos |-> cursor, upto |-> cursor, high |-> cursor,
   serving |-> serving]

NoEntries == [c \in Contexts |-> None]
NoFloors == [a \in Accounts |-> 0]
Never == [c \in Contexts |-> 0]

AuthorityInit ==
  /\ feed = <<>> /\ clock = 0 /\ stored = 0 /\ losses = 0
  /\ entries = NoEntries /\ used = <<>> /\ floors = NoFloors /\ fenced = <<>>
  /\ revoked = <<>> /\ generation = 0 /\ applied = {} /\ last = Never /\ answer = None
  /\ res = [t \in Threads |-> IdleRequest] /\ sub = Fetching(0, FALSE)

-----------------------------------------------------------------------------
(* resolve_context_state *)

\* A request returns: its thread is free again.  Of the answer only what it grants is
\* kept, with the generation its load began in and the age of what the service said.
AnswerActive(t, c, snap, since, age) ==
  /\ res' = [res EXCEPT ![t] = IdleRequest]
  /\ answer' = IF snap.active
       THEN [context |-> c, revision |-> snap.revision, since |-> since, age |-> age]
       ELSE None

Inactive(t) == res' = [res EXCEPT ![t] = IdleRequest] /\ answer' = None

\* The first critical section of attempt n.
Look(t, c, n) ==
  LET e == entries[c]
      fresh == e # None /\ clock - e.loaded < TTL
      hit == fresh /\ e.snap.revision >= floors[AccountOf[c]]
  IN \/ /\ c \in Range(revoked)
        /\ Inactive(t) /\ UNCHANGED <<entries, used>>
     \/ /\ c \notin Range(revoked) /\ hit
        /\ used' = MoveToEnd(used, c)
        /\ AnswerActive(t, c, e.snap, e.since, clock - e.read)
        /\ UNCHANGED entries
     \/ /\ c \notin Range(revoked) /\ ~hit
        /\ entries' = IF fresh THEN [entries EXCEPT ![c] = None] ELSE entries
        /\ used' = IF fresh THEN Without(used, c) ELSE used
        /\ res' = [res EXCEPT ![t] =
             [at |-> "load", context |-> c, attempt |-> n, since |-> generation, now |-> clock]]
        /\ answer' = None

Resolve(t, c) ==
  /\ res[t].at = "idle" /\ sub.serving
  /\ Look(t, c, 1)
  /\ UNCHANGED <<feed, clock, fences, sub, stored, losses>>

Retry(t) ==
  /\ res[t].at = "again"
  /\ Look(t, res[t].context, 2)
  /\ UNCHANGED <<feed, clock, fences, sub, stored, losses>>

\* The loader asks the service, or fails and with it the request.
Load(t) ==
  /\ res[t].at = "load"
  /\ \/ \E v \in (Len(feed) - Lag) .. Len(feed) :
          /\ v >= 0
          /\ res' = [res EXCEPT ![t] =
               [at |-> "loaded", context |-> res[t].context, attempt |-> res[t].attempt,
                since |-> res[t].since, now |-> res[t].now,
                snap |-> Snapshot(res[t].context, v), read |-> clock]]
     \/ res' = [res EXCEPT ![t] = IdleRequest]
  /\ answer' = None /\ UNCHANGED <<feed, clock, entries, used, fences, sub, stored, losses>>

\* The second critical section keeps the snapshot.
Keep(t, loaded) ==
  LET r == res[t]
      order == MoveToEnd(used, r.context)
      e == [snap |-> r.snap, loaded |-> loaded, read |-> r.read, since |-> r.since]
  IN /\ entries' = [c \in Contexts |->
           IF c \in Trimmed(order) THEN None ELSE IF c = r.context THEN e ELSE entries[c]]
     /\ used' = Trim(order)
     /\ AnswerActive(t, r.context, r.snap, r.since, 0)

\* Mutant: the generation is not compared again.
StillCurrentAnyway(r) == r.since <= generation
\* No invalidation was applied since the load began.
StillCurrent(r) == r.since = generation

FinishLoad(t) ==
  /\ res[t].at = "loaded"
  /\ LET r == res[t]
         same == StillCurrent(r)
         current == r.snap.revision >= floors[AccountOf[r.context]]
     IN \/ /\ ~same /\ r.attempt = 1
           /\ res' = [res EXCEPT ![t] = [at |-> "again", context |-> r.context]]
           /\ answer' = None /\ UNCHANGED <<entries, used>>
        \/ /\ (~same /\ r.attempt = 2) \/ (same /\ ~current)
           /\ Inactive(t) /\ UNCHANGED <<entries, used>>
        \/ same /\ current /\ Keep(t, r.now)
  /\ UNCHANGED <<feed, clock, fences, sub, stored, losses>>

-----------------------------------------------------------------------------
(* apply_invalidation *)

\* Mutant: the newest event sets the floor, also when it is one of a page that is fetched again.
RaisedToNewest(floor, revision) == revision
Raised(floor, revision) == IF revision > floor THEN revision ELSE floor

Concerns(e, c) == e.account = AccountOf[c] \/ c \in {e.context, e.token}

Apply(e) ==
  LET order == MoveToEnd(fenced, e.account)
      contexts == IF e.kind = "context" THEN MoveToEnd(revoked, e.context) ELSE revoked
  IN /\ generation' = generation + 1
     /\ applied' = applied \cup {e}
     /\ last' = [c \in Contexts |-> IF e.account = AccountOf[c] THEN generation' ELSE last[c]]
     /\ floors' = [a \in Accounts |->
          IF a \in Trimmed(order) THEN 0
          ELSE IF a = e.account THEN Raised(floors[a], e.revision) ELSE floors[a]]
     /\ fenced' = Trim(order)
     /\ revoked' = Trim(contexts)
     /\ entries' = [c \in Contexts |-> IF Concerns(e, c) THEN None ELSE entries[c]]
     /\ used' = SelectSeq(used, LAMBDA c : ~Concerns(e, c))

-----------------------------------------------------------------------------
(* The subscriber: catch_up before the gateway serves, then run_forever. *)

\* client.fetch in a thread; the page is decoded before anything is applied.
Fetch ==
  /\ sub.at = "fetch" /\ sub.cursor < Len(feed)
  /\ sub' = [sub EXCEPT !.at = "apply", !.pos = sub.cursor, !.high = Len(feed),
       !.upto = IF sub.cursor + PageLimit < Len(feed) THEN sub.cursor + PageLimit ELSE Len(feed)]
  /\ answer' = None /\ UNCHANGED <<feed, clock, entries, used, fences, res, stored, losses>>

Consume ==
  /\ sub.at = "apply" /\ sub.pos < sub.upto
  /\ Apply(feed[sub.pos + 1])
  /\ sub' = [sub EXCEPT !.pos = sub.pos + 1]
  /\ answer' = None /\ UNCHANGED <<feed, clock, res, stored, losses>>

\* _store_cursor; a failure leaves the loop with the page's first cursor.
Store ==
  /\ sub.at = "apply" /\ sub.pos = sub.upto
  /\ stored' = sub.upto
  /\ sub' = Fetching(sub.upto, sub.serving \/ sub.upto >= sub.high)
  /\ answer' = None /\ UNCHANGED <<feed, clock, entries, used, fences, res, losses>>

StoreFails ==
  /\ sub.at = "apply" /\ sub.pos = sub.upto /\ sub.serving
  /\ losses < MaxLosses /\ losses' = losses + 1
  /\ sub' = Fetching(sub.cursor, TRUE)
  /\ answer' = None /\ UNCHANGED <<feed, clock, entries, used, fences, res, stored>>

\* catch_up finds nothing new: the gateway serves.
CaughtUp ==
  /\ sub.at = "fetch" /\ ~sub.serving /\ sub.cursor >= Len(feed)
  /\ sub' = Fetching(sub.cursor, TRUE)
  /\ answer' = None /\ UNCHANGED <<feed, clock, entries, used, fences, res, stored, losses>>

\* The process is lost, or its startup fails: the cache starts empty and the
\* subscriber at its persisted cursor.
RestartCache ==
  /\ losses < MaxLosses /\ losses' = losses + 1
  /\ entries' = NoEntries /\ used' = <<>> /\ floors' = NoFloors /\ fenced' = <<>>
  /\ revoked' = <<>> /\ generation' = 0 /\ applied' = {} /\ last' = Never /\ answer' = None
  /\ res' = [t \in Threads |-> IdleRequest] /\ sub' = Fetching(stored, FALSE)
  /\ UNCHANGED <<feed, clock, stored>>

AuthorityNext ==
  \/ \E kind \in {"context", "token", "entitlement"}, c \in Contexts : PublishInvalidation(kind, c)
  \/ \E t \in Threads : Retry(t) \/ Load(t) \/ FinishLoad(t)
  \/ \E t \in Threads, c \in Contexts : Resolve(t, c)
  \/ Fetch \/ Consume \/ Store \/ StoreFails \/ CaughtUp \/ RestartCache \/ Tick

AuthoritySpec == AuthorityInit /\ [][AuthorityNext]_authorityVars

-----------------------------------------------------------------------------
(* Properties *)

\* "invalidation racing loader never returns stale active": no invalidation of the
\* context's account was applied since the load behind an active answer began, in
\* whatever order loads, evictions and fences meet; and a cached answer was read from
\* the service less than the TTL ago.
ActiveIsCurrent == answer # None =>
  last[answer.context] <= answer.since /\ answer.age < TTL

\* As long as the bounded tables hold all that was fenced, a service that lags behind
\* its feed revives nothing: an active answer is of no revoked context and of no
\* revision below one that was applied.
FencesHold == answer # None =>
  LET contexts == {e.context : e \in {x \in applied : x.kind = "context"}}
  IN /\ Cardinality(contexts) <= MaxEntries => answer.context \notin contexts
     /\ Cardinality({e.account : e \in applied}) <= MaxEntries =>
          \A e \in applied : e.account = AccountOf[answer.context] =>
            answer.revision >= e.revision
=============================================================================
