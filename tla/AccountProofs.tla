--------------------------- MODULE AccountProofs ----------------------------
(***************************************************************************)
(* What the gateway keeps for the accounts it works for: the sink of usage *)
(* batches, the shipping of usage rows and the cache of the authority they *)
(* run under.  Each is proved from an inductive invariant of its own:      *)
(* SpoolIInv and ShippingIInv for any number of batches, rows and shippers *)
(* and, for any number of threads, contexts, accounts and events, any      *)
(* bound of the tables and any lag of the service, AuthorityIInv of the    *)
(* answers and FenceIInv of the fences.                                    *)
(***************************************************************************)
EXTENDS UsageDurability, UsageShipping, AuthorityCache, TLAPS, FiniteSetTheorems

-----------------------------------------------------------------------------
(* The authority cache *)

Clocks == clock \in Nat /\ generation \in Nat

Marks == last \in [Contexts -> Nat] /\ \A c \in Contexts : last[c] <= generation

\* A request in flight began its load in an earlier or in this generation, and the
\* service answered after that.
Request(r) ==
  /\ r.at \in {"load", "loaded", "again"} => r.context \in Contexts
  /\ r.at \in {"load", "loaded"} =>
       /\ r.since \in Nat /\ r.since <= generation
       /\ r.now \in Nat /\ r.now <= clock
  /\ r.at = "loaded" => r.read \in Nat /\ r.now <= r.read /\ r.read <= clock

Requests == DOMAIN res = Threads /\ \A t \in Threads : Request(res[t])

\* An entry is of a load that began after the last invalidation of its account, and
\* the service was read after the time the entry is dated with.
Entry(c, e) == e # None =>
  /\ e.since \in Nat /\ last[c] <= e.since
  /\ e.loaded \in Nat /\ e.read \in Nat /\ e.loaded <= e.read /\ e.read <= clock

Entries == DOMAIN entries = Contexts /\ \A c \in Contexts : Entry(c, entries[c])

AuthorityIInv == Clocks /\ Marks /\ Requests /\ Entries /\ ActiveIsCurrent

-----------------------------------------------------------------------------

\* The empty cache satisfies the inductive invariant.
LEMMA AuthorityStarts == AuthorityInit => AuthorityIInv
BY DEF AuthorityInit, AuthorityIInv, Clocks, Marks, Requests, Request, Entries, Entry,
   ActiveIsCurrent, NoEntries, Never, IdleRequest

\* A thread that returns, or starts its next attempt, has no load in flight.
LEMMA OneRequest ==
  ASSUME NEW t \in Threads, NEW r, Requests, Request(r), res' = [res EXCEPT ![t] = r],
         UNCHANGED <<clock, generation>>
  PROVE  Requests'
BY DEF Requests, Request

\* An answer keeps the requests and is current if its load and its age are.
LEMMA AnswerStep ==
  ASSUME NEW t \in Threads, NEW c \in Contexts, NEW snap, NEW since, NEW age,
         Requests, AnswerActive(t, c, snap, since, age), UNCHANGED <<clock, generation, last>>,
         last[c] <= since, age < TTL
  PROVE  Requests' /\ ActiveIsCurrent'
<1>1. Request(IdleRequest)  BY DEF Request, IdleRequest
<1>2. Requests'  BY Zenon, <1>1, OneRequest DEF AnswerActive
<1>3. ActiveIsCurrent'
  <2>1. CASE snap.active
    <3>1. answer' = [context |-> c, revision |-> snap.revision, since |-> since, age |-> age]
      BY <2>1 DEF AnswerActive
    <3>2. answer'.context = c /\ answer'.since = since /\ answer'.age = age
      BY <3>1
    <3> QED  BY <3>2 DEF ActiveIsCurrent
  <2>2. CASE ~snap.active
    BY <2>2 DEF AnswerActive, ActiveIsCurrent
  <2> QED  BY <2>1, <2>2
<1> QED  BY <1>2, <1>3

\* A look at the cache may evict the entry it finds.
LEMMA Evicted ==
  ASSUME DOMAIN entries = Contexts, NEW c \in Contexts, NEW evicts \in BOOLEAN,
         entries' = IF evicts THEN [entries EXCEPT ![c] = None] ELSE entries
  PROVE  /\ DOMAIN entries' = Contexts
         /\ \A x \in Contexts : entries'[x] \in {entries[x], None}
<1>1. CASE evicts
  <2>1. entries' = [entries EXCEPT ![c] = None]  BY Zenon, <1>1
  <2> QED  BY <2>1
<1>2. CASE ~evicts
  <2>1. entries' = entries  BY Zenon, <1>2
  <2> QED  BY Zenon, <2>1
<1> QED  BY Zenon, <1>1, <1>2

\* The first critical section (resolve_context_state).
LEMMA FirstLook ==
  ASSUME TTL \in Nat \ {0}, AuthorityIInv, NEW t \in Threads, NEW c \in Contexts, NEW n,
         Look(t, c, n), UNCHANGED <<clock, generation, last>>
  PROVE  AuthorityIInv'
<1> DEFINE e == entries[c]
           fresh == e # None /\ clock - e.loaded < TTL
<1>0. Clocks' /\ Marks'  BY DEF AuthorityIInv, Clocks, Marks
<1>1. CASE Inactive(t) /\ UNCHANGED entries
  <2>1. Request(IdleRequest)  BY DEF Request, IdleRequest
  <2>2. Requests'  BY Zenon, <1>1, <2>1, OneRequest DEF AuthorityIInv, Inactive
  <2> QED  BY <1>0, <1>1, <2>2 DEF AuthorityIInv, Inactive, ActiveIsCurrent, Entries, Entry
<1>2. CASE fresh /\ AnswerActive(t, c, e.snap, e.since, clock - e.read) /\ UNCHANGED entries
  <2>1. last[c] <= e.since /\ clock - e.read < TTL
    BY <1>2 DEF AuthorityIInv, Entries, Entry, Clocks
  <2>2. Requests' /\ ActiveIsCurrent'
    BY <1>2, <2>1, AnswerStep DEF AuthorityIInv
  <2> QED  BY <1>0, <1>2, <2>2 DEF AuthorityIInv, Entries, Entry
<1>3. CASE /\ entries' = IF fresh THEN [entries EXCEPT ![c] = None] ELSE entries
           /\ res' = [res EXCEPT ![t] = [at |-> "load", context |-> c, attempt |-> n,
                                         since |-> generation, now |-> clock]]
           /\ answer' = None
  <2> DEFINE r == [at |-> "load", context |-> c, attempt |-> n, since |-> generation,
                   now |-> clock]
  <2>1. Request(r)  BY DEF AuthorityIInv, Clocks, Request
  <2> HIDE DEF r
  <2>2. Requests'  BY Zenon, <1>3, <2>1, OneRequest DEF AuthorityIInv, r
  <2>3. DOMAIN entries' = Contexts /\ \A x \in Contexts : entries'[x] \in {entries[x], None}
    BY Zenon, <1>3, Evicted DEF AuthorityIInv, Entries
  <2>4. Entries'  BY <2>3 DEF AuthorityIInv, Entries, Entry
  <2> QED  BY <1>0, <1>3, <2>2, <2>4 DEF AuthorityIInv, ActiveIsCurrent
<1> QED  BY <1>1, <1>2, <1>3 DEF Look

\* The service's answer.
LEMMA LoadStep ==
  ASSUME AuthorityIInv, NEW t \in Threads, Load(t)
  PROVE  AuthorityIInv'
<1>0. UNCHANGED <<clock, generation, last, entries>> /\ answer' = None
  BY DEF Load, fences
<1>1. PICK r : /\ res' = [res EXCEPT ![t] = r]
               /\ Request(r)
  <2>1. CASE res' = [res EXCEPT ![t] = IdleRequest]
    <3>1. Request(IdleRequest)  BY DEF Request, IdleRequest
    <3> QED  BY Zenon, <2>1, <3>1
  <2>2. CASE ~(res' = [res EXCEPT ![t] = IdleRequest])
    <3>1. PICK s : res' = [res EXCEPT ![t] =
                     [at |-> "loaded", context |-> res[t].context, attempt |-> res[t].attempt,
                      since |-> res[t].since, now |-> res[t].now, snap |-> s, read |-> clock]]
      BY <2>2 DEF Load
    <3> DEFINE r == [at |-> "loaded", context |-> res[t].context, attempt |-> res[t].attempt,
                     since |-> res[t].since, now |-> res[t].now, snap |-> s, read |-> clock]
    <3>2. /\ r.at = "loaded" /\ r.context = res[t].context /\ r.since = res[t].since
          /\ r.now = res[t].now /\ r.read = clock
      OBVIOUS
    <3>3. Request(res[t]) /\ res[t].at = "load" /\ clock \in Nat
      BY DEF AuthorityIInv, Requests, Load, Clocks
    <3> HIDE DEF r
    <3>4. Request(r)  BY <3>2, <3>3 DEF Request
    <3> QED  BY Zenon, <3>1, <3>4 DEF r
  <2> QED  BY <2>1, <2>2
<1>2. Requests'  BY Zenon, <1>0, <1>1, OneRequest DEF AuthorityIInv
<1> QED  BY <1>0, <1>2 DEF AuthorityIInv, Clocks, Marks, Entries, Entry, ActiveIsCurrent

\* The second critical section: a kept snapshot is of this generation.
LEMMA SecondLook ==
  ASSUME TTL \in Nat \ {0}, AuthorityIInv, NEW t \in Threads, FinishLoad(t)
  PROVE  AuthorityIInv'
<1> DEFINE r == res[t]
<1>0. UNCHANGED <<clock, generation, last>>  BY DEF FinishLoad, fences
<1>1. /\ r.context \in Contexts /\ r.since \in Nat /\ r.now \in Nat /\ r.read \in Nat
      /\ r.now <= r.read /\ r.read <= clock
  BY DEF AuthorityIInv, Requests, Request, FinishLoad
<1>2. Clocks' /\ Marks'  BY <1>0 DEF AuthorityIInv, Clocks, Marks
<1>3. CASE Inactive(t) /\ UNCHANGED entries
  <2>1. Request(IdleRequest)  BY DEF Request, IdleRequest
  <2>2. Requests'  BY Zenon, <1>0, <1>3, <2>1, OneRequest DEF AuthorityIInv, Inactive
  <2> QED
    BY <1>0, <1>2, <1>3, <2>2 DEF AuthorityIInv, Inactive, ActiveIsCurrent, Entries, Entry
<1>4. CASE /\ res' = [res EXCEPT ![t] = [at |-> "again", context |-> r.context]]
           /\ answer' = None /\ UNCHANGED entries
  <2>1. Request([at |-> "again", context |-> r.context])  BY <1>1 DEF Request
  <2>2. Requests'  BY Zenon, <1>0, <1>4, <2>1, OneRequest DEF AuthorityIInv
  <2> QED  BY <1>0, <1>2, <1>4, <2>2 DEF AuthorityIInv, ActiveIsCurrent, Entries, Entry
<1>5. CASE r.since = generation /\ Keep(t, r.now)
  <2> DEFINE e == [snap |-> r.snap, loaded |-> r.now, read |-> r.read, since |-> r.since]
  <2>1. last[r.context] <= r.since  BY <1>1, <1>5 DEF AuthorityIInv, Marks
  <2>2. /\ \E x : entries' = [c \in Contexts |-> IF c \in x THEN None
                                    ELSE IF c = r.context THEN e ELSE entries[c]]
        /\ AnswerActive(t, r.context, r.snap, r.since, 0)
    BY <1>5, Zenon DEF Keep
  <2>3. Requests' /\ ActiveIsCurrent'
    BY <1>0, <1>1, <2>1, <2>2, AnswerStep DEF AuthorityIInv
  <2>4. e.since = r.since /\ e.loaded = r.now /\ e.read = r.read  OBVIOUS
  <2> HIDE DEF e
  <2>5. Entries'
    <3> SUFFICES ASSUME NEW c \in Contexts PROVE Entry(c, entries[c])'
      BY <2>2 DEF Entries
    <3>0. Entry(c, entries[c])  BY DEF AuthorityIInv, Entries
    <3>1. CASE entries'[c] = entries[c]
      BY <1>0, <3>0, <3>1 DEF Entry
    <3>2. CASE entries'[c] = None
      BY <3>2 DEF Entry
    <3>3. CASE entries'[c] = e /\ c = r.context
      BY <1>0, <1>1, <2>1, <2>4, <3>3 DEF Entry
    <3> QED  BY <2>2, <3>1, <3>2, <3>3
  <2> QED  BY <1>2, <2>3, <2>5 DEF AuthorityIInv
<1> QED  BY <1>3, <1>4, <1>5 DEF FinishLoad, StillCurrent

\* An invalidation: what concerns the account is evicted, loads in flight are of an
\* older generation from now on.
LEMMA ApplyStep ==
  ASSUME AuthorityIInv, NEW e, Apply(e), answer' = None, UNCHANGED <<clock, res>>
  PROVE  AuthorityIInv'
<1>1. /\ generation' = generation + 1
      /\ last' = [c \in Contexts |-> IF e.account = AccountOf[c] THEN generation' ELSE last[c]]
      /\ entries' = [c \in Contexts |-> IF Concerns(e, c) THEN None ELSE entries[c]]
  BY DEF Apply
<1>2. Clocks' /\ Marks'  BY <1>1 DEF AuthorityIInv, Clocks, Marks
<1>3. Requests'  BY <1>1 DEF AuthorityIInv, Clocks, Requests, Request
<1>4. Entries'
  <2> SUFFICES ASSUME NEW c \in Contexts PROVE Entry(c, entries[c])'
    BY <1>1 DEF Entries
  <2>1. CASE Concerns(e, c)  BY <1>1, <2>1 DEF Entry
  <2>2. CASE ~Concerns(e, c)
    <3>1. last'[c] = last[c] /\ entries'[c] = entries[c]
      BY <1>1, <2>2 DEF Concerns
    <3> QED  BY <3>1 DEF AuthorityIInv, Entries, Entry
  <2> QED  BY <2>1, <2>2
<1> QED  BY <1>2, <1>3, <1>4 DEF AuthorityIInv, ActiveIsCurrent

\* Every step keeps the inductive invariant.
LEMMA AuthoritySteps ==
  ASSUME TTL \in Nat \ {0}, AuthorityIInv, [AuthorityNext]_authorityVars
  PROVE  AuthorityIInv'
<1>1. CASE UNCHANGED authorityVars
  BY <1>1 DEF authorityVars, fences, AuthorityIInv, Clocks, Marks, Requests, Request, Entries,
     Entry, ActiveIsCurrent
<1>2. CASE /\ answer' = None /\ clock' \in {clock, clock + 1}
           /\ UNCHANGED <<entries, generation, last, res>>
  <2>1. clock \in Nat /\ clock' \in Nat /\ clock <= clock'
    BY <1>2 DEF AuthorityIInv, Clocks
  <2>2. Requests'
    <3> SUFFICES ASSUME NEW t \in Threads PROVE Request(res[t])'
      BY <1>2 DEF AuthorityIInv, Requests
    <3>1. Request(res[t])  BY DEF AuthorityIInv, Requests
    <3> QED  BY <1>2, <2>1, <3>1 DEF Request
  <2>3. Entries'
    <3> SUFFICES ASSUME NEW c \in Contexts PROVE Entry(c, entries[c])'
      BY <1>2 DEF AuthorityIInv, Entries
    <3>1. Entry(c, entries[c])  BY DEF AuthorityIInv, Entries
    <3> QED  BY <1>2, <2>1, <3>1 DEF Entry
  <2> QED  BY <1>2, <2>1, <2>2, <2>3 DEF AuthorityIInv, Clocks, Marks, ActiveIsCurrent
<1>3. CASE (\E k \in {"context", "token", "entitlement"}, c \in Contexts : PublishInvalidation(k, c))
           \/ Fetch \/ Store \/ StoreFails \/ CaughtUp \/ Tick
  BY Zenon, <1>2, <1>3 DEF PublishInvalidation, Fetch, Store, StoreFails, CaughtUp, Tick, fences
<1>4. CASE \E t \in Threads, c \in Contexts : Resolve(t, c)
  BY <1>4, FirstLook DEF Resolve, fences
<1>5. ASSUME NEW t \in Threads, Retry(t) PROVE AuthorityIInv'
  <2>1. res[t].context \in Contexts  BY <1>5 DEF Retry, AuthorityIInv, Requests, Request
  <2> QED  BY <1>5, <2>1, FirstLook DEF Retry, fences
<1>6. CASE \E t \in Threads : Load(t) \/ FinishLoad(t)
  BY <1>6, LoadStep, SecondLook
<1>7. CASE Consume
  BY <1>7, ApplyStep DEF Consume
<1>8. CASE RestartCache
  <2>1. /\ clock' = clock /\ generation' = 0 /\ last' = Never /\ answer' = None
        /\ entries' = NoEntries /\ res' = [t \in Threads |-> IdleRequest]
    BY <1>8 DEF RestartCache
  <2> QED  BY <2>1 DEF AuthorityIInv, Clocks, Marks, Requests, Request, Entries, Entry,
                       ActiveIsCurrent, NoEntries, Never, IdleRequest
<1> QED  BY <1>1, <1>3, <1>4, <1>5, <1>6, <1>7, <1>8 DEF AuthorityNext

\* Every reachable state satisfies the inductive invariant, with a positive TTL.
LEMMA AuthorityInvariance == AuthoritySpec => []AuthorityIInv
<1>1. AuthorityIInv /\ [AuthorityNext]_authorityVars => AuthorityIInv'
  BY AuthoritySteps, AuthorityConstants
<1> QED  BY <1>1, AuthorityStarts, PTL DEF AuthoritySpec

\* An active answer is current: no invalidation of its account was applied since its
\* load began, and a cached one is younger than the TTL (resolve_context_state,
\* apply_invalidation, _trim).
THEOREM AnswersAreCurrent == AuthoritySpec => []ActiveIsCurrent
<1>1. AuthorityIInv => ActiveIsCurrent  BY DEF AuthorityIInv
<1> QED  BY <1>1, AuthorityInvariance, PTL

-----------------------------------------------------------------------------
(* The fences. *)

Kinds == {"context", "token", "entitlement"}
Invalidations == {e \in [kind : Kinds, account : Accounts, context : Contexts \cup {None},
                         token : Contexts \cup {None}, revision : Nat] :
                    e.kind = "context" => e.context \in Contexts}

RevokedContexts == {e.context : e \in {x \in applied : x.kind = "context"}}
FencedAccounts == {e.account : e \in applied}

\* The feed only grows, and no cursor is past its end.
Subscribed ==
  /\ feed \in Seq(Invalidations) /\ stored \in 0 .. Len(feed)
  /\ sub \in [at : {"fetch", "apply"}, cursor : 0 .. Len(feed), pos : 0 .. Len(feed),
              upto : 0 .. Len(feed), high : 0 .. Len(feed), serving : BOOLEAN]

Distinct(order) == \A i, j \in 1 .. Len(order) : order[i] = order[j] => i = j

\* A bounded table holds nothing twice and nothing but what was fenced: when all that
\* was fenced fits, nothing has been trimmed.
Revocations ==
  /\ revoked \in Seq(Contexts) /\ Distinct(revoked) /\ IsFiniteSet(RevokedContexts)
  /\ Range(revoked) \subseteq RevokedContexts
  /\ Cardinality(RevokedContexts) <= MaxEntries => RevokedContexts \subseteq Range(revoked)

Floors ==
  /\ fenced \in Seq(Accounts) /\ Distinct(fenced) /\ IsFiniteSet(FencedAccounts)
  /\ Range(fenced) \subseteq FencedAccounts
  /\ floors \in [Accounts -> Nat]
  /\ Cardinality(FencedAccounts) <= MaxEntries =>
       \A e \in applied : floors[e.account] >= e.revision

\* A load of this generation began with its context not revoked.
Loads == \A t \in Threads :
  /\ res[t].at = "loaded" => res[t].snap.revision \in Nat
  /\ res[t].at \in {"load", "loaded"} /\ res[t].since = generation =>
       res[t].context \notin Range(revoked)

Snapshots == \A c \in Contexts : entries[c] # None => entries[c].snap.revision \in Nat

FenceIInv ==
  /\ Subscribed /\ applied \subseteq Invalidations /\ Revocations /\ Floors /\ Loads /\ Snapshots
  /\ FencesHold

\* The empty cache satisfies the inductive invariant.
LEMMA FenceInit == AuthorityInit => FenceIInv
<1> SUFFICES ASSUME AuthorityInit PROVE FenceIInv  OBVIOUS
<1>1. Subscribed  BY DEF AuthorityInit, Subscribed, Fetching
<1>2. RevokedContexts = {} /\ FencedAccounts = {} /\ applied = {}
  BY DEF AuthorityInit, RevokedContexts, FencedAccounts
<1>3. Revocations  BY <1>2, FS_EmptySet DEF AuthorityInit, Revocations, Distinct, Range
<1>4. Floors  BY <1>2, FS_EmptySet DEF AuthorityInit, Floors, Distinct, Range, NoFloors
<1> QED
  BY <1>1, <1>2, <1>3, <1>4 DEF AuthorityInit, FenceIInv, Loads, Snapshots, FencesHold,
     IdleRequest, NoEntries

\* pop keeps the others once each.
LEMMA WithoutOne ==
  ASSUME NEW S, NEW order \in Seq(S), Distinct(order), NEW k
  PROVE  /\ Without(order, k) \in Seq(S) /\ Distinct(Without(order, k))
         /\ Range(Without(order, k)) = Range(order) \ {k}
<1>1. CASE k \notin Range(order)  BY <1>1 DEF Without
<1>2. CASE k \in Range(order)
  <2> DEFINE at == CHOOSE i \in DOMAIN order : order[i] = k
             rest == [i \in 1 .. Len(order) - 1 |-> IF i < at THEN order[i] ELSE order[i + 1]]
  <2>1. at \in 1 .. Len(order) /\ order[at] = k  BY <1>2 DEF Range
  <2>2. Without(order, k) = rest  BY <1>2 DEF Without
  <2> HIDE DEF at
  <2>3. rest \in Seq(S) /\ Len(rest) = Len(order) - 1  BY <2>1
  <2>4. \A i \in 1 .. Len(order) - 1 : rest[i] = IF i < at THEN order[i] ELSE order[i + 1]
    OBVIOUS
  <2> HIDE DEF rest
  <2>5. Distinct(rest)  BY <2>1, <2>3, <2>4 DEF Distinct
  <2>6. Range(rest) \subseteq Range(order) \ {k}
    <3> SUFFICES ASSUME NEW i \in 1 .. Len(order) - 1 PROVE rest[i] \in Range(order) \ {k}
      BY <2>3 DEF Range
    <3> QED  BY <2>1, <2>4 DEF Range, Distinct
  <2>7. Range(order) \ {k} \subseteq Range(rest)
    <3> SUFFICES ASSUME NEW i \in 1 .. Len(order), order[i] # k PROVE order[i] \in Range(rest)
      BY DEF Range
    <3>1. CASE i < at  BY <2>1, <2>3, <2>4, <3>1 DEF Range
    <3>2. CASE i > at
      <4>1. i - 1 \in 1 .. Len(order) - 1 /\ ~(i - 1 < at) /\ (i - 1) + 1 = i  BY <2>1, <3>2
      <4>2. rest[i - 1] = order[i]  BY <2>4, <4>1
      <4> QED  BY <2>3, <4>1, <4>2 DEF Range
    <3> QED  BY <2>1, <3>1, <3>2
  <2> QED  BY <2>2, <2>3, <2>5, <2>6, <2>7
<1> QED  BY <1>1, <1>2

\* move_to_end adds one key.
LEMMA MovedToEnd ==
  ASSUME NEW S, NEW order \in Seq(S), Distinct(order), NEW k \in S
  PROVE  /\ MoveToEnd(order, k) \in Seq(S) /\ Distinct(MoveToEnd(order, k))
         /\ Range(MoveToEnd(order, k)) = Range(order) \cup {k}
<1> DEFINE rest == Without(order, k)
<1>1. rest \in Seq(S) /\ Distinct(rest) /\ Range(rest) = Range(order) \ {k}  BY WithoutOne
<1> HIDE DEF rest
<1>2. MoveToEnd(order, k) = Append(rest, k)  BY DEF MoveToEnd, rest
<1> DEFINE new == Append(rest, k)
<1>3. /\ new \in Seq(S) /\ Len(new) = Len(rest) + 1 /\ new[Len(rest) + 1] = k
      /\ \A i \in 1 .. Len(rest) : new[i] = rest[i]
  BY <1>1
<1>4. \A i \in 1 .. Len(rest) : rest[i] # k  BY <1>1 DEF Range
<1> HIDE DEF new
<1>5. Distinct(new)  BY <1>1, <1>3, <1>4 DEF Distinct
<1>6. Range(new) = Range(rest) \cup {k}
  <2>1. Range(new) \subseteq Range(rest) \cup {k}
    <3> SUFFICES ASSUME NEW i \in 1 .. Len(rest) + 1 PROVE new[i] \in Range(rest) \cup {k}
      BY <1>3 DEF Range
    <3>1. CASE i \in 1 .. Len(rest)  BY <1>1, <1>3, <3>1 DEF Range
    <3> QED  BY <1>1, <1>3, <3>1
  <2>2. k \in Range(new)  BY <1>1, <1>3 DEF Range
  <2>3. Range(rest) \subseteq Range(new)  BY <1>1, <1>3 DEF Range
  <2> QED  BY <2>1, <2>2, <2>3
<1> QED  BY <1>1, <1>2, <1>3, <1>5, <1>6 DEF new

\* _trim keeps a table distinct, and drops nothing when all that may be in it fits.
LEMMA Trimming ==
  ASSUME NEW S, NEW order \in Seq(S), Distinct(order), MaxEntries \in Nat,
         NEW All, IsFiniteSet(All), Range(order) \subseteq All
  PROVE  /\ Trim(order) \in Seq(S) /\ Distinct(Trim(order)) /\ Range(Trim(order)) \subseteq All
         /\ Cardinality(All) <= MaxEntries => Trim(order) = order /\ Trimmed(order) = {}
<1>1. Len(order) <= Cardinality(All)
  <2>1. order \in Injection(1 .. Len(order), All)
    BY DEF Injection, IsInjective, Distinct, Range
  <2>2. Cardinality(1 .. Len(order)) <= Cardinality(All)  BY <2>1, FS_Injection
  <2>3. Cardinality(1 .. Len(order)) = Len(order)
    <3>1. Len(order) \in Nat  OBVIOUS
    <3>2. Cardinality(1 .. Len(order)) = IF 1 > Len(order) THEN 0 ELSE Len(order) - 1 + 1
      BY <3>1, FS_Interval
    <3> QED  BY <3>1, <3>2
  <2> QED  BY <2>2, <2>3
<1>2. CASE Len(order) > MaxEntries
  <2> DEFINE rest == Tail(order)
  <2>1. /\ rest \in Seq(S) /\ Len(rest) = Len(order) - 1
        /\ \A i \in 1 .. Len(rest) : rest[i] = order[i + 1]
    BY <1>2
  <2>2. Trim(order) = rest  BY <1>2 DEF Trim
  <2> HIDE DEF rest
  <2>3. Distinct(rest)  BY <2>1 DEF Distinct
  <2>4. Range(rest) \subseteq Range(order)  BY <2>1 DEF Range
  <2>5. ~(Cardinality(All) <= MaxEntries)  BY <1>1, <1>2, FS_CardinalityType
  <2> QED  BY <2>1, <2>2, <2>3, <2>4, <2>5
<1>3. CASE ~(Len(order) > MaxEntries)  BY <1>3 DEF Trim, Trimmed
<1> QED  BY <1>2, <1>3

\* apply_invalidation: the account is fenced, a revoked context is remembered, and every
\* load in flight is of an older generation.
LEMMA FenceApply ==
  ASSUME MaxEntries \in Nat, AuthorityIInv, FenceIInv, NEW e \in Invalidations, Apply(e),
         answer' = None, UNCHANGED res, Subscribed'
  PROVE  FenceIInv'
<1>1. applied' = applied \cup {e} /\ applied' \subseteq Invalidations
  BY DEF Apply, FenceIInv
<1>2. FencedAccounts' = FencedAccounts \cup {e.account}  BY <1>1 DEF FencedAccounts
<1>3. RevokedContexts' = IF e.kind = "context" THEN RevokedContexts \cup {e.context}
                         ELSE RevokedContexts
  BY <1>1 DEF RevokedContexts
<1>4. e.account \in Accounts /\ e.revision \in Nat /\ (e.kind = "context" => e.context \in Contexts)
  BY DEF Invalidations
<1>5. Revocations'
  <2> DEFINE contexts == IF e.kind = "context" THEN MoveToEnd(revoked, e.context) ELSE revoked
             All == RevokedContexts'
  <2>0. Revocations /\ IsFiniteSet(All) /\ RevokedContexts \subseteq All
    BY Zenon, <1>3, FS_AddElement DEF FenceIInv, Revocations
  <2>1. contexts \in Seq(Contexts) /\ Distinct(contexts)
    BY <1>4, <2>0, MovedToEnd DEF Revocations
  <2>2. Range(contexts) = Range(revoked) \cup (IF e.kind = "context" THEN {e.context} ELSE {})
    <3>1. CASE e.kind = "context"
      <4>1. Range(MoveToEnd(revoked, e.context)) = Range(revoked) \cup {e.context}
        BY <1>4, <2>0, <3>1, MovedToEnd DEF Revocations
      <4> QED  BY <3>1, <4>1
    <3>2. CASE e.kind # "context"  BY <3>2
    <3> QED  BY <3>1, <3>2
  <2>3. All \ RevokedContexts \subseteq Range(contexts) /\ Range(revoked) \subseteq Range(contexts)
        /\ Range(contexts) \subseteq All
    BY <1>3, <2>0, <2>2 DEF Revocations
  <2>4. revoked' = Trim(contexts)  BY Zenon DEF Apply
  <2> HIDE DEF contexts, All
  <2>5. /\ Trim(contexts) \in Seq(Contexts) /\ Distinct(Trim(contexts))
        /\ Range(Trim(contexts)) \subseteq All
        /\ Cardinality(All) <= MaxEntries => Trim(contexts) = contexts
    BY <2>0, <2>1, <2>3, Trimming
  <2>6. ASSUME Cardinality(All) <= MaxEntries PROVE All \subseteq Range(revoked')
    <3>1. Cardinality(RevokedContexts) <= Cardinality(All)  BY <2>0, FS_Subset
    <3>2. Cardinality(RevokedContexts) \in Nat /\ Cardinality(All) \in Nat
      BY <2>0, FS_CardinalityType DEF Revocations
    <3>3. Cardinality(RevokedContexts) <= MaxEntries  BY <2>6, <3>1, <3>2
    <3>4. RevokedContexts \subseteq Range(revoked)  BY <2>0, <3>3 DEF Revocations
    <3> QED  BY <2>3, <2>4, <2>5, <2>6, <3>4
  <2> QED  BY <2>0, <2>4, <2>5, <2>6 DEF Revocations, All
<1>6. Floors'
  <2> DEFINE order == MoveToEnd(fenced, e.account)
             All == FencedAccounts'
  <2>0. Floors /\ IsFiniteSet(All) /\ FencedAccounts \subseteq All
    BY Zenon, <1>2, FS_AddElement DEF FenceIInv, Floors
  <2>1. order \in Seq(Accounts) /\ Distinct(order) /\ Range(order) \subseteq All
    BY <1>2, <1>4, <2>0, MovedToEnd DEF Floors
  <2>2. fenced' = Trim(order)
        /\ floors' = [a \in Accounts |->
             IF a \in Trimmed(order) THEN 0
             ELSE IF a = e.account THEN Raised(floors[a], e.revision) ELSE floors[a]]
    BY DEF Apply
  <2> HIDE DEF order, All
  <2>3. /\ Trim(order) \in Seq(Accounts) /\ Distinct(Trim(order)) /\ Range(Trim(order)) \subseteq All
        /\ Cardinality(All) <= MaxEntries => Trimmed(order) = {}
    BY <2>0, <2>1, Trimming
  <2>4. floors' \in [Accounts -> Nat]
    <3>1. floors \in [Accounts -> Nat]  BY <2>0 DEF Floors
    <3> QED  BY <1>4, <2>2, <3>1 DEF Raised
  <2>5. ASSUME Cardinality(All) <= MaxEntries, NEW x \in applied'
        PROVE  floors'[x.account] >= x.revision
    <3>1. Cardinality(FencedAccounts) <= Cardinality(All)  BY <2>0, FS_Subset
    <3>2. Cardinality(FencedAccounts) \in Nat /\ Cardinality(All) \in Nat
      BY <2>0, FS_CardinalityType DEF Floors
    <3>3. Cardinality(FencedAccounts) <= MaxEntries  BY <2>5, <3>1, <3>2
    <3>4. \A y \in applied : floors[y.account] >= y.revision  BY <2>0, <3>3 DEF Floors
    <3>5. x.account \in Accounts /\ x.revision \in Nat  BY <1>1 DEF Invalidations
    <3>6. floors \in [Accounts -> Nat]  BY <2>0 DEF Floors
    <3>7. \A a \in Accounts : floors'[a] = IF a = e.account THEN Raised(floors[a], e.revision)
                                           ELSE floors[a]
      BY Zenon, <2>2, <2>3, <2>5
    <3>8. CASE x = e  BY <1>4, <3>6, <3>7, <3>8 DEF Raised
    <3>9. CASE x # e
      <4>1. x \in applied  BY <1>1, <3>9
      <4>2. floors[x.account] >= x.revision  BY <3>4, <4>1
      <4> QED  BY <1>4, <3>5, <3>6, <3>7, <4>2 DEF Raised
    <3> QED  BY <3>8, <3>9
  <2> QED  BY <2>0, <2>2, <2>3, <2>4, <2>5 DEF Floors, All
<1>7. Loads'
  <2>1. generation \in Nat /\ generation' = generation + 1  BY DEF Apply, AuthorityIInv, Clocks
  <2> SUFFICES ASSUME NEW t \in Threads
               PROVE  /\ res[t].at = "loaded" => res[t].snap.revision \in Nat
                      /\ ~(res[t].at \in {"load", "loaded"} /\ res[t].since = generation')
    BY DEF Loads
  <2>2. Request(res[t])  BY DEF AuthorityIInv, Requests
  <2> QED  BY <2>1, <2>2 DEF Request, FenceIInv, Loads
<1>8. Snapshots'  BY Zenon DEF Apply, FenceIInv, Snapshots
<1> QED  BY <1>1, <1>5, <1>6, <1>7, <1>8 DEF FenceIInv, FencesHold

\* A step that leaves the fences alone.
LEMMA FencesKept ==
  ASSUME FenceIInv, UNCHANGED fences, Subscribed', Loads', Snapshots', FencesHold'
  PROVE  FenceIInv'
BY Zenon DEF FenceIInv, fences, Revocations, RevokedContexts, Floors, FencedAccounts

\* An answer of a context that is not revoked, at the floor of its account or above it.
LEMMA FencedAnswer ==
  ASSUME AccountOf \in [Contexts -> Accounts], FenceIInv, UNCHANGED fences,
         NEW t, NEW c \in Contexts, NEW snap, NEW since, NEW age, AnswerActive(t, c, snap, since, age),
         c \notin Range(revoked), snap.revision \in Nat, snap.revision >= floors[AccountOf[c]]
  PROVE  FencesHold'
<1>1. CASE ~snap.active  BY <1>1 DEF AnswerActive, FencesHold
<1>2. CASE snap.active
  <2>1. answer'.context = c /\ answer'.revision = snap.revision  BY <1>2 DEF AnswerActive
  <2>2. applied' = applied  BY DEF fences
  <2>3. ASSUME Cardinality(RevokedContexts) <= MaxEntries PROVE c \notin RevokedContexts
    BY <2>3 DEF FenceIInv, Revocations
  <2>4. ASSUME Cardinality(FencedAccounts) <= MaxEntries, NEW e \in applied,
               e.account = AccountOf[c]
        PROVE  snap.revision >= e.revision
    <3>1. floors[AccountOf[c]] >= e.revision  BY <2>4 DEF FenceIInv, Floors
    <3>2. floors[AccountOf[c]] \in Nat /\ e.revision \in Nat
      BY DEF FenceIInv, Floors, Invalidations
    <3> QED  BY <3>1, <3>2
  <2> QED  BY Zenon, <2>1, <2>2, <2>3, <2>4 DEF FencesHold, RevokedContexts, FencedAccounts
<1> QED  BY <1>1, <1>2

\* Both looks at the cache.
LEMMA FenceLook ==
  ASSUME AccountOf \in [Contexts -> Accounts], AuthorityIInv, FenceIInv, UNCHANGED fences,
         Subscribed', NEW t \in Threads, NEW c \in Contexts, NEW n, Look(t, c, n)
  PROVE  FenceIInv'
<1> DEFINE e == entries[c]
           fresh == e # None /\ clock - e.loaded < TTL
           hit == fresh /\ e.snap.revision >= floors[AccountOf[c]]
<1>0. DOMAIN res = Threads /\ UNCHANGED <<revoked, generation, applied>>
  BY DEF AuthorityIInv, Requests, fences
<1>1. CASE Inactive(t) /\ UNCHANGED entries
  BY Zenon, <1>0, <1>1, FencesKept DEF Inactive, FenceIInv, Loads, Snapshots, FencesHold,
     IdleRequest
<1>2. CASE /\ c \notin Range(revoked) /\ hit /\ UNCHANGED entries
           /\ AnswerActive(t, c, e.snap, e.since, clock - e.read)
  <2>1. FencesHold'  BY Zenon, <1>2, FencedAnswer DEF FenceIInv, Snapshots
  <2>2. Loads'  BY Zenon, <1>0, <1>2 DEF AnswerActive, FenceIInv, Loads, IdleRequest
  <2> QED  BY Zenon, <1>2, <2>1, <2>2, FencesKept DEF FenceIInv, Snapshots
<1>3. CASE /\ c \notin Range(revoked)
           /\ entries' = IF fresh THEN [entries EXCEPT ![c] = None] ELSE entries
           /\ res' = [res EXCEPT ![t] = [at |-> "load", context |-> c, attempt |-> n,
                                         since |-> generation, now |-> clock]]
           /\ answer' = None
  <2>1. Loads'
    <3> SUFFICES ASSUME NEW u \in Threads
                 PROVE  /\ res'[u].at = "loaded" => res'[u].snap.revision \in Nat
                        /\ res'[u].at \in {"load", "loaded"} /\ res'[u].since = generation =>
                             res'[u].context \notin Range(revoked)
      BY Zenon, <1>0 DEF Loads
    <3>1. CASE u = t  BY <1>0, <1>3, <3>1
    <3>2. CASE u # t  BY Zenon, <1>0, <1>3, <3>2 DEF FenceIInv, Loads
    <3> QED  BY Zenon, <3>1, <3>2
  <2>2. \A x \in Contexts : entries'[x] \in {entries[x], None}
    BY Zenon, <1>3, Evicted DEF AuthorityIInv, Entries
  <2>3. Snapshots'  BY <2>2 DEF FenceIInv, Snapshots
  <2> QED  BY Zenon, <1>3, <2>1, <2>3, FencesKept DEF FencesHold
<1> QED  BY Zenon, <1>1, <1>2, <1>3 DEF Look

LEMMA RevisionType == ASSUME NEW a, NEW v \in Nat PROVE Revision(a, v) \in Nat
<1> DEFINE moves == {i \in 1 .. v : feed[i].kind = "entitlement" /\ feed[i].account = a}
<1>1. IsFiniteSet(1 .. v) /\ moves \subseteq 1 .. v  BY FS_Interval
<1> HIDE DEF moves
<1>2. Cardinality(moves) \in Nat  BY Zenon, <1>1, FS_Subset, FS_CardinalityType
<1> QED  BY <1>2 DEF Revision, moves

\* The service's answer has a revision.
LEMMA FenceLoad ==
  ASSUME Lag \in Nat, AuthorityIInv, FenceIInv, NEW t \in Threads, Load(t)
  PROVE  FenceIInv'
<1>0. /\ DOMAIN res = Threads /\ res[t].at = "load"
      /\ UNCHANGED <<feed, sub, stored, entries, revoked, generation>> /\ UNCHANGED fences
      /\ answer' = None
  BY DEF AuthorityIInv, Requests, Load, fences
<1>1. Subscribed' /\ Snapshots' /\ FencesHold'
  BY Zenon, <1>0 DEF FenceIInv, Subscribed, Snapshots, FencesHold
<1>2. CASE res' = [res EXCEPT ![t] = IdleRequest]
  BY Zenon, <1>0, <1>1, <1>2, FencesKept DEF FenceIInv, Loads, IdleRequest
<1>3. CASE ~(res' = [res EXCEPT ![t] = IdleRequest])
  <2>1. PICK v \in (Len(feed) - Lag) .. Len(feed) :
          /\ v >= 0
          /\ res' = [res EXCEPT ![t] =
               [at |-> "loaded", context |-> res[t].context, attempt |-> res[t].attempt,
                since |-> res[t].since, now |-> res[t].now,
                snap |-> Snapshot(res[t].context, v), read |-> clock]]
    BY <1>3, Zenon DEF Load
  <2>2. v \in Nat  BY <2>1 DEF FenceIInv, Subscribed
  <2>3. Revision(AccountOf[res[t].context], v) \in Nat  BY <2>2, RevisionType
  <2>4. Snapshot(res[t].context, v).revision = Revision(AccountOf[res[t].context], v)
    BY Zenon DEF Snapshot
  <2>5. Loads'
    <3> SUFFICES ASSUME NEW u \in Threads
                 PROVE  /\ res'[u].at = "loaded" => res'[u].snap.revision \in Nat
                        /\ res'[u].at \in {"load", "loaded"} /\ res'[u].since = generation =>
                             res'[u].context \notin Range(revoked)
      BY Zenon, <1>0 DEF Loads
    <3>0. res[u].at \in {"load", "loaded"} /\ res[u].since = generation =>
            res[u].context \notin Range(revoked)
      BY Zenon DEF FenceIInv, Loads
    <3>1. CASE u = t
      <4>1. /\ res'[u].snap = Snapshot(res[t].context, v) /\ res'[u].since = res[u].since
            /\ res'[u].context = res[u].context
        BY <1>0, <2>1, <3>1
      <4> QED  BY Zenon, <1>0, <2>3, <2>4, <3>0, <3>1, <4>1
    <3>2. CASE u # t  BY <1>0, <2>1, <3>2 DEF FenceIInv, Loads
    <3> QED  BY Zenon, <3>1, <3>2
  <2> QED  BY Zenon, <1>0, <1>1, <2>5, FencesKept
<1> QED  BY <1>2, <1>3

\* The second critical section.
LEMMA FenceFinish ==
  ASSUME AccountOf \in [Contexts -> Accounts], AuthorityIInv, FenceIInv, NEW t \in Threads, FinishLoad(t)
  PROVE  FenceIInv'
<1> DEFINE r == res[t]
<1>0. /\ DOMAIN res = Threads /\ UNCHANGED <<feed, sub, stored, revoked, generation>>
      /\ UNCHANGED fences /\ r.at = "loaded"
  BY DEF AuthorityIInv, Requests, FinishLoad, fences
<1>1. r.context \in Contexts  BY <1>0 DEF AuthorityIInv, Requests, Request
<1>2. Subscribed'  BY <1>0 DEF FenceIInv, Subscribed
<1>3. CASE Inactive(t) /\ UNCHANGED entries
  BY Zenon, <1>0, <1>2, <1>3, FencesKept DEF Inactive, FenceIInv, Loads, Snapshots, FencesHold,
     IdleRequest
<1>4. CASE /\ res' = [res EXCEPT ![t] = [at |-> "again", context |-> r.context]]
           /\ answer' = None /\ UNCHANGED entries
  BY Zenon, <1>0, <1>2, <1>4, FencesKept DEF FenceIInv, Loads, Snapshots, FencesHold
<1>5. CASE /\ r.since = generation /\ r.snap.revision >= floors[AccountOf[r.context]]
           /\ Keep(t, r.now)
  <2>1. r.context \notin Range(revoked) /\ r.snap.revision \in Nat
    BY Zenon, <1>0, <1>5 DEF FenceIInv, Loads
  <2> DEFINE e == [snap |-> r.snap, loaded |-> r.now, read |-> r.read, since |-> r.since]
  <2>2. /\ \E x : entries' = [c \in Contexts |-> IF c \in x THEN None
                                    ELSE IF c = r.context THEN e ELSE entries[c]]
        /\ AnswerActive(t, r.context, r.snap, r.since, 0)
    BY <1>5, Zenon DEF Keep
  <2>3. FencesHold'  BY Zenon, <1>0, <1>1, <1>5, <2>1, <2>2, FencedAnswer
  <2>4. Loads'  BY Zenon, <1>0, <2>2 DEF AnswerActive, FenceIInv, Loads, IdleRequest
  <2>5. \A c \in Contexts : entries'[c] \in {None, e, entries[c]}  BY Zenon, <2>2
  <2>6. e.snap.revision \in Nat  BY <2>1
  <2> HIDE DEF e
  <2>7. Snapshots'  BY <2>5, <2>6 DEF FenceIInv, Snapshots
  <2> QED  BY <1>0, <1>2, <2>3, <2>4, <2>7, FencesKept
<1> QED  BY <1>3, <1>4, <1>5 DEF FinishLoad, StillCurrent

\* The feed grows by an invalidation.
LEMMA FencePublish ==
  ASSUME AccountOf \in [Contexts -> Accounts], FenceIInv, NEW kind \in Kinds, NEW c \in Contexts,
         PublishInvalidation(kind, c)
  PROVE  Subscribed'
<1> DEFINE e == [kind |-> kind, account |-> AccountOf[c],
                 context |-> IF kind = "context" THEN c ELSE None,
                 token |-> IF kind = "token" THEN c ELSE None,
                 revision |-> Revision(AccountOf[c], Len(feed))
                              + (IF kind = "entitlement" THEN 1 ELSE 0)]
<1>1. feed' = Append(feed, e) /\ UNCHANGED <<sub, stored>>  BY DEF PublishInvalidation
<1>2. feed \in Seq(Invalidations) /\ Len(feed) \in Nat  BY DEF FenceIInv, Subscribed
<1>3. Revision(AccountOf[c], Len(feed)) \in Nat  BY <1>2, RevisionType
<1>4. e \in Invalidations  BY <1>3 DEF Invalidations, Kinds
<1> HIDE DEF e
<1>5. feed' \in Seq(Invalidations) /\ Len(feed') = Len(feed) + 1  BY <1>1, <1>2, <1>4
<1>6. 0 .. Len(feed) \subseteq 0 .. Len(feed')  BY <1>2, <1>5
<1> QED  BY <1>1, <1>5, <1>6 DEF FenceIInv, Subscribed

\* The steps of the subscriber between two invalidations.
LEMMA FenceSubscriber ==
  ASSUME PageLimit \in Nat, FenceIInv, Fetch \/ Store \/ StoreFails \/ CaughtUp
  PROVE  Subscribed'
<1> DEFINE places == 0 .. Len(feed)
<1>0. /\ feed \in Seq(Invalidations) /\ Len(feed) \in Nat /\ stored \in places /\ feed' = feed
      /\ sub \in [at : {"fetch", "apply"}, cursor : places, pos : places, upto : places,
                  high : places, serving : BOOLEAN]
  <2>1. feed' = feed
    BY Zenon DEF Fetch, Store, StoreFails, CaughtUp
  <2>2. Subscribed  BY DEF FenceIInv
  <2> QED  BY <2>1, <2>2 DEF Subscribed
<1>1. \A i \in places, b \in BOOLEAN :
        Fetching(i, b) \in [at : {"fetch", "apply"}, cursor : places, pos : places,
                            upto : places, high : places, serving : BOOLEAN]
  <2> HIDE DEF places
  <2> QED  BY DEF Fetching
<1>2. CASE Fetch
  <2>1. Len(feed) \in places
        /\ (IF sub.cursor + PageLimit < Len(feed) THEN sub.cursor + PageLimit ELSE Len(feed)) \in places
    BY <1>0
  <2> HIDE DEF places
  <2>2. sub' \in [at : {"fetch", "apply"}, cursor : places, pos : places, upto : places,
                  high : places, serving : BOOLEAN]
    BY Zenon, <1>0, <1>2, <2>1 DEF Fetch
  <2> QED  BY <1>0, <1>2, <2>2 DEF Fetch, Subscribed, places
<1>3. CASE Store
  <2>1. sub.upto \in places /\ (sub.serving \/ sub.upto >= sub.high) \in BOOLEAN  BY <1>0
  <2> HIDE DEF places
  <2> QED  BY Zenon, <1>0, <1>1, <1>3, <2>1 DEF Store, Subscribed, places
<1>4. CASE StoreFails \/ CaughtUp
  <2>1. sub.cursor \in places  BY <1>0
  <2> HIDE DEF places
  <2> QED  BY Zenon, <1>0, <1>1, <1>4, <2>1 DEF StoreFails, CaughtUp, Subscribed, places
<1> QED  BY <1>2, <1>3, <1>4

\* Every step keeps the inductive invariant.
LEMMA FenceNext ==
  ASSUME AccountOf \in [Contexts -> Accounts], MaxEntries \in Nat, PageLimit \in Nat, Lag \in Nat,
         AuthorityIInv, FenceIInv, [AuthorityNext]_authorityVars
  PROVE  FenceIInv'
<1>1. CASE UNCHANGED authorityVars
  BY Zenon, <1>1, FencesKept DEF authorityVars, fences, FenceIInv, Subscribed, Loads,
     Snapshots, FencesHold
<1>2. ASSUME Subscribed', answer' = None, UNCHANGED <<entries, res>>, UNCHANGED fences
      PROVE  FenceIInv'
  BY Zenon, <1>2, FencesKept DEF fences, FenceIInv, Loads, Snapshots, FencesHold
<1>3. CASE \E k \in {"context", "token", "entitlement"}, c \in Contexts : PublishInvalidation(k, c)
  BY <1>2, <1>3, FencePublish DEF PublishInvalidation, fences, Kinds
<1>4. CASE Fetch \/ Store \/ StoreFails \/ CaughtUp
  BY Zenon, <1>2, <1>4, FenceSubscriber DEF Fetch, Store, StoreFails, CaughtUp, fences
<1>5. CASE Tick  BY <1>2, <1>5 DEF Tick, fences, FenceIInv, Subscribed
<1>6. ASSUME NEW t \in Threads, NEW c \in Contexts, Resolve(t, c) PROVE FenceIInv'
  <2>1. Subscribed'  BY Zenon, <1>6 DEF Resolve, FenceIInv, Subscribed
  <2> QED  BY Zenon, <1>6, <2>1, FenceLook DEF Resolve, fences
<1>7. ASSUME NEW t \in Threads, Retry(t) PROVE FenceIInv'
  <2>1. Subscribed' /\ res[t].context \in Contexts
    BY Zenon, <1>7 DEF Retry, FenceIInv, Subscribed, AuthorityIInv, Requests, Request
  <2> QED  BY Zenon, <1>7, <2>1, FenceLook DEF Retry, fences
<1>8. CASE \E t \in Threads : Load(t) \/ FinishLoad(t)  BY <1>8, FenceLoad, FenceFinish
<1>9. CASE Consume
  <2>1. /\ sub.pos \in 0 .. Len(feed) /\ sub.upto \in 0 .. Len(feed) /\ sub.pos < sub.upto
        /\ feed \in Seq(Invalidations)
    BY <1>9 DEF Consume, FenceIInv, Subscribed
  <2>2. feed[sub.pos + 1] \in Invalidations /\ sub.pos + 1 \in 0 .. Len(feed)  BY <2>1
  <2>3. Subscribed'  BY Zenon, <1>9, <2>2 DEF Consume, FenceIInv, Subscribed
  <2> QED  BY <1>9, <2>2, <2>3, FenceApply DEF Consume
<1>10. CASE RestartCache
  <2>1. Subscribed'  BY <1>10 DEF RestartCache, FenceIInv, Subscribed, Fetching
  <2>2. RevokedContexts' = {} /\ FencedAccounts' = {} /\ applied' = {}
    BY <1>10 DEF RestartCache, RevokedContexts, FencedAccounts
  <2>3. Revocations'  BY <1>10, <2>2, FS_EmptySet DEF RestartCache, Revocations, Distinct, Range
  <2>4. Floors'  BY <1>10, <2>2, FS_EmptySet DEF RestartCache, Floors, Distinct, Range, NoFloors
  <2> QED  BY Zenon, <1>10, <2>1, <2>2, <2>3, <2>4
           DEF RestartCache, FenceIInv, Loads, Snapshots, FencesHold, IdleRequest, NoEntries
<1> QED  BY <1>1, <1>3, <1>4, <1>5, <1>6, <1>7, <1>8, <1>9, <1>10 DEF AuthorityNext

\* As long as the bounded tables hold all that was fenced, a service that lags behind
\* its feed revives no revoked context and no older revision, for any number of threads,
\* contexts, accounts and events (apply_invalidation, resolve_context_state, _trim).
THEOREM FencedStaysFenced == AuthoritySpec => []FencesHold
<1>1. AuthorityIInv /\ FenceIInv /\ [AuthorityNext]_authorityVars => FenceIInv'
  BY FenceNext, AuthorityConstants
<1>2. AuthoritySpec => []FenceIInv
  BY <1>1, FenceInit, AuthorityInvariance, PTL DEF AuthoritySpec
<1>3. FenceIInv => FencesHold  BY DEF FenceIInv
<1> QED  BY <1>2, <1>3, PTL

-----------------------------------------------------------------------------
(* The emergency spool and the circuit breaker *)

\* The spool: what was replayed is in the outbox, and so is the frame between its
\* enqueueing and the cursor that skips it.
Spooled ==
  /\ frames \in Seq(Batches) /\ cursor \in Nat /\ cursor <= Len(frames)
  /\ \A i \in 1 .. cursor : frames[i] \in outbox
  /\ replay \in {"enqueue", "cursor"} => cursor < Len(frames)
  /\ replay = "cursor" => frames[cursor + 1] \in outbox

\* What a sink that returned has written.
Reported ==
  /\ sink \in [Batches -> {"new", "trip", "spool", "again", "outbox", "emergency_spool", "lost",
                           "untold", "gone"}]
  /\ \A b \in Batches :
       /\ sink[b] = "outbox" => b \in outbox
       /\ sink[b] = "emergency_spool" => \E i \in 1 .. Len(frames) : frames[i] = b

SpoolIInv == Spooled /\ Reported /\ LostStopsWork

\* The empty files satisfy the inductive invariant.
LEMMA SpoolInit == DurabilityInit => SpoolIInv
<1> SUFFICES ASSUME DurabilityInit PROVE SpoolIInv  OBVIOUS
<1>1. Spooled  BY DEF DurabilityInit, Spooled
<1>2. Reported  BY DEF DurabilityInit, Reported
<1> QED  BY <1>1, <1>2 DEF DurabilityInit, SpoolIInv, LostStopsWork

\* A step that leaves the spool alone, and whose sink call reports nothing it has not
\* stored.
LEMMA CallStep ==
  ASSUME SpoolIInv, NEW b \in Batches, NEW at, SinkGoes(b, at), outbox \subseteq outbox',
         at \in {"trip", "spool", "again", "outbox", "lost", "untold", "gone"},
         at = "outbox" => b \in outbox', UNCHANGED <<frames, cursor, replay>>
  PROVE  Spooled' /\ Reported'
<1>1. Spooled'  BY DEF SpoolIInv, Spooled
<1>2. sink'[b] = at /\ \A c \in Batches \ {b} : sink'[c] = sink[c]
  BY DEF SpoolIInv, Reported, SinkGoes
<1>3. Reported'  BY <1>2 DEF SpoolIInv, Reported, SinkGoes
<1> QED  BY <1>1, <1>3

\* append_batch adds a frame behind the others.
LEMMA AppendStep ==
  ASSUME SpoolIInv, NEW b \in Batches, Append_(b)
  PROVE  Spooled' /\ Reported'
<1>1. /\ frames \in Seq(Batches) /\ frames' = Append(frames, b)
      /\ UNCHANGED <<outbox, cursor, replay>>
  BY DEF SpoolIInv, Spooled, Append_
<1>2. /\ frames' \in Seq(Batches) /\ Len(frames') = Len(frames) + 1 /\ Len(frames) \in Nat
      /\ frames'[Len(frames) + 1] = b
      /\ \A i \in 1 .. Len(frames) : frames'[i] = frames[i]
  BY <1>1
<1>3. cursor \in Nat /\ cursor <= Len(frames)  BY DEF SpoolIInv, Spooled
<1>4. Spooled'  BY <1>1, <1>2, <1>3 DEF SpoolIInv, Spooled
<1>5. sink'[b] = "emergency_spool" /\ \A c \in Batches \ {b} : sink'[c] = sink[c]
  BY DEF SpoolIInv, Reported, Append_, SinkGoes
<1>6. ASSUME NEW c \in Batches, sink'[c] = "emergency_spool"
      PROVE  \E i \in 1 .. Len(frames') : frames'[i] = c
  <2>1. CASE c = b  BY <1>2, <2>1
  <2>2. CASE c # b
    <3>1. PICK i \in 1 .. Len(frames) : frames[i] = c
      BY <1>5, <1>6, <2>2 DEF SpoolIInv, Reported
    <3> QED  BY <1>2, <3>1
  <2> QED  BY <2>1, <2>2
<1>7. Reported'  BY Zenon, <1>1, <1>5, <1>6 DEF SpoolIInv, Reported, Append_, SinkGoes
<1> QED  BY <1>4, <1>7

\* replay_into stores a frame's batch before it writes the cursor.
LEMMA ReplayStep ==
  ASSUME SpoolIInv, ReplayStart \/ ReplayEnqueue \/ ReplayCursor \/ ReplayStops
  PROVE  Spooled' /\ Reported'
<1>1. frames' = frames /\ sink' = sink /\ outbox \subseteq outbox'
  BY DEF ReplayStart, ReplayEnqueue, ReplayCursor, ReplayStops
<1>2. Reported'  BY <1>1 DEF SpoolIInv, Reported
<1>3. Len(frames) \in Nat /\ cursor \in Nat  BY DEF SpoolIInv, Spooled
<1>4. CASE ReplayCursor
  <2>1. /\ cursor' = cursor + 1 /\ outbox' = outbox /\ cursor < Len(frames)
        /\ frames[cursor + 1] \in outbox /\ replay' # "cursor"
        /\ replay' = "enqueue" => cursor + 1 < Len(frames)
    BY <1>4 DEF ReplayCursor, SpoolIInv, Spooled
  <2>2. \A i \in 1 .. cursor' : i \in 1 .. cursor \/ i = cursor + 1  BY <1>3, <2>1
  <2> QED  BY <1>1, <1>2, <1>3, <2>1, <2>2 DEF SpoolIInv, Spooled
<1>5. CASE ~ReplayCursor
  <2>1. cursor' = cursor  BY <1>5 DEF ReplayStart, ReplayEnqueue, ReplayStops
  <2>2. /\ replay' \in {"enqueue", "cursor"} => cursor < Len(frames)
        /\ replay' = "cursor" => frames[cursor + 1] \in outbox'
    BY <1>5 DEF ReplayStart, ReplayEnqueue, ReplayStops, SpoolIInv, Spooled
  <2> QED  BY <1>1, <1>2, <2>1, <2>2 DEF SpoolIInv, Spooled
<1> QED  BY <1>4, <1>5

\* A step of the breaker alone: it trips, or a reset covers every loss.
LEMMA BreakerStep ==
  ASSUME SpoolIInv, [DurabilityNext]_durabilityVars
  PROVE  LostStopsWork'
<1>1. LostStopsWork  BY DEF SpoolIInv
<1>2. CASE UNCHANGED <<breaker, uncovered>>  BY <1>1, <1>2 DEF LostStopsWork
<1>3. ASSUME Trips PROVE breaker'.tripped  BY <1>3 DEF Trips
<1>4. CASE breaker'.tripped \/ uncovered' = {}  BY <1>4 DEF LostStopsWork
<1>5. CASE Reset  BY <1>2, <1>4, <1>5 DEF Reset, ResetWithEvidence
<1>6. CASE \E b \in Batches : TripThenSpool(b) \/ TripAgain(b)
  BY <1>2, <1>3, <1>4, <1>6 DEF TripThenSpool, TripAgain
<1>7. CASE AssertWorkAllowed  BY <1>3, <1>4, <1>7 DEF AssertWorkAllowed
<1>8. CASE \E b \in Batches : Enqueue(b) \/ EnqueueFails(b) \/ Append_(b) \/ AppendFails(b) \/ SinkCrash(b)
  BY <1>2, <1>8 DEF Enqueue, EnqueueFails, Append_, AppendFails, SinkCrash
<1>9. CASE ReplayStart \/ ReplayEnqueue \/ ReplayCursor \/ ReplayStops \/ Notice \/ Health
  BY <1>2, <1>9 DEF ReplayStart, ReplayEnqueue, ReplayCursor, ReplayStops, Notice, Health
<1> QED  BY <1>2, <1>5, <1>6, <1>7, <1>8, <1>9 DEF DurabilityNext, durabilityVars

\* Every step keeps the inductive invariant.
LEMMA SpoolNext == ASSUME SpoolIInv, [DurabilityNext]_durabilityVars PROVE SpoolIInv'
<1>1. LostStopsWork'  BY BreakerStep
<1>2. ASSUME UNCHANGED <<outbox, frames, cursor, sink, replay>> PROVE Spooled' /\ Reported'
  BY Zenon, <1>2 DEF SpoolIInv, Spooled, Reported
<1>3. CASE UNCHANGED durabilityVars \/ AssertWorkAllowed \/ Notice \/ Health \/ Reset
  <2>1. UNCHANGED <<outbox, frames, cursor, sink, replay>>
    BY <1>3 DEF durabilityVars, AssertWorkAllowed, Notice, Health, Reset
  <2> QED  BY <1>1, <1>2, <2>1 DEF SpoolIInv
<1>4. ASSUME NEW b \in Batches,
             \/ Enqueue(b) \/ EnqueueFails(b) \/ TripThenSpool(b) \/ AppendFails(b)
             \/ TripAgain(b) \/ SinkCrash(b)
      PROVE  SpoolIInv'
  <2>1. PICK at \in {"trip", "spool", "again", "outbox", "lost", "untold", "gone"} :
          SinkGoes(b, at) /\ outbox \subseteq outbox' /\ (at = "outbox" => b \in outbox')
    BY <1>4 DEF Enqueue, EnqueueFails, TripThenSpool, AppendFails, TripAgain, SinkCrash
  <2>2. UNCHANGED <<frames, cursor, replay>>
    BY <1>4 DEF Enqueue, EnqueueFails, TripThenSpool, AppendFails, TripAgain, SinkCrash
  <2> QED  BY <1>1, <2>1, <2>2, CallStep DEF SpoolIInv
<1>5. CASE \E b \in Batches : Append_(b)  BY <1>1, <1>5, AppendStep DEF SpoolIInv
<1>6. CASE ReplayStart \/ ReplayEnqueue \/ ReplayCursor \/ ReplayStops
  BY <1>1, <1>6, ReplayStep DEF SpoolIInv
<1> QED  BY <1>3, <1>4, <1>5, <1>6 DEF DurabilityNext

LEMMA SpoolInvariance == DurabilitySpec => []SpoolIInv
BY SpoolInit, SpoolNext, PTL DEF DurabilitySpec

\* A batch that the sink reported durable is in the outbox or in a frame the replay has
\* still to store, whatever crashes and failed writes came between
\* (ResilientCommercialUsageSink.__call__, replay_into).
THEOREM DurableBatchesAreKept == DurabilitySpec => []DurableIsKept
<1>1. SpoolIInv => DurableIsKept
  <2> SUFFICES ASSUME SpoolIInv, NEW b \in Batches, sink[b] = "emergency_spool", b \notin outbox
               PROVE  \E i \in cursor + 1 .. Len(frames) : frames[i] = b
    BY DEF DurableIsKept, SpoolIInv, Reported
  <2>1. PICK i \in 1 .. Len(frames) : frames[i] = b  BY DEF SpoolIInv, Reported
  <2>2. i \notin 1 .. cursor  BY <2>1 DEF SpoolIInv, Spooled
  <2> QED  BY <2>1, <2>2 DEF SpoolIInv, Spooled
<1> QED  BY <1>1, SpoolInvariance, PTL

\* After a loss the circuit stays open until a later reset, although a reset may fall
\* between the two failures of one sink call (trip, reset_after_recovery).
THEOREM LossesStopWork == DurabilitySpec => []LostStopsWork
<1>1. SpoolIInv => LostStopsWork  BY DEF SpoolIInv
<1> QED  BY <1>1, SpoolInvariance, PTL

-----------------------------------------------------------------------------
(* The shipping of rows *)

Verdicts == {"accepted", "conflict", "permanent", "rejected_retryable"}
Answers == UNION {[some -> Verdicts] : some \in SUBSET Rows}
States == {"absent", "held", "pending", "retryable", "sending", "accepted", "dead"}

ShippingTypes ==
  /\ state \in [Rows -> States]
  /\ attempts \in [Rows -> 0 .. MaxAttempts]
  /\ nature \in [Rows -> Natures]
  /\ shipper \in [Shippers -> [todo : Seq(SUBSET Rows), answer : Answers]]
  /\ delayed \subseteq SUBSET Rows

\* A batch of revisions is only on its way when all earlier revisions are accepted.
InTurn(batch) == chained => \A r \in batch, p \in Rows : p < r => state[p] = "accepted"

Turns ==
  /\ \A s \in Shippers : \A i \in 1 .. Len(shipper[s].todo) : InTurn(shipper[s].todo[i])
  /\ \A batch \in delayed : InTurn(batch)

\* The answer a shipper has: it is to its first batch, and true of every row.
Answered(s) ==
  LET told == shipper[s].answer IN
  told # Unanswered =>
    /\ shipper[s].todo # <<>> /\ DOMAIN told = Batch(s)
    /\ \A r \in Batch(s) :
         /\ told[r] = "accepted" => r \in ingested
         /\ told[r] = "conflict" => nature[r] = "conflict"
         /\ told[r] = "permanent" => \E q \in Batch(s) : nature[q] = "malformed"

ShippingIInv ==
  /\ ShippingTypes /\ Turns /\ \A s \in Shippers : Answered(s)
  /\ AcceptedWasIngested /\ RevisionsInOrder /\ OnlyRefusedDie

-----------------------------------------------------------------------------

LEMMA NoAnswer == Unanswered \in Answers
<1>1. Unanswered \in [{} -> Verdicts]  BY DEF Unanswered
<1>2. [{} -> Verdicts] \in {[some -> Verdicts] : some \in SUBSET Rows}  OBVIOUS
<1> QED  BY Zenon, <1>1, <1>2 DEF Answers

\* An outbox without rows satisfies the inductive invariant.
LEMMA ShippingStarts == ASSUME MaxAttempts \in Nat, ShippingInit PROVE ShippingIInv
<1>2. IdleShipper \in [todo : Seq(SUBSET Rows), answer : Answers]  BY NoAnswer DEF IdleShipper
<1>3. ShippingTypes  BY <1>2 DEF ShippingInit, ShippingTypes, States
<1>4. \A s \in Shippers : shipper[s].todo = <<>> /\ shipper[s].answer = Unanswered
  BY DEF ShippingInit, IdleShipper
<1>5. Turns  BY <1>4 DEF ShippingInit, Turns
<1>6. \A s \in Shippers : Answered(s)  BY Zenon, <1>4 DEF Answered
<1>7. AcceptedWasIngested /\ RevisionsInOrder /\ OnlyRefusedDie
  BY DEF ShippingInit, AcceptedWasIngested, RevisionsInOrder, OnlyRefusedDie
<1> QED  BY <1>3, <1>5, <1>6, <1>7 DEF ShippingIInv

\* What a step may do to the rows: an accepted row stays so, a row is accepted only
\* when the service has it, and given up only when it is refused or exhausted.
RowsStep ==
  /\ state' \in [Rows -> States] /\ attempts' \in [Rows -> 0 .. MaxAttempts]
  /\ ingested \subseteq ingested' /\ UNCHANGED <<chained, nature>>
  /\ \A r \in Rows :
       /\ state[r] = "accepted" => state'[r] = "accepted"
       /\ state'[r] = "accepted" => state[r] = "accepted" \/ r \in ingested
       /\ state[r] = "dead" => attempts'[r] = attempts[r]
       /\ state'[r] = "dead" /\ nature[r] = "valid" /\ state[r] # "dead" =>
            attempts'[r] = MaxAttempts

LEMMA RowsStepKeeps ==
  ASSUME ShippingIInv, RowsStep
  PROVE  /\ AcceptedWasIngested' /\ OnlyRefusedDie'
         /\ \A batch : InTurn(batch) => InTurn(batch)'
<1>1. AcceptedWasIngested'  BY DEF ShippingIInv, RowsStep, AcceptedWasIngested
<1>2. OnlyRefusedDie'
  <2> SUFFICES ASSUME NEW r \in Rows, state'[r] = "dead", nature[r] = "valid"
               PROVE  attempts'[r] = MaxAttempts
    BY DEF OnlyRefusedDie, RowsStep
  <2>1. CASE state[r] = "dead"  BY <2>1 DEF ShippingIInv, OnlyRefusedDie, RowsStep
  <2>2. CASE state[r] # "dead"  BY Zenon, <2>2 DEF RowsStep
  <2> QED  BY <2>1, <2>2
<1>3. \A batch : InTurn(batch) => InTurn(batch)'  BY DEF InTurn, RowsStep
<1> QED  BY <1>1, <1>2, <1>3

\* What a step may do to the requests: a new batch is in its turn.
LEMMA RequestsKept ==
  ASSUME ShippingIInv, RowsStep,
         shipper' \in [Shippers -> [todo : Seq(SUBSET Rows), answer : Answers]],
         delayed' \subseteq SUBSET Rows,
         \A s \in Shippers : Answered(s)',
         \A s \in Shippers : \A i \in 1 .. Len(shipper'[s].todo) : InTurn(shipper'[s].todo[i]),
         \A batch \in delayed' : InTurn(batch),
         RevisionsInOrder'
  PROVE  ShippingIInv'
<1>1. /\ AcceptedWasIngested' /\ OnlyRefusedDie'
      /\ \A batch : InTurn(batch) => InTurn(batch)'
  BY Zenon, RowsStepKeeps
<1>2. ShippingTypes'  BY Zenon DEF ShippingIInv, ShippingTypes, RowsStep
<1>3. Turns'  BY Zenon, <1>1 DEF Turns
<1> QED  BY Zenon, <1>1, <1>2, <1>3 DEF ShippingIInv

\* A step that leaves the requests and the service alone.
LEMMA RestKept ==
  ASSUME ShippingIInv, RowsStep, UNCHANGED <<shipper, delayed, ingested>>
  PROVE  ShippingIInv'
<1>1. \A s \in Shippers : Answered(s)'
  BY Zenon DEF ShippingIInv, Answered, Batch, RowsStep
<1>2. RevisionsInOrder'  BY DEF ShippingIInv, RevisionsInOrder, RowsStep
<1> QED  BY Zenon, <1>1, <1>2, RequestsKept DEF ShippingIInv, Turns, ShippingTypes

\* A row is recorded, or held reports are released.
LEMMA RecordStep ==
  ASSUME ShippingIInv, Enable \/ \E r \in Rows, st \in {"pending", "held"} : Record(r, st)
  PROVE  ShippingIInv'
<1>1. UNCHANGED <<chained, nature, attempts, lease, shipper, delayed, ingested>>
  BY DEF Enable, Record
<1>2. state \in [Rows -> States] /\ attempts \in [Rows -> 0 .. MaxAttempts]
  BY DEF ShippingIInv, ShippingTypes
<1>3. /\ state' \in [Rows -> States]
      /\ \A r \in Rows : state'[r] = state[r] \/ (state[r] \in {"absent", "held"} /\ state'[r] \in {"pending", "held"})
  BY <1>2 DEF Enable, Record, States
<1>4. RowsStep  BY <1>1, <1>2, <1>3 DEF RowsStep
<1> QED  BY <1>1, <1>4, RestKept

\* lease_batch: what it leases is in its turn.
LEMMA LeaseStep ==
  ASSUME MaxAttempts \in Nat, ShippingIInv, NEW s \in Shippers,
         NEW expired \in SUBSET Rows, NEW due \in SUBSET Rows, LeaseOf(s, expired, due)
  PROVE  ShippingIInv'
<1> DEFINE freed == [r \in Rows |-> IF r \in expired THEN "retryable" ELSE state[r]]
           batch == {r \in due : nature[r] # "schema"}
<1>1. /\ shipper[s] = IdleShipper
      /\ \A r \in expired : state[r] = "sending"
      /\ \A r \in due : Candidate(r, freed)
      /\ state' = [r \in Rows |-> IF r \in batch THEN "sending"
                                  ELSE IF r \in due THEN "dead" ELSE freed[r]]
      /\ attempts' = [r \in Rows |-> IF r \in batch /\ attempts[r] < MaxAttempts
                                     THEN attempts[r] + 1 ELSE attempts[r]]
      /\ shipper' = IF batch = {} THEN shipper ELSE [shipper EXCEPT ![s].todo = <<batch>>]
      /\ UNCHANGED <<chained, nature, delayed, ingested>>
  BY DEF LeaseOf
<1>2. ShippingTypes  BY DEF ShippingIInv
<1>3. \A r \in Rows : r \in due => state[r] \in {"pending", "retryable", "sending"}
  BY Zenon, <1>1 DEF Candidate, Ready
<1>4. RowsStep
  <2>1. state' \in [Rows -> States]  BY <1>1, <1>2 DEF ShippingTypes, States
  <2>2. attempts' \in [Rows -> 0 .. MaxAttempts]  BY <1>1, <1>2 DEF ShippingTypes
  <2>3. \A r \in Rows : state[r] \in {"accepted", "dead"} =>
          state'[r] = state[r] /\ attempts'[r] = attempts[r]
    BY Zenon, <1>1, <1>2, <1>3 DEF ShippingTypes
  <2>4. \A r \in Rows : state'[r] = "accepted" => state[r] = "accepted"
    BY <1>1
  <2>5. \A r \in Rows : state'[r] = "dead" => state[r] = "dead" \/ nature[r] = "schema"
    BY <1>1
  <2> QED  BY <1>1, <2>1, <2>2, <2>3, <2>4, <2>5 DEF RowsStep
<1>5. InTurn(batch)
  <2> SUFFICES ASSUME chained, NEW r \in due, NEW p \in Rows, p < r  PROVE state[p] = "accepted"
    BY DEF InTurn
  <2>1. freed[p] = "accepted"  BY Zenon, <1>1 DEF Candidate
  <2> QED  BY <2>1
<1>6. CASE batch = {}
  BY <1>1, <1>4, <1>6, RestKept
<1>7. CASE batch # {}
  <2>1. shipper' = [shipper EXCEPT ![s].todo = <<batch>>]  BY <1>1, <1>7
  <2>2. batch \in SUBSET Rows  OBVIOUS
  <2> HIDE DEF batch
  <2> DEFINE sending == [todo |-> <<batch>>, answer |-> Unanswered]
  <2>3. /\ shipper'[s] = sending
        /\ \A o \in Shippers \ {s} : shipper'[o] = shipper[o]
        /\ shipper' \in [Shippers -> [todo : Seq(SUBSET Rows), answer : Answers]]
    <3>1. [shipper[s] EXCEPT !.todo = <<batch>>] = sending  BY <1>1 DEF IdleShipper
    <3>3. <<batch>> \in Seq(SUBSET Rows)  BY <2>2
    <3>4. sending \in [todo : Seq(SUBSET Rows), answer : Answers]  BY Zenon, NoAnswer, <3>3
    <3>5. shipper' = [shipper EXCEPT ![s] = sending]  BY Zenon, <2>1, <3>1
    <3> HIDE DEF sending
    <3> QED  BY Zenon, <1>2, <3>4, <3>5 DEF ShippingTypes
  <2>4. \A o \in Shippers : \A i \in 1 .. Len(shipper'[o].todo) : InTurn(shipper'[o].todo[i])
    <3>1. shipper'[s].todo = <<batch>>
      <4>1. sending.todo = <<batch>>  OBVIOUS
      <4> QED  BY Zenon, <2>3, <4>1
    <3>2. \A i \in 1 .. Len(<<batch>>) : <<batch>>[i] = batch  OBVIOUS
    <3>3. \A i \in 1 .. Len(shipper'[s].todo) : shipper'[s].todo[i] = batch
      BY Zenon, <3>1, <3>2
    <3> QED  BY Zenon, <1>5, <2>3, <3>3 DEF ShippingIInv, Turns
  <2>5. ASSUME NEW o \in Shippers  PROVE Answered(o)'
    <3>1. CASE o = s
      <4>1. sending.answer = Unanswered  OBVIOUS
      <4>2. shipper'[o].answer = Unanswered  BY Zenon, <2>3, <3>1, <4>1
      <4> QED  BY Zenon, <4>2 DEF Answered
    <3>2. CASE o # s  BY <1>1, <2>3, <3>2 DEF ShippingIInv, Answered, Batch
    <3> QED  BY <3>1, <3>2
  <2>6. RevisionsInOrder'  BY <1>1 DEF ShippingIInv, RevisionsInOrder
  <2> QED
    BY Zenon, <1>1, <1>2, <1>4, <2>3, <2>4, <2>5, <2>6, RequestsKept DEF ShippingIInv,
       ShippingTypes, Turns
<1> QED  BY <1>6, <1>7

\* What Batch and Waiting say of a shipper with batches to send.
LEMMA FirstBatch ==
  ASSUME ShippingIInv, NEW s \in Shippers, shipper[s].todo # <<>>
  PROVE  /\ shipper[s].todo \in Seq(SUBSET Rows) /\ Len(shipper[s].todo) \in Nat \ {0}
         /\ Batch(s) = shipper[s].todo[1] /\ Batch(s) \subseteq Rows /\ InTurn(Batch(s))
         /\ Tail(shipper[s].todo) \in Seq(SUBSET Rows)
         /\ \A i \in 1 .. Len(Tail(shipper[s].todo)) : InTurn(Tail(shipper[s].todo)[i])
<1>1. shipper[s].todo \in Seq(SUBSET Rows)  BY DEF ShippingIInv, ShippingTypes
<1>2. Len(shipper[s].todo) \in Nat \ {0}  BY <1>1
<1>3. Batch(s) = shipper[s].todo[1] /\ Batch(s) \subseteq Rows  BY <1>1, <1>2 DEF Batch
<1>4. InTurn(Batch(s))  BY <1>2, <1>3 DEF ShippingIInv, Turns
<1>5. /\ Tail(shipper[s].todo) \in Seq(SUBSET Rows)
      /\ Len(Tail(shipper[s].todo)) = Len(shipper[s].todo) - 1
      /\ \A i \in 1 .. Len(Tail(shipper[s].todo)) : Tail(shipper[s].todo)[i] = shipper[s].todo[i + 1]
  BY <1>1, <1>2
<1>6. \A i \in 1 .. Len(Tail(shipper[s].todo)) : InTurn(Tail(shipper[s].todo)[i])
  BY <1>2, <1>5 DEF ShippingIInv, Turns
<1> QED  BY Zenon, <1>1, <1>2, <1>3, <1>4, <1>5, <1>6

\* The service records rows whose earlier revisions it has.
LEMMA Recording ==
  ASSUME ShippingIInv, NEW batch \in SUBSET Rows, InTurn(batch), NEW now \in SUBSET batch,
         ingested' = ingested \cup Records(batch, now),
         UNCHANGED <<chained, nature, state, attempts>>
  PROVE  RowsStep /\ RevisionsInOrder'
<1>1. Records(batch, now) \subseteq batch  BY DEF Records
<1>2. RowsStep  BY DEF ShippingIInv, ShippingTypes, RowsStep
<1>3. RevisionsInOrder'
  <2> SUFFICES ASSUME chained, NEW r \in ingested', NEW p \in Rows, p < r  PROVE p \in ingested'
    BY DEF RevisionsInOrder
  <2>1. CASE r \in ingested  BY <2>1 DEF ShippingIInv, RevisionsInOrder
  <2>2. CASE r \in batch
    BY <2>2 DEF InTurn, ShippingIInv, AcceptedWasIngested
  <2> QED  BY <1>1, <2>1, <2>2
<1> QED  BY <1>2, <1>3

LEMMA ServeStep ==
  ASSUME ShippingIInv, NEW s \in Shippers, Serve(s)
  PROVE  ShippingIInv'
<1>1. PICK now \in SUBSET Batch(s) :
        /\ \A r \in now : nature[r] = "valid"
        /\ ingested' = ingested \cup Records(Batch(s), now)
        /\ shipper' = [shipper EXCEPT ![s].answer = Answer(Batch(s), now)]
  BY Zenon DEF Serve
<1>2. shipper[s].todo # <<>> /\ UNCHANGED <<chained, nature, state, attempts, lease, delayed>>
  BY DEF Serve, Waiting
<1>3. /\ shipper[s].todo \in Seq(SUBSET Rows) /\ Batch(s) \subseteq Rows /\ InTurn(Batch(s))
  BY Zenon, <1>2, FirstBatch
<1>4. RowsStep /\ RevisionsInOrder'  BY <1>1, <1>2, <1>3, Recording
<1> DEFINE batch == Batch(s)
           told == Answer(batch, now)
<1>5. told \in Answers /\ DOMAIN told = batch
  BY <1>3 DEF Answer, Answers, Verdicts
<1>6. ASSUME NEW r \in batch
      PROVE  /\ told[r] = "accepted" => r \in ingested'
             /\ told[r] = "conflict" => nature[r] = "conflict"
             /\ told[r] = "permanent" => \E q \in batch : nature[q] = "malformed"
  <2>1. CASE \E q \in batch : nature[q] = "malformed"
    BY <2>1 DEF Answer
  <2>2. CASE ~\E q \in batch : nature[q] = "malformed"
    <3>1. told[r] = IF r \in ingested \cup now THEN "accepted"
                    ELSE IF nature[r] = "conflict" THEN "conflict" ELSE "rejected_retryable"
      BY <2>2 DEF Answer
    <3>2. r \in now => r \in ingested'  BY <1>1, <2>2 DEF Records
    <3> QED  BY <1>1, <3>1, <3>2
  <2> QED  BY Zenon, <2>1, <2>2
<1>7. /\ shipper'[s].todo = shipper[s].todo /\ shipper'[s].answer = told
      /\ \A o \in Shippers \ {s} : shipper'[o] = shipper[o]
      /\ shipper' \in [Shippers -> [todo : Seq(SUBSET Rows), answer : Answers]]
  <2>1. shipper \in [Shippers -> [todo : Seq(SUBSET Rows), answer : Answers]]
    BY Zenon DEF ShippingIInv, ShippingTypes
  <2>2. shipper' = [shipper EXCEPT ![s].answer = told]  BY <1>1
  <2> HIDE DEF told, Answers
  <2> QED  BY <1>5, <2>1, <2>2
<1>8. ASSUME NEW o \in Shippers  PROVE Answered(o)'
  <2>1. CASE o = s
    <3>1. Batch(s)' = batch  BY Zenon, <1>7 DEF Batch
    <3> HIDE DEF batch, told
    <3> QED  BY Zenon, <1>2, <1>5, <1>6, <1>7, <2>1, <3>1 DEF Answered
  <2>2. CASE o # s  BY <1>1, <1>2, <1>7, <2>2 DEF ShippingIInv, Answered, Batch
  <2> QED  BY <2>1, <2>2
<1>9. \A o \in Shippers : shipper'[o].todo = shipper[o].todo  BY <1>7
<1> QED  BY Zenon, <1>2, <1>4, <1>7, <1>8, <1>9, RequestsKept DEF ShippingIInv, ShippingTypes, Turns

LEMMA ServeLateStep ==
  ASSUME ShippingIInv, NEW batch \in delayed, ServeLate(batch)
  PROVE  ShippingIInv'
<1>1. PICK now \in SUBSET batch : ingested' = ingested \cup Records(batch, now)
  BY DEF ServeLate
<1>2. /\ delayed' = delayed \ {batch}
      /\ UNCHANGED <<chained, nature, state, attempts, lease, shipper>>
  BY DEF ServeLate
<1>3. batch \in SUBSET Rows /\ InTurn(batch)  BY Zenon DEF ShippingIInv, ShippingTypes, Turns
<1>4. RowsStep /\ RevisionsInOrder'  BY <1>1, <1>2, <1>3, Recording
<1>5. \A o \in Shippers : Answered(o)'
  BY Zenon, <1>1, <1>2 DEF ShippingIInv, Answered, Batch
<1> QED  BY Zenon, <1>2, <1>4, <1>5, RequestsKept DEF ShippingIInv, ShippingTypes, Turns

\* _finish_sending with an outcome for every row: only rows this shipper still holds
\* change.
LEMMA FinishStep ==
  ASSUME ShippingIInv, NEW s \in Shippers, NEW some \in SUBSET Rows,
         NEW result \in [some -> {"accepted", "dead", "retryable"}], Finish(s, result),
         \A r \in some : result[r] = "accepted" => r \in ingested,
         \A r \in some : result[r] = "dead" /\ nature[r] = "valid" => attempts[r] = MaxAttempts,
         UNCHANGED <<chained, nature, attempts, ingested>>
  PROVE  RowsStep /\ RevisionsInOrder'
<1> DEFINE held == {r \in some : state[r] = "sending" /\ lease[r] = s}
<1>1. state' = [r \in Rows |-> IF r \in held THEN result[r] ELSE state[r]]
  BY DEF Finish
<1>2. state \in [Rows -> States] /\ attempts \in [Rows -> 0 .. MaxAttempts]
  BY DEF ShippingIInv, ShippingTypes
<1>3. \A r \in Rows : IF r \in held THEN state[r] = "sending" /\ state'[r] = result[r] /\ r \in some
                      ELSE state'[r] = state[r]
  BY Zenon, <1>1
<1>4. state' \in [Rows -> States]  BY <1>1, <1>2 DEF States
<1> HIDE DEF held
<1>5. RowsStep  BY <1>2, <1>3, <1>4 DEF RowsStep
<1> QED  BY <1>5 DEF ShippingIInv, RevisionsInOrder

\* A shipper with a new list of batches and no answer.
LEMMA SendsStep ==
  ASSUME ShippingIInv, RowsStep, RevisionsInOrder', UNCHANGED ingested,
         NEW s \in Shippers, NEW todo \in Seq(SUBSET Rows),
         shipper' = [shipper EXCEPT ![s] = [IdleShipper EXCEPT !.todo = todo]],
         \A i \in 1 .. Len(todo) : InTurn(todo[i]),
         delayed' \subseteq delayed \cup {Batch(s)}, delayed' \subseteq SUBSET Rows,
         InTurn(Batch(s))
  PROVE  ShippingIInv'
<1> DEFINE sending == [todo |-> todo, answer |-> Unanswered]
<1>1. [IdleShipper EXCEPT !.todo = todo] = sending  BY DEF IdleShipper
<1>3. sending \in [todo : Seq(SUBSET Rows), answer : Answers]  BY NoAnswer
<1>4. sending.todo = todo /\ sending.answer = Unanswered  OBVIOUS
<1> HIDE DEF sending
<1>5. /\ shipper' \in [Shippers -> [todo : Seq(SUBSET Rows), answer : Answers]]
      /\ shipper'[s] = sending /\ \A o \in Shippers \ {s} : shipper'[o] = shipper[o]
  BY Zenon, <1>1, <1>3 DEF ShippingIInv, ShippingTypes
<1>6. ASSUME NEW o \in Shippers  PROVE Answered(o)'
  <2>1. CASE o = s  BY <1>4, <1>5, <2>1 DEF Answered
  <2>2. CASE o # s  BY <1>5, <2>2 DEF ShippingIInv, Answered, Batch, RowsStep
  <2> QED  BY <2>1, <2>2
<1>7. ASSUME NEW o \in Shippers, NEW i \in 1 .. Len(shipper'[o].todo)
      PROVE  InTurn(shipper'[o].todo[i])
  BY <1>4, <1>5 DEF ShippingIInv, Turns
<1> QED  BY <1>5, <1>6, <1>7, RequestsKept DEF ShippingIInv, Turns

\* _deliver_rows: a batch refused as a whole is split, any other is settled row by row.
LEMMA DeliverStep ==
  ASSUME IsFiniteSet(Rows), MaxAttempts \in Nat, ShippingIInv, NEW s \in Shippers, Deliver(s)
  PROVE  ShippingIInv'
<1> DEFINE told == shipper[s].answer
           rest == Tail(shipper[s].todo)
           batch == Batch(s)
           Refused == \E r \in DOMAIN told : told[r] = "permanent"
<1>1. told # Unanswered /\ UNCHANGED <<chained, nature, attempts, delayed, ingested>>
  BY DEF Deliver
<1>2. /\ shipper[s].todo # <<>> /\ DOMAIN told = batch /\ told \in Answers
      /\ \A r \in batch :
           /\ told[r] = "accepted" => r \in ingested
           /\ told[r] = "conflict" => nature[r] = "conflict"
           /\ told[r] = "permanent" => \E q \in batch : nature[q] = "malformed"
  BY <1>1 DEF ShippingIInv, ShippingTypes, Answered
<1>3. /\ batch \subseteq Rows /\ InTurn(batch) /\ rest \in Seq(SUBSET Rows)
      /\ \A i \in 1 .. Len(rest) : InTurn(rest[i])
  BY Zenon, <1>2, FirstBatch
<1>4. CASE Refused /\ Cardinality(batch) > 1
  <2>1. PICK half \in SUBSET batch :
          shipper' = [shipper EXCEPT ![s] = [IdleShipper EXCEPT !.todo = <<half, batch \ half>> \o rest]]
    BY Zenon, <1>4 DEF Deliver
  <2>2. UNCHANGED <<state, lease>>  BY <1>4 DEF Deliver
  <2> DEFINE todo == <<half, batch \ half>> \o rest
  <2>3. RowsStep /\ RevisionsInOrder'
    BY <1>1, <2>2 DEF ShippingIInv, ShippingTypes, RowsStep, RevisionsInOrder
  <2>4. InTurn(half) /\ InTurn(batch \ half)  BY Zenon, <1>3 DEF InTurn
  <2>5. /\ todo \in Seq(SUBSET Rows)
        /\ \A i \in 1 .. Len(todo) : InTurn(todo[i])
    <3>1. <<half, batch \ half>> \in Seq(SUBSET Rows)  BY <1>3
    <3>2. /\ todo \in Seq(SUBSET Rows) /\ Len(todo) = Len(rest) + 2 /\ Len(rest) \in Nat
          /\ todo[1] = half /\ todo[2] = batch \ half
          /\ \A i \in 3 .. Len(rest) + 2 : todo[i] = rest[i - 2]
      BY <1>3, <3>1
    <3> HIDE DEF todo
    <3>3. ASSUME NEW i \in 1 .. Len(todo)  PROVE InTurn(todo[i])
      <4>1. CASE i \in {1, 2}  BY Zenon, <2>4, <3>2, <4>1
      <4>2. CASE i \notin {1, 2}
        <5>0. i \in 3 .. Len(rest) + 2 /\ i - 2 \in 1 .. Len(rest)  BY <3>2, <4>2
        <5>1. i - 2 \in 1 .. Len(rest) /\ todo[i] = rest[i - 2]  BY <3>2, <5>0
        <5> QED  BY Zenon, <1>3, <5>1
      <4> QED  BY <4>1, <4>2
    <3> QED  BY <3>2, <3>3
  <2> HIDE DEF todo, rest
  <2>6. delayed' \subseteq delayed \cup {batch} /\ delayed' \subseteq SUBSET Rows
    BY <1>1 DEF ShippingIInv, ShippingTypes
  <2> QED  BY Zenon, <1>1, <1>3, <2>1, <2>3, <2>5, <2>6, SendsStep DEF todo
<1>5. CASE ~(Refused /\ Cardinality(batch) > 1)
  <2> DEFINE result == [r \in batch |-> RowOutcome(r, told[r])]
  <2>1. Sent(s) /\ Finish(s, result)  BY <1>2, <1>5 DEF Deliver
  <2>2. \A r \in batch : told[r] \in Verdicts  BY Zenon, <1>2 DEF Answers
  <2>3. ASSUME NEW r \in batch
        PROVE  /\ result[r] \in {"accepted", "dead", "retryable"}
               /\ result[r] = "accepted" => r \in ingested
               /\ result[r] = "dead" /\ nature[r] = "valid" => attempts[r] = MaxAttempts
    <3>1. result[r] = RowOutcome(r, told[r]) /\ told[r] \in Verdicts /\ r \in Rows
      BY Zenon, <1>3, <2>2
    <3>2. attempts[r] \in 0 .. MaxAttempts  BY <3>1 DEF ShippingIInv, ShippingTypes
    <3>3. CASE told[r] = "accepted"  BY <1>2, <3>1, <3>3 DEF RowOutcome
    <3>4. CASE told[r] = "conflict"  BY <1>2, <3>1, <3>4 DEF RowOutcome
    <3>5. CASE told[r] = "rejected_retryable"
      BY <3>1, <3>2, <3>5 DEF RowOutcome
    <3>6. CASE told[r] = "permanent"
      <4>1. PICK q \in batch : nature[q] = "malformed"  BY Zenon, <1>2, <3>6
      <4>2. IsFiniteSet(batch)  BY Zenon, <1>3, FS_Subset
      <4>3. ~(Cardinality(batch) > 1)  BY Zenon, <1>2, <1>5, <3>6
      <4>4. Cardinality({r}) = 1  BY FS_Singleton
      <4>5. Cardinality({r}) <= Cardinality(batch) /\ (Cardinality(batch) = Cardinality({r}) => batch = {r})
        BY <4>2, FS_Subset
      <4>6. Cardinality(batch) \in Nat  BY <4>2, FS_CardinalityType
      <4>7. batch = {r}  BY <4>3, <4>4, <4>5, <4>6
      <4> QED  BY <3>1, <3>6, <4>1, <4>7 DEF RowOutcome
    <3> QED  BY Zenon, <3>1, <3>3, <3>4, <3>5, <3>6 DEF Verdicts
  <2>4. result \in [batch -> {"accepted", "dead", "retryable"}]  BY Zenon, <2>3
  <2> HIDE DEF result
  <2>5. RowsStep /\ RevisionsInOrder'  BY Zenon, <1>1, <1>3, <2>1, <2>3, <2>4, FinishStep
  <2>6. delayed' \subseteq delayed \cup {batch} /\ delayed' \subseteq SUBSET Rows
    BY <1>1 DEF ShippingIInv, ShippingTypes
  <2> QED  BY Zenon, <1>1, <1>3, <2>1, <2>5, <2>6, SendsStep DEF Sent
<1> QED  BY Zenon, <1>4, <1>5

\* A request fails, or the process is lost: the service may still get the request.
LEMMA FailsStep ==
  ASSUME MaxAttempts \in Nat, ShippingIInv, NEW s \in Shippers, Fails(s) \/ ShipperCrash(s)
  PROVE  ShippingIInv'
<1>1. /\ shipper[s].todo # <<>> /\ UNCHANGED <<chained, nature, attempts, ingested>>
      /\ delayed' = IF Waiting(s) THEN delayed \cup {Batch(s)} ELSE delayed
  BY Zenon DEF Fails, ShipperCrash
<1>2. /\ Batch(s) \subseteq Rows /\ InTurn(Batch(s)) /\ Tail(shipper[s].todo) \in Seq(SUBSET Rows)
      /\ \A i \in 1 .. Len(Tail(shipper[s].todo)) : InTurn(Tail(shipper[s].todo)[i])
  BY Zenon, <1>1, FirstBatch
<1>3. delayed' \subseteq delayed \cup {Batch(s)} /\ delayed' \subseteq SUBSET Rows
  BY Zenon, <1>1, <1>2 DEF ShippingIInv, ShippingTypes
<1>4. CASE Fails(s)
  <2> DEFINE result == [r \in Batch(s) |-> RowOutcome(r, "lost")]
  <2>1. \A r \in Batch(s) : result[r] = "retryable"  BY DEF RowOutcome
  <2>2. Sent(s) /\ Finish(s, result)  BY Zenon, <1>4 DEF Fails
  <2>3. result \in [Batch(s) -> {"accepted", "dead", "retryable"}]  BY <2>1
  <2> HIDE DEF result
  <2>4. RowsStep /\ RevisionsInOrder'  BY Zenon, <1>1, <1>2, <2>1, <2>2, <2>3, FinishStep
  <2> QED  BY Zenon, <1>1, <1>2, <1>3, <2>2, <2>4, SendsStep DEF Sent
<1>5. CASE ShipperCrash(s)
  <2>1. shipper' = [shipper EXCEPT ![s] = [IdleShipper EXCEPT !.todo = <<>>]] /\ UNCHANGED <<state, lease>>
    <3>1. [IdleShipper EXCEPT !.todo = <<>>] = IdleShipper  BY DEF IdleShipper
    <3> QED  BY Zenon, <1>5, <3>1 DEF ShipperCrash
  <2>2. RowsStep /\ RevisionsInOrder'
    BY <1>1, <2>1 DEF ShippingIInv, ShippingTypes, RowsStep, RevisionsInOrder
  <2>3. <<>> \in Seq(SUBSET Rows) /\ \A i \in 1 .. Len(<<>>) : InTurn(<<>>[i])  OBVIOUS
  <2> QED  BY Zenon, <1>1, <1>2, <1>3, <2>1, <2>2, <2>3, SendsStep
<1> QED  BY <1>4, <1>5

\* Every step keeps the inductive invariant.
LEMMA ShippingSteps ==
  ASSUME IsFiniteSet(Rows), MaxAttempts \in Nat, ShippingIInv, [ShippingNext]_shippingVars
  PROVE  ShippingIInv'
<1>1. CASE UNCHANGED shippingVars
  <2>1. RowsStep  BY <1>1 DEF shippingVars, ShippingIInv, ShippingTypes, RowsStep
  <2> QED  BY <1>1, <2>1, RestKept DEF shippingVars
<1>2. CASE Enable \/ \E r \in Rows : Record(r, "pending") \/ Record(r, "held")
  BY <1>2, RecordStep
<1>3. ASSUME NEW s \in Shippers, Lease(s) \/ Serve(s) \/ Deliver(s) \/ Fails(s) \/ ShipperCrash(s)
      PROVE  ShippingIInv'
  BY <1>3, LeaseStep, ServeStep, DeliverStep, FailsStep DEF Lease
<1>4. CASE \E batch \in delayed : ServeLate(batch)  BY <1>4, ServeLateStep
<1> QED  BY <1>1, <1>2, <1>3, <1>4 DEF ShippingNext, ShipEvents, ShipReports, Ships

LEMMA ShippingInvariance == ShippingSpec => []ShippingIInv
<1>1. ShippingIInv /\ [ShippingNext]_shippingVars => ShippingIInv'
  BY ShippingSteps, ShippingConstants
<1>2. ShippingInit => ShippingIInv  BY ShippingStarts, ShippingConstants
<1> QED  BY <1>1, <1>2, PTL DEF ShippingSpec

\* A row is accepted only when the service recorded it, for any rows, shippers and batch
\* size, over lost answers, timeouts, crashes and leases that expire (_finish_sending,
\* lease_batch).
THEOREM AcceptedRowsWereIngested == ShippingSpec => []AcceptedWasIngested
<1>1. ShippingIInv => AcceptedWasIngested  BY DEF ShippingIInv
<1> QED  BY <1>1, ShippingInvariance, PTL

\* The service gets the revisions of a report in their order, also from requests that
\* arrive after their senders gave up (lease_reconciliation_batch).
THEOREM RevisionsComeInOrder == ShippingSpec => []RevisionsInOrder
<1>1. ShippingIInv => RevisionsInOrder  BY DEF ShippingIInv
<1> QED  BY <1>1, ShippingInvariance, PTL

\* A valid row is given up only after all its attempts, also when it shared a batch with
\* a refused one: the batch is split down to the refused row (_deliver_rows).
THEOREM ValidRowsAreNotGivenUp == ShippingSpec => []OnlyRefusedDie
<1>1. ShippingIInv => OnlyRefusedDie  BY DEF ShippingIInv
<1> QED  BY <1>1, ShippingInvariance, PTL
=============================================================================
