------------------------------ MODULE MCServer ------------------------------
(* A behaviour is one of EventLog, one of SessionStore or one of UserEventBus:
   the parts of the server whose progress is at stake. *)
EXTENDS EventLog

CONSTANTS None, Sessions, FinalHooks, MaxOwners,
          Runs, Subs, QueueMax, ReplayMax, Floors, MaxSeq

VARIABLES part,
          table, sess, owners, ran, hooked,
          buf, next, dead, timer, down, sub, pub, cover, debt

Store == INSTANCE SessionStore WITH closed <- hooked
Bus == INSTANCE UserEventBus

storeVars == <<table, sess, owners, ran, hooked>>
busVars == <<buf, next, dead, timer, down, sub, pub, cover, debt>>

MCInit ==
  /\ Init /\ Store!Init /\ Bus!Init
  /\ part \in {"log", "store", "bus"}
  /\ part # "log" => ~deferred /\ ~strict

MCNext ==
  /\ UNCHANGED part
  /\ \/ part = "log" /\ Next /\ UNCHANGED <<storeVars, busVars>>
     \/ part = "store" /\ Store!Next /\ UNCHANGED <<vars, busVars>>
     \/ part = "bus" /\ Bus!Next /\ UNCHANGED <<vars, storeVars>>

MCSpec ==
  /\ MCInit /\ [][MCNext]_<<vars, storeVars, busVars, part>>
  /\ Fairness /\ Store!Fairness /\ Bus!Fairness

\* _close_session_files and the hooks wait for the runtime owners
\* (SessionStore.NoTeardownUnderOwner).
NoTeardownUnderOwner == Store!NoTeardownUnderOwner

\* A session that left the table is torn down (SessionStore.GoneIsTornDown).
GoneIsTornDown == Store!GoneIsTornDown

\* An expired session is torn down in the end (SessionStore.ExpiryEnds).
ExpiryEnds == Store!ExpiryEnds

\* A subscriber of a terminated run that keeps reading gets to the end of it
\* (UserEventBus.TerminatedEnds).
TerminatedEnds == Bus!TerminatedEnds

\* A publish returns whatever its subscribers do (UserEventBus.PublisherReturns).
PublisherReturns == Bus!PublisherReturns
=============================================================================
