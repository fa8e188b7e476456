--------------------------- MODULE MCUserEventBus ---------------------------
(***************************************************************************)
(* Instances of UserEventBus for TLC.                                      *)
(***************************************************************************)
EXTENDS UserEventBus

CONSTANTS r1, r2, s1, s2

\* Two subscriptions to one run, or two runs and one subscription from the
\* start; the first ones come first; both runs do not reach MaxSeq.
OneSide ==
  /\ next[r2] # 0 => sub[s2] = NoSub /\ sub[s1].floor = 0 /\ next[r1] # 0
  /\ sub[s2] # NoSub => sub[s1] # NoSub
  /\ next[r1] + next[r2] <= 7
=============================================================================
