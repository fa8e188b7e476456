-------------------------- MODULE DecisionDelivery --------------------------
(***************************************************************************)
(* What the delivery of decisions to a detached child promises: a request  *)
(* is decided once, its decision reaches the child at most once, after its *)
(* audit receipt and in the order in which the decisions were taken, and   *)
(* only a decision the child was given is acknowledged.  ApprovalDelivery  *)
(* implements it.                                                          *)
(***************************************************************************)
EXTENDS Naturals, Sequences

CONSTANT Approvals

VARIABLES
  taken,    \* the decisions, in the order of their commits
  receipts, \* the approvals whose audit receipts are durable
  given,    \* the decisions the child was given, in order
  acked     \* the approvals whose delivery is acknowledged

vars == <<taken, receipts, given, acked>>

Decisions == [approval : Approvals, approved : BOOLEAN]

Init == taken = <<>> /\ receipts = {} /\ given = <<>> /\ acked = {}

Decide(d) ==
  /\ \A i \in DOMAIN taken : taken[i].approval # d.approval
  /\ taken' = Append(taken, d)
  /\ UNCHANGED <<receipts, given, acked>>

Record(i) ==
  /\ receipts' = receipts \cup {taken[i].approval}
  /\ UNCHANGED <<taken, given, acked>>

\* Some decision is never given: a row that fails is overtaken or quarantined.
Give(i) ==
  /\ taken[i].approval \in receipts
  /\ \A j \in DOMAIN given : \E k \in 1..(i - 1) : given[j] = taken[k]
  /\ given' = Append(given, taken[i])
  /\ UNCHANGED <<taken, receipts, acked>>

Acknowledge(i) ==
  /\ acked' = acked \cup {given[i].approval}
  /\ UNCHANGED <<taken, receipts, given>>

Next ==
  \/ \E d \in Decisions : Decide(d)
  \/ \E i \in DOMAIN taken : Record(i) \/ Give(i)
  \/ \E i \in DOMAIN given : Acknowledge(i)

Spec == Init /\ [][Next]_vars
=============================================================================
