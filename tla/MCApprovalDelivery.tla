------------------------- MODULE MCApprovalDelivery -------------------------
(***************************************************************************)
(* Instances of ApprovalDelivery for TLC.                                  *)
(***************************************************************************)
EXTENDS ApprovalDelivery, TLC

CONSTANTS a1, a2, h1, c1

Sameness == Permutations(Approvals)

\* The deletion of the run is explored apart from a restart of the gateway and from
\* the retry timer; the proofs cover them together.
DeletedApart == fenced = {} \/ (restarts = 0 /\ ~retry)
=============================================================================
