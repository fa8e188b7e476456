-------------------------- MODULE MCParkedApproval --------------------------
(* Small instances of ParkedApproval for TLC. *)
EXTENDS ParkedApproval, TLC

CONSTANTS a1, a2, a3, c1, c2, t1, t2, t3, g1, g2, l1, l2, d1, d2, e1, e2

\* Gateways of two policy generations serve the two decision requests.
MCGenOf == (d1 :> g2) @@ [d \in Deciders \ {d1} |-> g1]

Symmetry == Permutations(Approvals \ Prepared) \cup Permutations(Prepared) \cup Permutations(Calls) \cup
            Permutations(Turns) \cup Permutations(Dispatches) \cup
            Permutations(Attempts)

\* Every dispatch belongs to a root turn.
RootDispatches == \A l \in Dispatches : lc[l].call # None => lc[l].turn # None

Used(procs0, none) == Cardinality({p \in DOMAIN procs0 : procs0[p] # none})

\* Two dispatches with one standard decision and one attempt, or one dispatch
\* with two of each.
OneSide ==
  Used(lc, NoDispatch) = 2 =>
    /\ Used(exe, NoAttempt) <= 1 /\ dec[d2] = NoDecision
    /\ \A x \in Approvals : req[x].kind = "standard"
=============================================================================
