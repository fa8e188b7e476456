CONSTANTS
  None = None
  a1 = a1 a2 = a2 a3 = a3 c1 = c1 c2 = c2 t1 = t1 t2 = t2 t3 = t3
  g1 = g1 g2 = g2 l1 = l1 l2 = l2 d1 = d1 d2 = d2 e1 = e1 e2 = e2
  Approvals = {a1, a2, a3} Prepared = {a1, a2}
  Calls = {c1, c2}
  Turns = {t1, t2}
  Gens = {g1, g2}
  Dispatches = {l1, l2}
  Deciders = {d1, d2}
  Attempts = {e1, e2}
  Kinds = {"standard", "fresh_human_owner"}
  OwnerVotes = {d1}
  GenOf <- MCGenOf
  MaxNonce = 3
SPECIFICATION Spec
SYMMETRY Symmetry
CHECK_DEADLOCK FALSE
INVARIANTS OneAttempt ClaimAuthorized
PROPERTIES PendingKeepsItsCall DeniedNotReissued
CONSTRAINT OneSide
