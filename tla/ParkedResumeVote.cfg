CONSTANTS
  None = None
  a1 = a1 a2 = a2 a3 = a3 c1 = c1 c2 = c2 t1 = t1 t2 = t2 t3 = t3
  g1 = g1 g2 = g2 l1 = l1 l2 = l2 d1 = d1 d2 = d2 e1 = e1 e2 = e2
  Approvals = {a1, a2} Prepared = {a1}
  Calls = {c1, c2}
  Turns = {t1}
  Gens = {g1, g2}
  Dispatches = {l1, l2}
  Deciders = {d1}
  Attempts = {e1}
  Kinds = {"standard"}
  OwnerVotes = {d1}
  GenOf <- MCGenOf
  MaxNonce = 2
SPECIFICATION Spec
SYMMETRY Symmetry
CHECK_DEADLOCK FALSE
INVARIANTS VotedUnderTurnGeneration
CONSTRAINT RootDispatches
