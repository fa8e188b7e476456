CONSTANTS
  None = None
  Drainer = Drainer
  a1 = a1
  a2 = a2
  h1 = h1
  c1 = c1
  Approvals = {a1, a2}
  Handlers = {h1}
  Cancels = {c1}
  MaxRestarts = 1
SPECIFICATION Spec
SYMMETRY Sameness
CONSTRAINT DeletedApart
CHECK_DEADLOCK FALSE
INVARIANTS PublishedWasSent PendingIsWatched
PROPERTIES FencedNotSent DeliversAsPromised
