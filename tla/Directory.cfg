\* Two threads that act for either of two users, two groups, two equal rows at most when a request starts.
CONSTANTS
  t1 = t1
  t2 = t2
  u1 = u1
  u2 = u2
  Nobody = Nobody
  NoUser = NoUser
  Clients <- TwoClients
  Users <- TwoUsers
  MaxGroups = 2
  MaxRows = 2
SPECIFICATION Spec
CHECK_DEADLOCK FALSE
INVARIANTS TypeOK NoDuplicates NoDanglingRows ReceiptsTellTruth AnnouncesOwnGroup
CONSTRAINT OneOverlap
SYMMETRY Permuted
