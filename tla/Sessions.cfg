\* Three connections on two slots: slots and descriptors are reused, and one connection is refused.
CONSTANTS
  k1 = k1
  k2 = k2
  k3 = k3
  u1 = u1
  u2 = u2
  NoConn = NoConn
  NoName = NoName
  Conns <- ThreeConns
  Users <- OneUser
  MaxSlots = 2
  Descs <- FourDescs
SPECIFICATION Spec
CHECK_DEADLOCK FALSE
INVARIANTS TypeOK OwnConnection NameMatchesConnection
SYMMETRY Permuted
