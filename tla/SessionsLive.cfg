\* Three connections that take turns on one slot.
CONSTANTS
  k1 = k1
  k2 = k2
  k3 = k3
  u1 = u1
  u2 = u2
  NoConn = NoConn
  NoName = NoName
  Conns <- ThreeConns
  Users <- OneUser
  MaxSlots = 1
  Descs <- FourDescs
SPECIFICATION FairSpec
CHECK_DEADLOCK FALSE
PROPERTY SlotGivenBack
