\* Two connections that log the same user in at the same time.
CONSTANTS
  k1 = k1
  k2 = k2
  k3 = k3
  u1 = u1
  u2 = u2
  NoConn = NoConn
  NoName = NoName
  Conns <- TwoConns
  Users <- OneUser
  MaxSlots = 2
  Descs <- FourDescs
SPECIFICATION Spec
CHECK_DEADLOCK FALSE
INVARIANT OneSessionPerUser
