\* A descriptor closed and accepted again between the lookup and the send.
CONSTANTS
  k1 = k1
  k2 = k2
  k3 = k3
  u1 = u1
  u2 = u2
  NoConn = NoConn
  NoName = NoName
  Conns <- TwoConns
  Users <- OneUser
  MaxSlots = 2
  Descs <- FourDescs
SPECIFICATION Spec
CHECK_DEADLOCK FALSE
PROPERTY DeliveredToUser
