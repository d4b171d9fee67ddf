\* No restart, no failure and a ring that is never full: a login and the send thread alone.
CONSTANTS
  k1 = k1
  k2 = k2
  u1 = u1
  u2 = u2
  m1 = m1
  m2 = m2
  NoUser = NoUser
  Conns <- TwoConns
  Users <- OneUser
  Chats <- OneChat
  Capacity = 4
  MaxLogins = 3
  MaxRestarts = 0
  MaxFaults = 0
SPECIFICATION Spec
CHECK_DEADLOCK FALSE
INVARIANT NothingLost
