\* Two users, two connections, two messages, two logins, a restart and a failure;
\* a ring of three slots, which two messages fill.
CONSTANTS
  k1 = k1
  k2 = k2
  u1 = u1
  u2 = u2
  m1 = m1
  m2 = m2
  NoUser = NoUser
  Conns <- TwoConns
  Users <- TwoUsers
  Chats <- TwoChats
  Capacity = 3
  MaxLogins = 2
  MaxRestarts = 1
  MaxFaults = 1
SPECIFICATION FairSpec
CHECK_DEADLOCK FALSE
INVARIANTS TypeOK ExactlyOnceButForRaces
PROPERTY ReplayedRowsAreSent
