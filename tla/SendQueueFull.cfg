\* One user, receipts alone (nothing is ever stored), a ring of two slots: a full ring keeps the lock.
CONSTANTS
  t1 = t1
  t2 = t2
  u1 = u1
  u2 = u2
  c1 = c1
  c2 = c2
  n1 = n1
  Sender = Sender
  Nobody = Nobody
  NoEntry = NoEntry
  NoUser = NoUser
  Clients <- TwoClients
  Users <- OneUser
  Chats = {}
  Notices <- OneNotice
  Capacity = 2
  MaxJobs = 2
  MaxMembers = 2
  MayStall = {}
SPECIFICATION FairSpec
CHECK_DEADLOCK FALSE
PROPERTY EnqueueReturns
