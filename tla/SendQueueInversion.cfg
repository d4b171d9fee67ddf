\* More room than messages, so that only the order of the two locks can stop the queue.
CONSTANTS
  t1 = t1
  t2 = t2
  u1 = u1
  u2 = u2
  c1 = c1
  c2 = c2
  n1 = n1
  Sender = Sender
  Nobody = Nobody
  NoEntry = NoEntry
  NoUser = NoUser
  Clients <- TwoClients
  Users <- OneUser
  Chats <- OneChat
  Notices <- OneNotice
  Capacity = 6
  MaxJobs = 2
  MaxMembers = 2
  MayStall = {}
SPECIFICATION FairSpec
CHECK_DEADLOCK FALSE
PROPERTY QueueDrains
