\* Two clients, two users, a ring of three slots: full, wrapped and wedged queues all occur.
CONSTANTS
  t1 = t1
  t2 = t2
  u1 = u1
  u2 = u2
  c1 = c1
  c2 = c2
  n1 = n1
  Sender = Sender
  Nobody = Nobody
  NoEntry = NoEntry
  NoUser = NoUser
  Clients <- TwoClients
  Users <- TwoUsers
  Chats <- OneChat
  Notices <- OneNotice
  Capacity = 3
  MaxJobs = 2
  MaxMembers = 1
  MayStall <- OneUser
SPECIFICATION FairSpec
CHECK_DEADLOCK FALSE
INVARIANTS TypeOK RingUnderLock QueueInv
PROPERTIES WedgeIsPermanent ImplementsMessageQueue DrainsUnlessStopped EnqueueReturnsUnlessStopped
