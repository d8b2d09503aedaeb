SPECIFICATION FeedSpec
CONSTANTS
  c1 = c1
  c2 = c2
  s1 = s1
  s2 = s2
  nobody = nobody
  noclient = noclient
  Client = {c1, c2}
  NoClient = noclient
  Stream = {s1, s2}
  Nobody = nobody
  DocID <- MCDoc
  Filter <- MCFilter
  QueueDepth = 1
  MaxVersion <- MCMaxVersion
SYMMETRY Writers
INVARIANTS FeedTypeOK NothingSkipped DeliveredOnce InCommitOrder
CHECK_DEADLOCK FALSE
