SPECIFICATION ServerSpec
CONSTANTS
  rpc = rpc
  web = web
  s1 = s1
  nobody = nobody
  noclient = noclient
  Client = {rpc, web}
  NoClient = noclient
  Stream = {s1}
  Nobody = nobody
  DocID <- MCDoc
  Filter <- MCFilter
  Via <- MCVia
  Listeners = {"unix", "tcp", "http"}
  QueueDepth = 1
  MaxVersion <- MCMaxVersion
INVARIANTS  NoCallCut 
PROPERTIES CallsEnd QueuedIsSent SignalEnds
CHECK_DEADLOCK FALSE
