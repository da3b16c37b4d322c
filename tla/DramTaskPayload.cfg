\* One datagram is enough.
CONSTANTS
  Clients = {dram_task}
  Task = dram_task
  MaxSockets = 3
  MailLimit = 2
  Commands = {"audio", "restart", "reconnect", "other"}
  NoOne = NoOne
  NoPkg = NoPkg
  MaxArrivals = 2
  PayloadSize = 512
  ReceiveBytes = 4
SPECIFICATION DSpec
INVARIANTS AudioHandedOver
CHECK_DEADLOCK FALSE
