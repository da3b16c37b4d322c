\* The task may end (a failed connect) or poll a socket that stays silent.
CONSTANTS
  Clients = {dram_task}
  Task = dram_task
  MaxSockets = 3
  MailLimit = 2
  Commands = {"audio", "restart", "reconnect", "other", "empty"}
  NoOne = NoOne
  NoPkg = NoPkg
  MaxArrivals = 4
  PayloadSize = 512
  ReceiveBytes = 4
SPECIFICATION DFairSpec
INVARIANTS PollsASocket MembershipKept HandedInOrder
PROPERTIES DiscardedByCommand QueuedIsTaken DeafForEver
CHECK_DEADLOCK FALSE
