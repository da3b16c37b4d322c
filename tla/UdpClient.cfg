\* One client; three descriptors, so that failed binds can leak them all.
CONSTANTS
  Clients = {dram_task}
  MaxSockets = 3
  MailLimit = 2
  Commands = {"any", "empty"}
  NoOne = NoOne
  MaxArrivals = 4
SPECIFICATION USpec
INVARIANTS UTypeOK NoOrphanListens ConnectedIsBound
