\* One repository, fair: four events, in batches of two.
SPECIFICATION FairSpec
CONSTANTS
  alice = alice
  bob = bob
  Dids = {alice}
  Subscribers = {}
  Retention = 1
  PruneInterval = 1
  MaxTime = 0
  BatchSize = 2
  MaxEventId = 4
PROPERTIES
  EventuallyAcknowledged
  ImplementsLog
