SPECIFICATION PdsSpec
CONSTANTS
  alice = alice
  bob = bob
  relay = relay
  appview = appview
  Dids <- MCDids
  Subscribers <- MCSubscribers
  Retention = 1
  PruneInterval = 1
  MaxEventId = 2
  MaxTime = 3
  Kept = {f1}
  Foreign = Foreign
  Personal = Personal
  Clients = {c1, c2}
  Entered <- MCEntered
  Days <- MCDays
  Ages <- MCAges
  FirstYear = 1900
  MaxSaves = 2
  NoDate = NoDate
  Hidden = Hidden
  NotRead = NotRead
  Owners = {d1, d2}
  Keys = {k1, k2, k3}
  Requests = {r1, r2}
  NoDid = NoDid
  NoKey = NoKey
SYMMETRY MCSymmetry
INVARIANTS
  SeqNeverReused
  NoSilentGap
  OneAge
  ShownWasStored
  KeyForOneDid
