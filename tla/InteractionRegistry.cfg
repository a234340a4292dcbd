CONSTANTS
  Flows <- MCFlows
  Identities <- MCIdentities
  Identity <- MCIdentity
  MaxLive = 2
  MaxTombstones = 2
  Ttl = 2
  MaxTime = 5
  None = None
SPECIFICATION Spec
CHECK_DEADLOCK FALSE
INVARIANTS
  SlotKeptForEachLive
  OneLivePerIdentity
PROPERTIES
  NoRedelivery
