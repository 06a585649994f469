SPECIFICATION MCSpec
CONSTANTS
  MaxClient = 2
  PacketIds = {p1, p2, p3}
  MaxMessages = 2
  MaxHeld = 1
  Groups = {near, remote}
  LocalGroups = {near}
  fast = fast
  best = best
  Levels = {fast, best}
  GroupLevel = fast
  Kinds <- MCKinds
  Links <- MCLinks
  Mtu = 1
  Notice = Notice
  None = None
  Texts <- MCTexts
  Byte = 6
  Low = 2
  Escape = 2
SYMMETRY MCSymmetry
INVARIANTS CountsAreHolders InstancesAreShared HeaderTells MembersAreClients InflatedIsSource ExpansionBounded
CHECK_DEADLOCK FALSE
