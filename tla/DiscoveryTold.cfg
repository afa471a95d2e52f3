SPECIFICATION Spec
CONSTANTS
  Clients = {c1}
  Devices = {d1}
  Environment = {"bonding", "names"}
  MaxRefs = 1
  MaxCommands = 1
  MaxOrphans = 0
INVARIANT DiscoveringTold
