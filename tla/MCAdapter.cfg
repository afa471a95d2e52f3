SPECIFICATION MCSpec
CONSTANTS
  Clients = {c1, c2}
  Devices = {d1, d2}
  Environment = {"bonding", "power", "names"}
  MaxRefs = 1
  MaxCommands = 1
  MaxOrphans = 0
  Transactions = {"t1", "t2"}
  Watched = {"pos", "settings"}
  Asked = {"current_values", "text"}
  MaxStray = 1
  ControlEnvironment = {"unregister"}
  Ends = {"local", "remote"}
  MaxSent = 2
  MaxHolders = 2
  MaxLevel = 1
INVARIANTS TypeOK OorInFound Resolving BondingSafe GattListsAll GattSession ControlSafe AttSafe
