SPECIFICATION FuelSpec
CONSTANTS
  Configs <- MCConfigs
  Muted = {"reminder"}
  MaxLevel = 4
  Renotify = 2
  Window = 3
  Capacity = 3
INVARIANT FuelSafety
PROPERTY DropAlerts
