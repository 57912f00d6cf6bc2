\* The store thread runs while nvs_init waits for the flash.
CONSTANTS
  Types <- MCTypes
  Keys = {"0"}
  Values <- MCValues
  NoType = ""
  BlankKey = ""
  ZeroKey = "0"
  Table <- MCTable
  BootCount = "bootCount"
  Traffic <- MCTraffic
  Preempts = TRUE
  FlashFails = FALSE
  MaxPublishes = 3
  MaxRestarts = 3
SPECIFICATION Spec
INVARIANT BootCountClimbs
