\* nvs_init runs undisturbed; power may fail three times, and any read or write
\* of the flash may fail.
CONSTANTS
  Types <- MCTypes
  Keys = {"0"}
  Values <- MCValues
  NoType = ""
  BlankKey = ""
  ZeroKey = "0"
  Table <- MCTable
  BootCount = "bootCount"
  Traffic <- MCTraffic
  Preempts = FALSE
  FlashFails = TRUE
  MaxPublishes = 3
  MaxRestarts = 3
SPECIFICATION Spec
INVARIANTS TypeOK ShownIsSaved BootCountClimbs
PROPERTIES BootRestores QueueDrains BootEnds
