\* The key of a setting left blank by the publisher.
CONSTANTS
  Types <- MCTypes
  Keys = {"0"}
  Values <- MCValues
  NoType = ""
  BlankKey = ""
  ZeroKey = "0"
  Table <- MCTable
  BootCount = "bootCount"
  Traffic <- MCBlankTraffic
  Preempts = FALSE
  FlashFails = FALSE
  MaxPublishes = 3
  MaxRestarts = 3
SPECIFICATION Spec
INVARIANT ShownIsSaved
