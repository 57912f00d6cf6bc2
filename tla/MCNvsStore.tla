----------------------------- MODULE MCNvsStore -----------------------------
(***************************************************************************)
(* Model values for NvsStore: a table of the boot count and one string     *)
(* setting, and the points other threads may publish.                      *)
(***************************************************************************)
EXTENDS NvsStore

MCTypes == {"bootCount", "description", "uptime"}
MCTable == <<[type |-> "bootCount", key |-> ZeroKey, dt |-> "INT"],
             [type |-> "description", key |-> ZeroKey, dt |-> "STR"]>>
MCValues == 0..(MaxPublishes + MaxRestarts + 1)

\* Points as the web page and a careful host send them, and metrics.
Edits == [type : {"description"}, key : {ZeroKey}, dt : {"STR"}, val : 1..2]
Metrics == [type : {"uptime"}, key : {BlankKey}, dt : {"INT"}, val : {1}]
MCTraffic == Edits \cup Metrics

\* The same setting with its key left blank, which every cache reads as "0".
MCBlankTraffic ==
  Edits \cup [type : {"description"}, key : {BlankKey}, dt : {"STR"}, val : {2}]

ASSUME TrafficAsProved == Traffic = MCTraffic => HostLeavesCount /\ TrafficFits
=============================================================================
