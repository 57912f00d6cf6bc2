---------------------------- MODULE MCPointStream ----------------------------
(***************************************************************************)
(* Model values for PointStream: two types, blank keys and the key "0",    *)
(* known and unknown data types.                                           *)
(***************************************************************************)
EXTENDS PointStream

MCValues == 0..MaxPublishes
MCTraffic ==
  [type : Types, key : {BlankKey, ZeroKey}, dt : {"INT"}, val : {0}]
    \cup [type : Types, key : {BlankKey}, dt : {"UNK"}, val : {0}]
=============================================================================
