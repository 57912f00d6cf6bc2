---------------------------- MODULE MCPointStore ----------------------------
(***************************************************************************)
(* Model values for PointStore: three identities competing for two or      *)
(* three slots, blank and "0" keys, untyped points and unknown data types. *)
(***************************************************************************)
EXTENDS PointStore

\* The keys "" and "0" under one type, a second type, and a point whose type
\* is empty (what points_json_decode leaves of an element it rejects).
MCTraffic ==
  [type : Types, key : {BlankKey, ZeroKey}, dt : {"INT", "UNK"}, val : Values]
    \cup [type : {NoType}, key : {BlankKey}, dt : {"UNK"}, val : {Zero}]
    \cup [type : Types, key : Keys \ {ZeroKey}, dt : {"STR"}, val : Values]
=============================================================================
