---------------------------- MODULE MCPointFlow ----------------------------
(***************************************************************************)
(* Model values for PointFlow: contents are the stamps 0..MaxOffers, 0 for *)
(* a zeroed struct.                                                        *)
(***************************************************************************)
EXTENDS PointFlow

CONSTANTS ta, tb

MCValues == 0..MaxOffers

Of(t, k, dt) == [type |-> t, key |-> k, dt |-> dt]

\* A setting under its key, under a blank one and with a data type nobody knows,
\* which deletes its record; a metric.
MCTraffic ==
  {Of(ta, ZeroKey, "INT"), Of(ta, BlankKey, "JSN"), Of(ta, ZeroKey, "UNK"),
   Of(tb, BlankKey, "INT")}
=============================================================================
