------------------------- MODULE MCTrafficStorage -------------------------
(* TrafficStorage on a small instance: one ordinary and one unstorable      *)
(* application, packets of one and two bytes, two API threads.              *)
EXTENDS TrafficStorage

CONSTANTS a, b, c1, c2

MCNames      == {a, b}
MCUnstorable == {b}
MCDir        == {"rx", "tx"}
MCLens       == {1, 2}
MCCallers    == {c1, c2}

===========================================================================
