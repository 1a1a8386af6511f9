--------------------------- MODULE MCDBController ---------------------------
(* Four applications: two whose names differ in case only and so share a     *)
(* table, one of them with more bytes than a 32 bit int holds, and one that  *)
(* is unstorable.                                                            *)
EXTENDS DBController

MCNames      == {"discord", "Discord", "curl", "a;b"}
MCUnstorable == {"a;b"}
MCTableOf    == [n \in MCNames |-> IF n = "Discord" THEN "discord" ELSE n]
MCAmount     == [n \in MCNames |-> IF n = "Discord" THEN 3 ELSE 1]

=============================================================================
