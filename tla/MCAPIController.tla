-------------------------- MODULE MCAPIController --------------------------
(* The API with two connections over one application and unit packets.       *)
EXTENDS APIController

CONSTANTS a, c1, c2

MCNames      == {a}
MCUnstorable == {}
MCDir        == {"rx"}
MCLens       == {1}
MCCallers    == {c1, c2}

============================================================================
