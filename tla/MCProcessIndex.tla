--------------------------- MODULE MCProcessIndex ---------------------------
(* Two pids, three sockets, a cache of one pid. *)
EXTENDS ProcessIndex

MCPids == 1 .. 2

=============================================================================
