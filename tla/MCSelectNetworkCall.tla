------------------------ MODULE MCSelectNetworkCall ------------------------
EXTENDS SelectNetworkCall

CONSTANTS s1, s2

MCSsids == {s1, s2}

(* Priorities around the initial best_priority of -1, with a tie.          *)
MCPriorities == {-2, -1, 0}

MCSignals == {-70, -40}
=============================================================================
