-------------------------- MODULE MCWpaSupplicant --------------------------
EXTENDS WpaSupplicant

CONSTANTS s1

MCSsids == {s1}

MCPriorities == {0, 1}
=============================================================================
