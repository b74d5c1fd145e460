--------------------------- MODULE MCSshClients ---------------------------
\* SshClients with two callers, two saved connections and three SSH clients.
EXTENDS SshClients

CONSTANTS k1, k2, c1, c2, s1, s2, s3

MCCallers == {k1, k2}
MCConns == {c1, c2}
MCSessions == {s1, s2, s3}
=============================================================================
