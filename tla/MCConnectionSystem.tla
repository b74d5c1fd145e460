------------------------ MODULE MCConnectionSystem ------------------------
\* ConnectionSystem with two calls, two saved connections, and a few SSH clients
\* and gRPC channels.
EXTENDS ConnectionSystem, TLC

CONSTANTS k1, k2, c1, c2, s1, s2, s3, g1, g2

MCCalls == {k1, k2}
MCConns == {c1, c2}
MCOneConn == {c1}
MCSessions2 == {s1, s2}
MCChannels == {g1, g2}
Symmetry2 ==
  Permutations(MCCalls) \cup Permutations(MCConns) \cup Permutations(MCSessions2)
    \cup Permutations(MCChannels)
Symmetry1 == Permutations(MCCalls) \cup Permutations(MCSessions2) \cup Permutations(MCChannels)
=============================================================================
