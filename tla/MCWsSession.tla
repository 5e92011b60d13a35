----------------------------- MODULE MCWsSession -----------------------------
EXTENDS WsSession

Symmetry == Permutations(Conns) \cup Permutations(EventIds)
=============================================================================
