----------------------------- MODULE MCUserSystem -----------------------------
EXTENDS UserSystem, TLC

Symmetry ==
    Permutations(Users) \cup Permutations(Emails) \cup Permutations(Requests)
        \cup Permutations(Gateways)
=============================================================================
