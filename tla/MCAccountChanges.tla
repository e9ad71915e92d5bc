--------------------------- MODULE MCAccountChanges ---------------------------
(***************************************************************************)
(* AccountChanges on small instances.                                      *)
(***************************************************************************)
EXTENDS AccountChanges, TLC

CONSTANTS d0, d1, p0, p1, k0, k1, a0, a1, r1, r2

Phones == [device |-> {d0, d1}, passkey |-> {p0, p1}]
TwoRecoveryKeys == {k0, k1}
TwoLimits == {a0, a1}
Provisioned == [device |-> d0, passkey |-> p0, recovery |-> k0, limit |-> a0]
OneKeyOrTwo == {{}, {k1}}
TwoRequests == {r1, r2}

Symmetry == Permutations(Requests)

=============================================================================
