--------------------------- MODULE ResourceVaultMC ---------------------------
(***************************************************************************)
(* Instances of ResourceVault for TLC.                                     *)
(***************************************************************************)
EXTENDS ResourceVault, TLC

CONSTANTS m1, h1  \* a fingerprint and bytes

OneCapture == {[at |-> 1, meta |-> m1, hash |-> h1]}

Symmetry == Permutations(Process)

\* Without a capture nothing singles out one hash
HashSymmetry == Permutations(Process) \cup Permutations(Hash)
=============================================================================
