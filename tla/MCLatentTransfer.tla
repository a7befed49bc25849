-------------------------- MODULE MCLatentTransfer --------------------------
(***************************************************************************)
(* TLC instances of LatentTransfer.                                        *)
(***************************************************************************)
EXTENDS LatentTransfer, TLC

CONSTANTS vm1, vm2

MCVMs == {vm1, vm2}
Symmetric == Permutations(MCVMs)
=============================================================================
