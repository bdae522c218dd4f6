--------------------------- MODULE MCShmLifecycle ---------------------------
(***************************************************************************)
(* Small instances of ShmLifecycle: two controller processes and a shim.   *)
(***************************************************************************)
EXTENDS ShmLifecycle, TLC

CONSTANTS c1, c2, s1

MCTwoControllers == {c1, c2}
MCOneShim == {s1}

ControllerSymmetry == Permutations(Controllers)
=============================================================================
