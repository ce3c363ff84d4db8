-------------------------- MODULE MCPortAllocation --------------------------
(***************************************************************************)
(* Small port numbers: managers may sit where the counters will pass, and  *)
(* the ports given to instances lie before, at and after the counters.     *)
(***************************************************************************)
EXTENDS PortAllocation, TLC

CONSTANTS m1, m2, noport

Machines == {m1, m2}
Symmetry == Permutations(Machines)
ManagerPortValues == {1, 2, 11}
GivenPorts == {10, 12, 21}
StorageStarts == {10}
ServerStarts == {20}
=============================================================================
