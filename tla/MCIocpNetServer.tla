--------------------------- MODULE MCIocpNetServer ---------------------------
(***************************************************************************)
(* IocpNetServer with one slot and two workers: the faults each            *)
(* configuration allows, and the symmetry of the workers.                  *)
(***************************************************************************)
EXTENDS IocpNetServer, TLC

NoFaults == {}
SendFaults == {"WSASend"}
AllFaults == FaultNames

Symmetry == Permutations(Workers)
=============================================================================
