------------------------------ MODULE MCRegistry ------------------------------
(* What TLC needs to run Registry.tla. *)
EXTENDS Registry, TLC

NoFault  == {{}}
AllModes == {{}, {"create"}, {"stat", "create"}}

(* The cameras are interchangeable. *)
CameraSymmetry == Permutations(Cameras)
=============================================================================
