----------------------------- MODULE MCGrabImage -----------------------------
(***************************************************************************)
(* Small instances of GrabImage for TLC.                                   *)
(***************************************************************************)
EXTENDS GrabImage, TLC

(* Filters of one kind are interchangeable: no definition names one. *)
FilterSymmetry == {p \in Permutations(Consumers) : {p[c] : c \in Timed} = Timed}
=============================================================================
