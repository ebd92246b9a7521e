----------------------------- MODULE FrameStream -----------------------------
(***************************************************************************)
(* What the buffers of a capture device promise to its reader: a stream of *)
(* frames.  The driver's frames wait in the order they were taken, each    *)
(* read copies the oldest of them, and none is skipped or seen twice.      *)
(* Frames are only lost together, when the stream is stopped.              *)
(***************************************************************************)
EXTENDS Integers, Sequences

VARIABLES
  taken,     \* how many frames the driver has taken
  pending,   \* the frames that wait to be read, oldest first
  lastRead   \* the frame that was read last

vars == <<taken, pending, lastRead>>

Init ==
  /\ taken = 0
  /\ pending = <<>>
  /\ lastRead = 0

(* The driver has taken another frame. *)
Take ==
  /\ taken' = taken + 1
  /\ pending' = Append(pending, taken + 1)
  /\ UNCHANGED lastRead

(* The oldest waiting frame is read. *)
Read ==
  /\ pending # <<>>
  /\ lastRead' = Head(pending)
  /\ pending' = Tail(pending)
  /\ UNCHANGED taken

(* The stream stops: what was not read is gone. *)
Discard ==
  /\ pending' = <<>>
  /\ UNCHANGED <<taken, lastRead>>

Next == Take \/ Read \/ Discard

Spec == Init /\ [][Next]_vars
=============================================================================
