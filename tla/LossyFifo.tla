------------------------------ MODULE LossyFifo ------------------------------
(***************************************************************************)
(* What the frame queue promises to the capture thread and to the filters: *)
(* a first-in first-out queue of at most Capacity frames in which an       *)
(* arrival never waits and, when the queue is full, costs the oldest       *)
(* waiting frame.  Frames are named by the order of their arrival, so the  *)
(* frame that arrives next is always arrived + 1.                          *)
(***************************************************************************)
EXTENDS Integers, Sequences

CONSTANT Capacity   \* a positive number

VARIABLES
  queue,      \* the waiting frames, oldest first
  arrived,    \* how many frames have arrived
  delivered   \* the frames handed to filters, in the order they were handed out

vars == <<queue, arrived, delivered>>

Init ==
  /\ queue = <<>>
  /\ arrived = 0
  /\ delivered = <<>>

(* A frame arrives; a full queue gives up its oldest frame for it. *)
Arrive ==
  /\ arrived' = arrived + 1
  /\ queue' = IF Len(queue) < Capacity
              THEN Append(queue, arrived + 1)
              ELSE Append(Tail(queue), arrived + 1)
  /\ UNCHANGED delivered

(* The oldest waiting frame is handed to a filter. *)
Deliver ==
  /\ queue # <<>>
  /\ delivered' = Append(delivered, Head(queue))
  /\ queue' = Tail(queue)
  /\ UNCHANGED arrived

Next == Arrive \/ Deliver

Spec == Init /\ [][Next]_vars
=============================================================================
