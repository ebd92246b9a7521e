-------------------------- MODULE MCV4l2MmapDevice --------------------------
(* V4l2MmapDevice with what its members may hold before the first write,   *)
(* for TLC.                                                                *)
EXTENDS V4l2MmapDevice

(* No write in progress; or one that is longer than its buffer, one that   *)
(* has used more than there is, or one of a buffer that does not exist.    *)
MCLeftovers ==
  {[inProgress |-> FALSE, buf |-> NoBuffer],
   [inProgress |-> TRUE,  buf |-> [index |-> 0, bytesused |-> 0, length |-> 4]],
   [inProgress |-> TRUE,  buf |-> [index |-> 0, bytesused |-> 4, length |-> 0]],
   [inProgress |-> TRUE,  buf |-> [index |-> 4, bytesused |-> 0, length |-> 4]]}
=============================================================================
