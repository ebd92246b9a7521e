---------------------------- MODULE MCV4l2Device ----------------------------
(* V4l2Device with a driver of two formats, for TLC. *)
EXTENDS V4l2Device

CONSTANTS mjpg, yuyv

(* The filters ask for MJPG only; libv4l2cpp's own program passes any list, *)
(* and an empty one when no format is given.                                *)
FormatLists == {<<>>, <<mjpg>>, <<yuyv, mjpg>>}

(* A webcam, an output without a capture side, v4l2loopback, and a device  *)
(* that is not for images.                                                 *)
DriverKinds ==
  {{"capture", "streaming"}, {"output", "streaming", "readwrite"},
   {"capture", "output", "streaming", "readwrite"}, {}}
=============================================================================
