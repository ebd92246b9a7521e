----------------------------- MODULE V4l2Device -----------------------------
(***************************************************************************)
(* How a V4L2 device is opened and configured: V4l2Capture::create and     *)
(* V4l2Output::create, V4l2Device::init with everything it calls, the      *)
(* calls that reconfigure an open device, and the destructor               *)
(* (libv4l2cpp/src/V4l2Device.cpp).                                        *)
(*                                                                         *)
(* Every ioctl may fail.  The driver has a format of its own, may pick     *)
(* another one than it was asked for, and refuses a new one while it has   *)
(* buffers for the old.  An image size is the format it is the size of, or *)
(* BadSize, which VIDIOC_S_FMT of v4l2loopback reports.  Width and height  *)
(* are left out: no step depends on them.                                  *)
(***************************************************************************)
EXTENDS Integers, Sequences

CONSTANTS
  Formats,       \* the pixel formats of the driver
  Lists,         \* the format lists that a device may be created with
  Loopback,      \* the driver is v4l2loopback
  Rates,         \* the values of m_fps; 0 leaves the driver's rate alone
  Failing,       \* the ioctls that may fail: "open", "QUERYCAP", "G_FMT", "S_FMT",
                 \* "substitute" (S_FMT picks another format), "S_PARM", "S_CTRL", "start"
  LogLevels,     \* the values of ERROR <= LogLevel; TRUE as logger.cpp sets LogLevel
  Drivers,       \* the sets of capabilities that drivers report
  None, BadSize  \* not a format

ASSUME V4l2DeviceAssumption ==
  /\ {None, BadSize} \cap Formats = {} /\ None # BadSize
  /\ Lists \subseteq Seq(Formats)
  /\ Loopback \in BOOLEAN /\ LogLevels \subseteq BOOLEAN
  /\ Rates \subseteq Nat
  /\ Drivers \subseteq SUBSET {"capture", "output", "streaming", "readwrite"}

VARIABLES
  path,          \* what m_devName names: "missing", "file", "device"
  pc,            \* the step create is at, "ready" with a device, "idle" without
  m_fd,          \* "none", "device", or "raw": opened once more, write only
  opened,        \* how many descriptors are open
  type,          \* m_deviceType: "capture" from V4l2Capture, "output" from V4l2Output
  mmap,          \* iotype is IOTYPE_MMAP, and not IOTYPE_READWRITE
  errorsLogged,
  m_formatList,  \* the formats that configureFormat has still to try
  m_fps,
  m_format, m_bufferSize,
  capabilities,  \* what the driver of the device reports
  format,        \* the driver's format
  set,           \* history: what has been set on the open device
  queried        \* history: no G_FMT of queryFormat has failed

config == <<type, mmap, errorsLogged, m_formatList, m_fps>>
image  == <<m_format, m_bufferSize>>
device == <<path, capabilities>>
vars == <<device, pc, m_fd, opened, config, image, format, set, queried>>

Fails(ioctl) == ioctl \in Failing
NoSize == None

Init ==
  /\ path \in {"missing", "file", "device"}
  /\ pc = "idle" /\ m_fd = "none" /\ opened = 0
  /\ type = "capture" /\ mmap = FALSE /\ errorsLogged = TRUE
  /\ m_formatList = <<>> /\ m_fps = 0
  /\ m_format = None /\ m_bufferSize = NoSize
  /\ format \in Formats /\ capabilities \in Drivers
  /\ set = {} /\ queried = TRUE

Goto(from, to) == pc = from /\ pc' = to

-----------------------------------------------------------------------------
(* create: a new V4l2MmapDevice or V4l2ReadWriteDevice, then its init.     *)

(* stat, S_ISCHR.  The else of "open a normal file" belongs to the if that *)
(* LOG expands to: nothing is opened for a path that is not a device.      *)
Create ==
  /\ \/ path = "device" /\ Goto("idle", "open")
     \/ path # "device" /\ Goto("idle", "release")
  /\ type' \in {"capture", "output"}
  /\ mmap' \in BOOLEAN /\ errorsLogged' \in LogLevels
  /\ m_formatList' \in Lists /\ m_fps' \in Rates
  /\ m_format' = None /\ m_bufferSize' = NoSize
  /\ set' = {} /\ queried' = TRUE
  /\ UNCHANGED <<device, m_fd, opened, format>>

Open ==
  /\ \/ Goto("open", "capabilities") /\ m_fd' = "device" /\ opened' = opened + 1
     \/ Fails("open") /\ Goto("open", "initFailed") /\ UNCHANGED <<m_fd, opened>>
  /\ UNCHANGED <<device, config, image, format, set, queried>>

(* Faulty: one error path that does not close. *)
LeaveInitDeviceOpen(from) ==
  /\ Goto(from, "initFailed")
  /\ m_fd' = "none" /\ (opened' = IF from = "rate" THEN opened ELSE opened - 1)
  /\ UNCHANGED <<device, config, image, format, set, queried>>

(* initdevice leaves on the first failure: close() and -1. *)
LeaveInitDevice(from) ==
  /\ Goto(from, "initFailed")
  /\ m_fd' = "none" /\ opened' = opened - 1
  /\ UNCHANGED <<device, config, image, format, set, queried>>

(* What create asks for: the direction and the way of the transfers.      *)
Mandatory == {type, IF mmap THEN "streaming" ELSE "readwrite"}

CheckCapabilities ==
  \/ /\ Goto("capabilities", "query")
     /\ Mandatory \subseteq capabilities
     /\ UNCHANGED <<device, m_fd, opened, config, image, format, set, queried>>
  \/ /\ Fails("QUERYCAP") \/ ~(Mandatory \subseteq capabilities)
     /\ LeaveInitDevice("capabilities")

(* queryFormat: a G_FMT that fails leaves what was known. *)
QueryFormat ==
  \/ m_format' = format /\ m_bufferSize' = format /\ UNCHANGED queried
  \/ Fails("G_FMT") /\ queried' = FALSE /\ UNCHANGED image

(* configureFormat(fd): an empty list stands for the current format. *)
QueryCurrent ==
  /\ Goto("query", "format")
  /\ QueryFormat
  /\ m_formatList' = IF m_formatList = <<>> /\ m_format' # None
                     THEN <<m_format'>> ELSE m_formatList
  /\ UNCHANGED <<device, m_fd, opened, type, mmap, errorsLogged, m_fps, format, set>>

(* configureFormat(fd, f, width, height): fails without effect, fails      *)
(* because the driver took another format, or succeeds with a size that    *)
(* v4l2loopback gets wrong.                                                *)
FormatRefused == Fails("G_FMT") \/ Fails("S_FMT")

FormatSubstituted(f) ==
  /\ Fails("substitute")
  /\ format' \in Formats \ {f}

FormatSet(f) ==
  /\ format' = f
  /\ m_format' = f
  /\ m_bufferSize' = IF Loopback THEN BadSize ELSE f

TryFormat ==
  /\ m_formatList # <<>>
  /\ LET f == Head(m_formatList)
     IN \/ /\ Goto("format", "format")
           /\ (FormatRefused /\ UNCHANGED format) \/ FormatSubstituted(f)
           /\ m_formatList' = Tail(m_formatList)
           /\ UNCHANGED <<image, set>>
        \/ /\ Goto("format", "requery")
           /\ FormatSet(f)
           /\ set' = set \cup {"format"}
           /\ UNCHANGED m_formatList
  /\ UNCHANGED <<device, m_fd, opened, type, mmap, errorsLogged, m_fps, queried>>

(* Faulty: the current format is tried when none of the list is left. *)
NoFormatLeftTriesCurrent ==
  /\ m_formatList = <<>> /\ Goto("format", "query")
  /\ UNCHANGED <<device, m_fd, opened, config, image, format, set, queried>>

NoFormatLeft == m_formatList = <<>> /\ LeaveInitDevice("format")

(* Faulty: S_FMT's size is trusted. *)
QueryAgainSkipped ==
  /\ Goto("requery", "rate")
  /\ UNCHANGED <<device, m_fd, opened, config, image, format, set, queried>>

(* The size is read again because S_FMT may have reported a bad one. *)
QueryAgain ==
  /\ Goto("requery", "rate")
  /\ QueryFormat
  /\ UNCHANGED <<device, m_fd, opened, config, format, set>>

(* Faulty: a failure that is logged and not returned. *)
SetRateUnchecked ==
  /\ Goto("rate", "exposure")
  /\ set' = IF m_fps > 0 /\ ~Fails("S_PARM") THEN set \cup {"rate"} ELSE set
  /\ UNCHANGED <<device, m_fd, opened, config, image, format, queried>>

(* S_PARM is for the capture side, of output devices too.                  *)
SetRate ==
  \/ /\ Goto("rate", "exposure")
     /\ m_fps > 0 => "capture" \in capabilities
     /\ set' = IF m_fps > 0 THEN set \cup {"rate"} ELSE set
     /\ UNCHANGED <<device, m_fd, opened, config, image, format, queried>>
  \/ /\ m_fps > 0
     /\ Fails("S_PARM") \/ "capture" \notin capabilities
     /\ LeaveInitDevice("rate")

SetExposure ==
  \/ /\ Goto("exposure", "start")
     /\ set' = set \cup {"exposure"}
     /\ UNCHANGED <<device, m_fd, opened, config, image, format, queried>>
  \/ Fails("S_CTRL") /\ LeaveInitDevice("exposure")

(* init after a failed initdevice: with the errors logged it returns       *)
(* false; with the errors off, LOG's else opens the device once more.      *)
InitFailed ==
  /\ \/ errorsLogged /\ Goto("initFailed", "release") /\ UNCHANGED <<m_fd, opened>>
     \/ ~errorsLogged /\ Goto("initFailed", "start") /\ m_fd' = "raw" /\ opened' = opened + 1
     \/ ~errorsLogged /\ Fails("open") /\ Goto("initFailed", "release") /\ UNCHANGED <<m_fd, opened>>
  /\ UNCHANGED <<device, config, image, format, set, queried>>

(* V4l2MmapDevice::init starts the device; a READWRITE device is ready. *)
StartDevice ==
  /\ \/ Goto("start", "ready") /\ set' = IF mmap THEN set \cup {"stream"} ELSE set
     \/ mmap /\ Fails("start") /\ Goto("start", "release") /\ UNCHANGED set
  /\ UNCHANGED <<device, m_fd, opened, config, image, format, queried>>

(* delete: stop, which the closing of the descriptor completes, and close; *)
(* in create after a failed init, and of a device that was ready.          *)
Release ==
  /\ Goto("release", "idle") \/ Goto("ready", "idle")
  /\ opened' = IF m_fd = "none" THEN opened ELSE opened - 1
  /\ m_fd' = "none" /\ set' = {}
  /\ UNCHANGED <<device, config, image, format, queried>>

-----------------------------------------------------------------------------
(* Calls on a device that is ready.  A driver with buffers is busy.        *)

SetFormat(f) ==
  /\ Goto("ready", "ready")
  /\ \/ (mmap \/ FormatRefused) /\ UNCHANGED <<format, image>>
     \/ ~mmap /\ FormatSubstituted(f) /\ UNCHANGED image
     \/ ~mmap /\ FormatSet(f)
  /\ UNCHANGED <<device, m_fd, opened, config, set, queried>>

Refresh ==
  /\ Goto("ready", "ready")
  /\ QueryFormat
  /\ UNCHANGED <<device, m_fd, opened, config, format, set>>

(* The device is plugged in or out, or its path taken by a file; an open   *)
(* device stays the program's until it is closed.                          *)
Replug ==
  /\ pc = "idle"
  /\ path' \in {"missing", "file", "device"}
  /\ format' \in Formats /\ capabilities' \in Drivers
  /\ UNCHANGED <<pc, m_fd, opened, config, image, set, queried>>

Next ==
  \/ Create \/ Open \/ CheckCapabilities \/ QueryCurrent
  \/ TryFormat \/ NoFormatLeft \/ QueryAgain
  \/ SetRate \/ SetExposure \/ InitFailed \/ StartDevice \/ Release
  \/ Refresh \/ Replug
  \/ \E f \in Formats : SetFormat(f)

Spec == Init /\ [][Next]_vars

(* Fairness: create does not stop half way. *)
FairSpec == Spec /\ WF_vars(pc \notin {"idle", "ready"} /\ Next)

-----------------------------------------------------------------------------
(* Properties *)

(* The types of the variables. *)
TypeOK ==
  /\ path \in {"missing", "file", "device"}
  /\ pc \in {"idle", "open", "capabilities", "query", "format", "requery", "rate",
             "exposure", "start", "initFailed", "release", "ready"}
  /\ m_fd \in {"none", "device", "raw"} /\ opened \in Nat
  /\ type \in {"capture", "output"} /\ capabilities \in Drivers
  /\ {mmap, errorsLogged, queried} \subseteq BOOLEAN
  /\ m_formatList \in Seq(Formats) /\ m_fps \in Nat
  /\ m_format \in Formats \cup {None}
  /\ m_bufferSize \in Formats \cup {NoSize, BadSize}
  /\ format \in Formats
  /\ set \subseteq {"format", "rate", "exposure", "stream"}

(* Whatever fails, no descriptor is left behind: the device holds the only *)
(* one, and a create that returned NULL none.                              *)
NoDescriptorLeaked ==
  /\ opened = IF m_fd = "none" THEN 0 ELSE 1
  /\ pc = "idle" => m_fd = "none"

(* With errors logged, a device that create hands out was configured from *)
(* end to end, and its driver can do what it is for, although every        *)
(* failure in between is only an early return of the step it hit.          *)
ReadyIsConfigured ==
  (pc = "ready" /\ errorsLogged) =>
    /\ m_fd = "device"
    /\ Mandatory \subseteq capabilities
    /\ {"format", "exposure"} \subseteq set
    /\ m_fps > 0 => "rate" \in set
    /\ mmap => "stream" \in set

(* The buffer of a capture is allocated with getBufferSize(): for a device *)
(* with buffers it must be the size of the images that the driver delivers,*)
(* unless a G_FMT failed, whose result queryFormat does not return.        *)
BufferSizeRight ==
  (pc = "ready" /\ m_fd = "device" /\ mmap /\ queried) => m_bufferSize = format

(* Every create ends, with a device or without one. *)
CreateReturns == (pc \notin {"idle", "ready"}) ~> (pc \in {"idle", "ready"})
=============================================================================
