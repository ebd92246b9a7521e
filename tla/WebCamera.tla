------------------------------ MODULE WebCamera ------------------------------
(***************************************************************************)
(* One WebCamera object (sources/webcamera.cpp): the filter threads that   *)
(* call start_acquisition, set_max_framerate, close_acquisition and the    *)
(* destructor through the filters of sources/main.cpp, and the capture     *)
(* thread that these calls start and join.                                 *)
(*                                                                         *)
(* The object has no lock.  What keeps the capture thread away from a      *)
(* device that is being stopped, reconfigured or deleted is the order of   *)
(* the statements: m_running goes false, the thread is joined, and only    *)
(* then is the device touched.  So every call is modelled statement by     *)
(* statement.  "process" tells when a step ended the program or left the   *)
(* defined language; nothing is modelled after that.                       *)
(***************************************************************************)
EXTENDS Integers

CONSTANTS
  Callers,      \* filter threads that use the camera
  Rates,        \* the frame rates that are asked for
  InitialRate,  \* inFPS of the filter that made the object
  FaultModes    \* sets of what may fail: {} is the healthy camera

(* "mmap" is a slot that a restart could not map, "start" whatever else    *)
(* fails in a restart; an opening that fails is "create".                  *)
AllFaults == {"stat", "create", "read", "again", "stop", "setfps", "start", "mmap"}

ASSUME WebCameraAssumption ==
  /\ Rates \subseteq Nat \ {0}
  /\ InitialRate \in Nat
  /\ FaultModes \subseteq SUBSET AllFaults

VARIABLES
  faults,           \* what may fail in this behaviour
  object,           \* not made yet, registered with the manager, removed, destroyed
  process,          \* "alive", or how the program ended
  at,               \* the statement each caller is at
  new_max,          \* the rate each caller asks for, until it is stored
  m_running,
  capture,          \* m_cap_thread: not joinable, the statement it is at, returned
  frame,            \* what the last read put into the buffer
  video_capture,    \* what the pointer refers to
  buffer,           \* what the pointer refers to
  stream,           \* *video_capture and its driver, see Streams below
  m_max_framerate,
  deviceRate,       \* the rate the driver was last given
  queueRate,        \* m_max_allowed_frequency_hz of the queue
  timerRate,        \* the rate tv was computed from
  overlapped        \* history: two calls have been under way at once

pointers == <<video_capture, buffer>>
rates    == <<m_max_framerate, deviceRate, queueRate, timerRate>>
vars == <<faults, object, process, at, new_max, m_running, capture, frame, pointers, stream, rates, overlapped>>

NoRate == 0

(* "on": buffers are mapped and the driver streams; "off": neither;        *)
(* "holed": the driver streams, but a slot of m_buffer holds no mapping;   *)
(* "unmapped": the driver streams, but n_buffers is 0; "mapped": buffers   *)
(* are there and the driver does not stream.                               *)
Streams == {"off", "on", "holed", "unmapped", "mapped"}
Streaming == stream \in {"on", "holed", "unmapped"}

(* The state of the object before it is made is the one its constructor    *)
(* leaves: the two pointers have no value.                                 *)
Init ==
  /\ faults \in FaultModes
  /\ object = "absent" /\ process = "alive"
  /\ at = [c \in Callers |-> "idle"] /\ new_max = [c \in Callers |-> NoRate]
  /\ m_running = FALSE
  /\ capture = "none" /\ frame = "none"
  /\ video_capture = "unset" /\ buffer = "unset" /\ stream = "off"
  /\ m_max_framerate = InitialRate /\ queueRate = InitialRate
  /\ deviceRate = NoRate /\ timerRate = NoRate
  /\ overlapped = FALSE

Goto(c, from, to) ==
  /\ process = "alive"
  /\ at[c] = from
  /\ at' = [at EXCEPT ![c] = to]

(* What using, or deleting, a pointer without an object behind it makes of *)
(* the program.                                                            *)
Misuse(pointer) ==
  CASE pointer = "unset"   -> "wild pointer"
    [] pointer = "null"    -> "null pointer"
    [] pointer = "deleted" -> "freed pointer"

-----------------------------------------------------------------------------
(* The Init of a filter: get_or_make_device, then start_acquisition.  Only *)
(* one object is followed: not the one a later Init makes after a close.   *)

(* manager->get_device *)
GetDevice(c) ==
  /\ \/ object = "absent" /\ Goto(c, "idle", "make")
     \/ object = "registered" /\ Goto(c, "idle", "init")
  /\ UNCHANGED <<object, process, m_running, capture, frame, pointers, stream, rates>>

(* manager->add_device: it throws when another filter was faster.  The map *)
(* has no lock, so two filters may both find no device.                    *)
AddDeviceTest(c) ==
  /\ \/ object = "absent" /\ Goto(c, "make", "assign")
     \/ object # "absent" /\ Goto(c, "make", "idle")
  /\ UNCHANGED <<object, process, m_running, capture, frame, pointers, stream, rates>>

(* The first object to be assigned is the one that is followed; the object *)
(* of a filter that assigns later takes its place in the map.              *)
AddDevice(c) ==
  /\ \/ object = "absent" /\ object' = "registered" /\ Goto(c, "assign", "init")
     \/ object = "registered" /\ object' = "removed" /\ Goto(c, "assign", "idle")
     \/ object \in {"removed", "destroyed"} /\ UNCHANGED object /\ Goto(c, "assign", "idle")
  /\ UNCHANGED <<process, m_running, capture, frame, pointers, stream, rates>>

(* An object that the map has lost may share its device with the next one. *)
Replaced == object = "removed"

(* Faulty: the camera is started, running or not. *)
FilterInitAlways(c) ==
  /\ Goto(c, "init", "start")
  /\ UNCHANGED <<object, process, m_running, capture, frame, pointers, stream, rates>>

(* if (!m_camera->is_running()) m_camera->start_acquisition(); *)
FilterInit(c) ==
  /\ \/ ~m_running /\ Goto(c, "init", "start")
     \/ m_running /\ Goto(c, "init", "idle")
  /\ UNCHANGED <<object, process, m_running, capture, frame, pointers, stream, rates>>

(* m_running = true comes first; a missing /dev/video throws out of here.  *)
MarkRunning(c) ==
  /\ \/ Goto(c, "start", "create")
     \/ "stat" \in faults /\ Goto(c, "start", "idle")
  /\ m_running' = TRUE
  /\ UNCHANGED <<object, process, capture, frame, pointers, stream, rates>>

(* V4l2Capture::create opens the device, sets its rate and starts to       *)
(* stream; a device that another capture object streams from is busy.      *)
CreateCapture(c) ==
  /\ Goto(c, "create", "check")
  /\ \/ /\ stream = "off"
        /\ video_capture' = "live" /\ stream' = "on"
        /\ deviceRate' = IF m_max_framerate > 0 THEN m_max_framerate ELSE deviceRate
     \/ /\ "create" \in faults \/ stream # "off" \/ Replaced
        /\ video_capture' = "null" /\ stream' = "off"
        /\ UNCHANGED deviceRate
  /\ UNCHANGED <<object, process, m_running, capture, frame, buffer,
                 m_max_framerate, queueRate, timerRate>>

(* isReady() == -1 dereferences the pointer and is false for every bool.   *)
(* Then the image buffer, and tv from the frame rate.                      *)
AllocateBuffer(c) ==
  /\ Goto(c, "check", "spawn")
  /\ \/ /\ video_capture = "live"
        /\ buffer' = "live" /\ timerRate' = m_max_framerate
        /\ UNCHANGED process
     \/ /\ video_capture # "live"
        /\ process' = Misuse(video_capture)
        /\ UNCHANGED <<buffer, timerRate>>
  /\ UNCHANGED <<object, m_running, capture, frame, video_capture, stream,
                 m_max_framerate, deviceRate, queueRate>>

(* m_cap_thread = std::thread(...): assigning to a joinable thread ends    *)
(* the program.                                                            *)
SpawnCapture(c) ==
  /\ Goto(c, "spawn", "idle")
  /\ \/ capture = "none" /\ capture' = "test" /\ UNCHANGED process
     \/ capture # "none" /\ process' = "terminated" /\ UNCHANGED capture
  /\ UNCHANGED <<object, m_running, frame, pointers, stream, rates>>

-----------------------------------------------------------------------------
(* set_max_framerate, called by SetFrameRateLimit; an unchanged rate is    *)
(* ignored.                                                                *)

(* if (this->m_max_framerate != new_max) *)
ChangeRate(c) ==
  /\ Goto(c, "idle", "rateStore")
  /\ object = "registered"
  /\ \E r \in Rates \ {m_max_framerate} : new_max' = [new_max EXCEPT ![c] = r]
  /\ UNCHANGED <<object, process, m_running, capture, frame, pointers, stream, rates>>

StoreRate(c) ==
  /\ Goto(c, "rateStore", "rateClear")
  /\ m_max_framerate' = new_max[c]
  /\ new_max' = [new_max EXCEPT ![c] = NoRate]
  /\ UNCHANGED <<object, process, m_running, capture, frame, pointers, stream,
                 deviceRate, queueRate, timerRate>>

(* Faulty: the join left out; m_running left alone. *)
ClearRunningNoJoin(c) ==
  /\ Goto(c, "rateClear", "rateStop")
  /\ m_running' = FALSE
  /\ UNCHANGED <<object, process, capture, frame, pointers, stream, rates>>

ClearRunningNot(c) ==
  /\ Goto(c, "rateClear", "rateJoin")
  /\ UNCHANGED <<object, process, m_running, capture, frame, pointers, stream, rates>>

ClearRunning(c) ==
  /\ Goto(c, "rateClear", "rateJoin")
  /\ m_running' = FALSE
  /\ UNCHANGED <<object, process, capture, frame, pointers, stream, rates>>

(* Faulty: the capture thread is started again before the device has the   *)
(* new rate.                                                               *)
RateStopThenRun(c) ==
  /\ Goto(c, "rateStop", "rateRun")
  /\ stream' = "off"
  /\ UNCHANGED <<object, process, m_running, capture, frame, pointers, rates>>

(* stop, setFps and start are called for what they do; what they return is *)
(* dropped.  A stop whose STREAMOFF fails drops the buffers all the same.  *)
RateStop(c) ==
  /\ Goto(c, "rateStop", "rateSet")
  /\ \/ /\ video_capture = "live"
        /\ \/ stream' = "off"
           \/ "stop" \in faults /\ Streaming /\ stream' = "unmapped"
        /\ UNCHANGED process
     \/ /\ video_capture # "live"
        /\ process' = Misuse(video_capture) /\ UNCHANGED stream
  /\ UNCHANGED <<object, m_running, capture, frame, pointers, rates>>

(* Faulty: the queue is not told. *)
RateSetDeviceOnly(c) ==
  /\ Goto(c, "rateSet", "rateStart")
  /\ deviceRate' = m_max_framerate
  /\ UNCHANGED <<object, process, m_running, capture, frame, pointers, stream,
                 m_max_framerate, queueRate, timerRate>>

(* The driver refuses a new rate while it streams. *)
RateSet(c) ==
  /\ Goto(c, "rateSet", "rateStart")
  /\ \/ /\ video_capture = "live"
        /\ queueRate' = m_max_framerate
        /\ \/ ~Streaming /\ deviceRate' = m_max_framerate
           \/ /\ "setfps" \in faults \/ Streaming \/ Replaced
              /\ UNCHANGED deviceRate
        /\ UNCHANGED process
     \/ /\ video_capture # "live"
        /\ process' = Misuse(video_capture) /\ UNCHANGED <<queueRate, deviceRate>>
  /\ UNCHANGED <<object, m_running, capture, frame, pointers, stream,
                 m_max_framerate, timerRate>>

(* Faulty: the stream is not started again. *)
RateStartTimerOnly(c) ==
  /\ Goto(c, "rateStart", "rateRun")
  /\ timerRate' = m_max_framerate
  /\ UNCHANGED <<object, process, m_running, capture, frame, pointers, stream,
                 m_max_framerate, deviceRate, queueRate>>

(* A start that fails leaves no buffers, or buffers without a stream; or,  *)
(* since it goes on after a slot it could not map, a stream whose frames   *)
(* the loop cannot all copy.  On a driver that still streams or has        *)
(* buffers it fails with no effect.                                        *)
RateStart(c) ==
  /\ Goto(c, "rateStart", "rateRun")
  /\ \/ /\ video_capture = "live"
        /\ \/ stream = "off" /\ stream' = "on"
           \/ stream = "off" /\ "start" \in faults /\ stream' \in {"off", "mapped"}
           \/ stream = "off" /\ "mmap" \in faults /\ stream' = "holed"
           \/ stream = "off" /\ Replaced /\ UNCHANGED stream
           \/ stream # "off" /\ UNCHANGED stream
        /\ timerRate' = m_max_framerate
        /\ UNCHANGED process
     \/ /\ video_capture # "live"
        /\ process' = Misuse(video_capture) /\ UNCHANGED <<stream, timerRate>>
  /\ UNCHANGED <<object, m_running, capture, frame, pointers,
                 m_max_framerate, deviceRate, queueRate>>

(* Faulty: no new capture thread. *)
RateRunNoThread(c) ==
  /\ Goto(c, "rateRun", "idle")
  /\ m_running' = TRUE
  /\ UNCHANGED <<object, process, capture, frame, pointers, stream, rates>>

RateRun(c) ==
  /\ Goto(c, "rateRun", "spawn")
  /\ m_running' = TRUE
  /\ UNCHANGED <<object, process, capture, frame, pointers, stream, rates>>

-----------------------------------------------------------------------------
(* close_acquisition, called by CloseAcquisition and by the destructor *)

Close(c) ==
  /\ Goto(c, "idle", "closeJoin")
  /\ object = "registered"
  /\ m_running' = FALSE
  /\ UNCHANGED <<object, process, capture, frame, pointers, stream, rates>>

(* The last shared_ptr goes: of a filter, or of the manager when the       *)
(* program exits.  No call is running then.                                *)
Destroy(c) ==
  /\ \A d \in Callers : at[d] = "idle"
  /\ object \in {"registered", "removed"} /\ object' = "destroyed"
  /\ Goto(c, "idle", "dtorJoin")
  /\ m_running' = FALSE
  /\ UNCHANGED <<process, capture, frame, pointers, stream, rates>>

(* Faulty: the thread is not waited for when the camera is closed. *)
JoinCaptureNotAtClose(c) ==
  /\ \/ Goto(c, "closeJoin", "closeDelete") /\ UNCHANGED capture
     \/ Goto(c, "dtorJoin", "dtorDelete") /\ UNCHANGED capture
     \/ Goto(c, "rateJoin", "rateStop") /\ capture \in {"none", "exited"} /\ capture' = "none"
  /\ UNCHANGED <<object, process, m_running, frame, pointers, stream, rates>>

(* if (m_cap_thread.joinable()) m_cap_thread.join(), in all three calls.   *)
JoinCapture(c) ==
  /\ \/ Goto(c, "closeJoin", "closeDelete")
     \/ Goto(c, "dtorJoin", "dtorDelete")
     \/ Goto(c, "rateJoin", "rateStop")
  /\ capture \in {"none", "exited"}
  /\ capture' = "none"
  /\ UNCHANGED <<object, process, m_running, frame, pointers, stream, rates>>

(* delete video_capture, whose destructor stops the stream; delete buffer. *)
(* Deleting null does nothing, and a pointer that was never set may happen *)
(* to be null.  (The buffer is made with new[]; deleting it without the [] *)
(* is undefined, and harmless for a char array.)                           *)
DeletePointers(c) ==
  /\ Goto(c, "closeDelete", "closeRemove") \/ Goto(c, "dtorDelete", "idle")
  /\ \/ /\ video_capture # "deleted" /\ buffer # "deleted"
        /\ video_capture' = IF video_capture = "live" THEN "deleted" ELSE video_capture
        /\ buffer' = IF buffer = "live" THEN "deleted" ELSE buffer
        /\ stream' = IF video_capture = "live" THEN "off" ELSE stream
        /\ UNCHANGED process
     \/ /\ video_capture \in {"unset", "deleted"} /\ process' = Misuse(video_capture)
        /\ UNCHANGED <<pointers, stream>>
     \/ /\ video_capture # "deleted"
        /\ buffer \in {"unset", "deleted"} /\ process' = Misuse(buffer)
        /\ UNCHANGED <<pointers, stream>>
  /\ UNCHANGED <<object, m_running, capture, frame, rates>>

(* WebCameraManager::remove_device *)
RemoveDevice(c) ==
  /\ Goto(c, "closeRemove", "idle")
  /\ object' = "removed"
  /\ UNCHANGED <<process, m_running, capture, frame, pointers, stream, rates>>

-----------------------------------------------------------------------------
(* captureLoop *)

CaptureGoto(from, to) ==
  /\ process = "alive"
  /\ capture = from
  /\ capture' = to
  /\ UNCHANGED <<object, at, pointers, stream, rates>>

(* while (m_running) *)
LoopTest ==
  /\ \/ m_running /\ CaptureGoto("test", "select")
     \/ ~m_running /\ CaptureGoto("test", "exited")
  /\ UNCHANGED <<process, m_running, frame>>

(* isReadable: select returns when the device has something, an error      *)
(* included, or when the time is over.                                     *)
Select ==
  /\ \/ /\ video_capture = "live"
        /\ CaptureGoto("select", "read") \/ CaptureGoto("select", "test")
        /\ UNCHANGED process
     \/ /\ video_capture # "live"
        /\ CaptureGoto("select", "select")
        /\ process' = Misuse(video_capture)
  /\ UNCHANGED <<m_running, frame>>

(* read returns a frame's size; 0 when nothing was there or when there are *)
(* no mapped buffers; -1 on an error.  The frame may be in a slot without  *)
(* a mapping.                                                              *)
Read ==
  /\ \/ /\ video_capture = "live" /\ buffer = "live"
        /\ \/ /\ stream \in {"on", "holed"}
              /\ frame' = "image" /\ CaptureGoto("read", "push") /\ UNCHANGED process
           \/ /\ \/ stream \in {"off", "unmapped"}
                 \/ stream \in {"on", "holed"} /\ "again" \in faults
              /\ frame' = "empty" /\ CaptureGoto("read", "push") /\ UNCHANGED process
           \/ /\ \/ stream = "mapped"
                 \/ stream \in {"on", "holed"} /\ "read" \in faults
              /\ frame' = "none" /\ CaptureGoto("read", "failed") /\ UNCHANGED process
           \/ /\ stream = "holed"
              /\ process' = "bad mapping" /\ CaptureGoto("read", "read") /\ UNCHANGED frame
     \/ /\ ~(video_capture = "live" /\ buffer = "live")
        /\ CaptureGoto("read", "read")
        /\ process' = Misuse(IF video_capture # "live" THEN video_capture ELSE buffer)
        /\ UNCHANGED frame
  /\ UNCHANGED m_running

(* LoadImageFromArray and m_queue.push, rsize 0 included. *)
PushFrame ==
  /\ CaptureGoto("push", "test")
  /\ UNCHANGED <<process, m_running, frame>>

(* rsize == -1: the capture thread joins itself, which throws out of the   *)
(* thread.                                                                 *)
ReadFailed ==
  /\ CaptureGoto("failed", "exited")
  /\ m_running' = FALSE
  /\ process' = "terminated"
  /\ UNCHANGED frame

CaptureStep ==
  /\ LoopTest \/ Select \/ Read \/ PushFrame \/ ReadFailed
  /\ UNCHANGED <<faults, new_max, overlapped>>

-----------------------------------------------------------------------------
Begin(c) ==
  /\ \/ ChangeRate(c)
     \/ (GetDevice(c) \/ Close(c) \/ Destroy(c)) /\ UNCHANGED new_max
  /\ overlapped' = (overlapped \/ \E d \in Callers \ {c} : at[d] # "idle")
  /\ UNCHANGED faults

Statement(c) ==
  \/ AddDeviceTest(c) \/ AddDevice(c) \/ FilterInit(c)
  \/ MarkRunning(c) \/ CreateCapture(c) \/ AllocateBuffer(c) \/ SpawnCapture(c)
  \/ ClearRunning(c) \/ JoinCapture(c)
  \/ RateStop(c) \/ RateSet(c) \/ RateStart(c) \/ RateRun(c)
  \/ DeletePointers(c) \/ RemoveDevice(c)

Continue(c) ==
  /\ StoreRate(c) \/ (Statement(c) /\ UNCHANGED new_max)
  /\ UNCHANGED <<faults, overlapped>>

Next == CaptureStep \/ \E c \in Callers : Begin(c) \/ Continue(c)

Spec == Init /\ [][Next]_vars

(* Fairness: a thread that can run does.  select never blocks for longer   *)
(* than tv says.  Nothing makes a filter call.                             *)
FairSpec ==
  Spec /\ WF_vars(CaptureStep) /\ \A c \in Callers : WF_vars(Continue(c))

-----------------------------------------------------------------------------
(* Properties *)

CallerLocations ==
  {"idle", "make", "assign", "init", "start", "create", "check", "spawn",
   "rateStore", "rateClear", "rateJoin", "rateStop", "rateSet", "rateStart", "rateRun",
   "closeJoin", "closeDelete", "closeRemove", "dtorJoin", "dtorDelete"}
InLoop == {"test", "select", "read", "push"}
Idle   == \A c \in Callers : at[c] = "idle"

(* The types of the variables. *)
TypeOK ==
  /\ faults \in FaultModes
  /\ object \in {"absent", "registered", "removed", "destroyed"}
  /\ process \in {"alive", "terminated", "wild pointer", "null pointer", "freed pointer", "bad mapping"}
  /\ at \in [Callers -> CallerLocations]
  /\ new_max \in [Callers -> Rates \cup {NoRate}]
  /\ m_running \in BOOLEAN
  /\ capture \in {"none", "failed", "exited"} \cup InLoop
  /\ frame \in {"none", "image", "empty"}
  /\ video_capture \in {"unset", "null", "live", "deleted"}
  /\ buffer \in {"unset", "live", "deleted"}
  /\ stream \in Streams
  /\ m_max_framerate \in Nat /\ deviceRate \in Nat /\ queueRate \in Nat /\ timerRate \in Nat
  /\ overlapped \in BOOLEAN

(* The device is opened, stopped, given a rate, restarted and deleted only *)
(* while no capture thread can be using it: set_max_framerate and          *)
(* close_acquisition clear m_running and join first, without a lock.  That *)
(* holds while no two calls overlap, whichever threads make them and       *)
(* whatever fails.                                                         *)
DeviceStep == ~UNCHANGED <<video_capture, buffer, stream, deviceRate>>

SerialExclusiveDevice == [][(DeviceStep /\ ~overlapped) => capture = "none"]_vars

(* The capture thread never uses a capture object or an image buffer that  *)
(* is not there, as long as calls do not overlap: close and the destructor *)
(* join before they delete, also after a start that threw half way.  (The  *)
(* slots of the driver's buffers are V4l2MmapDevice's matter.)             *)
LoopUsesLiveObjects ==
  (capture \in InLoop /\ ~overlapped) => (video_capture = "live" /\ buffer = "live")

(* However calls overlapped before, once the destructor has joined no      *)
(* capture thread is left to use the object that is going away.            *)
NoThreadOutlives ==
  (object = "destroyed" /\ process = "alive" /\ \A c \in Callers : at[c] # "dtorJoin") =>
    capture = "none"

(* Without overlapping calls each way to end the program has its cause: a  *)
(* read or a restart that failed, a slot that a restart could not map, a   *)
(* device that could not be opened, a node that was missing; or the        *)
(* destructor, which deletes what an earlier close_acquisition has         *)
(* deleted.                                                                *)
EndingExplained ==
  ~overlapped =>
    /\ process = "terminated"    => "read" \in faults \/ "start" \in faults
    /\ process = "null pointer"  => "create" \in faults
    /\ process = "wild pointer"  => "stat" \in faults
    /\ process = "freed pointer" => object = "destroyed"
    /\ process = "bad mapping"   => "mmap" \in faults

(* No call ends the program: a failed read, for one, should reach the      *)
(* caller as an exception of the camera.                                   *)
NeverTerminated == process # "terminated"

(* The promises below are those of a camera whose calls neither fail nor   *)
(* overlap.                                                                *)
Healthy == process = "alive" /\ faults = {} /\ ~overlapped

(* m_running is what is_running reports and what makes a filter's Init     *)
(* skip start_acquisition: between two calls it must mean that the capture *)
(* thread is there to deliver frames.                                      *)
RunningMeansCapturing ==
  (Healthy /\ Idle /\ m_running) => capture \in InLoop

(* Between two calls, a camera that captures does it at the rate that      *)
(* max_framerate reports: the driver, the queue and the timer were given   *)
(* it last.  (A rate of 0 leaves the driver alone; which rate the driver   *)
(* makes of the one it is given is not told, and the code does not ask.)   *)
RatesAgree ==
  (Healthy /\ Idle /\ capture \in InLoop) =>
    /\ queueRate = m_max_framerate /\ timerRate = m_max_framerate
    /\ m_max_framerate > 0 => deviceRate = m_max_framerate

(* What the capture thread queues is what the camera took, also right      *)
(* after the stream was stopped and started for a new rate.                *)
QueuesOnlyImages == (Healthy /\ capture = "push") => frame = "image"

(* While its calls neither fail nor overlap, the object is the camera of   *)
(* Camera.tla: it captures while its capture thread is in the loop.        *)
Phase ==
  CASE ~Healthy                                  -> "broken"
    [] Healthy /\ video_capture = "unset"        -> "unopened"
    [] Healthy /\ video_capture = "deleted"      -> "closed"
    [] Healthy /\ video_capture = "live" /\ capture \in InLoop    -> "on"
    [] Healthy /\ video_capture = "live" /\ capture \notin InLoop -> "off"

Promised == INSTANCE Camera
              WITH phase <- Phase,
                   wanted <- IF Healthy THEN m_max_framerate ELSE NoRate,
                   rate <- IF Healthy THEN deviceRate ELSE NoRate

ImplementsCamera == Promised!Spec

(* Every call that begins comes to its end: the capture thread always      *)
(* returns to be joined.                                                   *)
CallsComplete ==
  \A c \in Callers : (Healthy /\ at[c] # "idle") ~> (at[c] = "idle" \/ ~Healthy)
=============================================================================
