------------------------------- MODULE Registry -------------------------------
(***************************************************************************)
(* The filters of sources/main.cpp and the registry through which they     *)
(* find the camera of an index (sources/webcamera_manager.cpp).            *)
(*                                                                         *)
(* A camera object is shared: the registry has a shared_ptr to it, every   *)
(* filter that has been initialised keeps one in m_camera, and an Invoke   *)
(* holds one while it uses the camera.  Whoever lets the last one go runs  *)
(* the destructor.  The registry has no lock, and looking a camera up and  *)
(* registering it, closing it and removing it, testing is_running and      *)
(* starting it are steps of their own.                                     *)
(*                                                                         *)
(* set_max_framerate, set_exposure and close_acquisition are one step      *)
(* each: what their statements do when they overlap on one camera is the   *)
(* subject of WebCamera.tla and Exposure.tla.  Nothing is modelled after a *)
(* misuse of a pointer.                                                    *)
(***************************************************************************)
EXTENDS Integers

CONSTANTS
  Inputs,     \* StartAcquisition and GrabImage filters, which keep an m_camera
  Settings,   \* SetFrameRateLimit, SetExposure and the Get filters
  Closers,    \* CloseAcquisition filters
  Indices,    \* camera indices
  Cameras,    \* the camera objects there is memory for
  None,       \* a shared_ptr without an object, an index not read yet
  FaultModes  \* sets of what may fail: {} is the healthy computer

Filters == Inputs \cup Settings \cup Closers

ASSUME RegistryAssumption ==
  /\ Inputs \cap Settings = {} /\ Inputs \cap Closers = {} /\ Settings \cap Closers = {}
  /\ None \notin Cameras \cup Indices
  /\ FaultModes \subseteq SUBSET {"stat", "create"}

VARIABLES
  faults,          \* what may fail in this behaviour
  devices,         \* the registry: the camera of each index
  m_camera_index,  \* of each filter
  m_camera,        \* of each input filter
  cam,             \* the camera an Invoke holds: cam, or dev
  at,              \* the statement each filter is at
  ready,           \* the filters whose last Init returned INIT_OK
  index,           \* camera_index() of each camera
  m_running,       \* the cameras whose m_running is set
  video_capture,   \* what the pointer of each camera refers to
  process,         \* "alive", or the misuse that ended the program
  overlapped,      \* history: the indices on which two calls were under way at once
  clashed          \* history: those on which an Init and a CloseAcquisition were

pointers    == <<devices, m_camera, cam>>
cameraVars  == <<index, m_running, video_capture>>
historyVars == <<overlapped, clashed>>
vars == <<faults, pointers, m_camera_index, at, ready, cameraVars, process, historyVars>>

(* CloseAcquisition has no read_inputs: its m_camera_index is whatever was *)
(* in its memory.                                                          *)
Init ==
  /\ faults \in FaultModes
  /\ devices = [i \in Indices |-> None]
  /\ \E left \in [Closers -> Indices] :
       m_camera_index = [f \in Filters |-> IF f \in Closers THEN left[f] ELSE None]
  /\ m_camera = [f \in Inputs |-> None]
  /\ cam = [f \in Filters |-> None]
  /\ at = [f \in Filters |-> "idle"]
  /\ ready = {}
  /\ index = [k \in Cameras |-> None]
  /\ m_running = {}
  /\ video_capture = [k \in Cameras |-> "unset"]
  /\ process = "alive"
  /\ overlapped = {} /\ clashed = {}

Goto(f, from, to) ==
  /\ process = "alive"
  /\ at[f] = from
  /\ at' = [at EXCEPT ![f] = to]

(* A call that looks for the camera of index i begins.                     *)
Begin(f, i) ==
  LET others == {g \in Filters \ {f} : at[g] # "idle" /\ m_camera_index[g] = i}
  IN /\ overlapped' = overlapped \cup {j \in {i} : others # {}}
     /\ clashed' = clashed \cup {j \in {i} : \/ f \in Inputs /\ others \cap Closers # {}
                                             \/ f \in Closers /\ others \cap Inputs # {}}

(* The cameras that exist: those a shared_ptr refers to.                   *)
Existing ==
  {k \in Cameras : \/ \E i \in Indices : devices[i] = k
                   \/ \E f \in Inputs : m_camera[f] = k
                   \/ \E f \in Filters : cam[f] = k}

(* Using the capture object of k ends the program unless it is there; so   *)
(* does deleting it, unless a pointer that was never set happens to be     *)
(* null.                                                                   *)
Misuse(k) == IF video_capture[k] = "deleted" THEN "freed pointer" ELSE "wild pointer"

Delete(k) ==
  \/ video_capture[k] \in {"live", "unset"} /\ UNCHANGED process
  \/ video_capture[k] # "live" /\ process' = Misuse(k)

(* The end of every step that lets a shared_ptr go: ~WebCamera for the     *)
(* cameras nothing refers to any more, which closes them.  newIndex has    *)
(* the index of a camera that the step makes.                              *)
LetGo(newIndex) ==
  LET lost == Existing \ Existing'
  IN /\ index' = [k \in Cameras |-> IF k \in lost THEN None ELSE newIndex[k]]
     /\ m_running' = m_running \ lost
     /\ video_capture' = [k \in Cameras |-> IF k \in lost THEN "unset" ELSE video_capture[k]]
     /\ IF lost = {} THEN UNCHANGED process ELSE \E k \in lost : Delete(k)

-----------------------------------------------------------------------------
(* Init of an input filter *)

(* Faulty: a camera the filter already has is kept. *)
FindDeviceKeepsOld(f, i) ==
  /\ Goto(f, "idle", "init")
  /\ devices[i] # None
  /\ m_camera_index' = [m_camera_index EXCEPT ![f] = i]
  /\ m_camera' = [m_camera EXCEPT ![f] = IF @ = None THEN devices[i] ELSE @]
  /\ ready' = ready \ {f}
  /\ Begin(f, i)
  /\ UNCHANGED <<devices, cam>>
  /\ LetGo(index)

(* read_inputs, then get_or_make_device when the registry has the camera.  *)
FindDevice(f, i) ==
  /\ Goto(f, "idle", "init")
  /\ devices[i] # None
  /\ m_camera_index' = [m_camera_index EXCEPT ![f] = i]
  /\ m_camera' = [m_camera EXCEPT ![f] = devices[i]]
  /\ ready' = ready \ {f}
  /\ Begin(f, i)
  /\ UNCHANGED <<devices, cam>>
  /\ LetGo(index)

(* ... and when it has none: make_shared.  The camera's pointers have no   *)
(* value yet.                                                              *)
MakeDevice(f, i) ==
  /\ Goto(f, "idle", "add")
  /\ devices[i] = None
  /\ m_camera_index' = [m_camera_index EXCEPT ![f] = i]
  /\ ready' = ready \ {f}
  /\ Begin(f, i)
  /\ UNCHANGED <<devices, cam>>
  /\ \E k \in Cameras \ Existing :
       /\ m_camera' = [m_camera EXCEPT ![f] = k]
       /\ LetGo([index EXCEPT ![k] = i])

(* add_device looks whether another filter was faster, and throws out of   *)
(* Init when it was: the filter is not ready, and keeps the camera it has  *)
(* made.                                                                   *)
AddDeviceTest(f) ==
  /\ \/ Goto(f, "add", "assign") /\ devices[m_camera_index[f]] = None
     \/ Goto(f, "add", "idle") /\ devices[m_camera_index[f]] # None
  /\ UNCHANGED <<pointers, m_camera_index, ready, cameraVars, process, historyVars>>

(* ... and registers it, in the place of one that another filter has       *)
(* registered in between.                                                  *)
AddDevice(f) ==
  /\ Goto(f, "assign", "init")
  /\ devices' = [devices EXCEPT ![m_camera_index[f]] = m_camera[f]]
  /\ UNCHANGED <<m_camera, cam, m_camera_index, ready, historyVars>>
  /\ LetGo(index)

(* Faulty: the camera is started again. *)
FilterInitAlways(f) ==
  /\ Goto(f, "init", "start")
  /\ UNCHANGED <<pointers, m_camera_index, ready, cameraVars, process, historyVars>>

(* if (!m_camera->is_running()) m_camera->start_acquisition(); INIT_OK     *)
FilterInit(f) ==
  /\ \/ m_camera[f] \notin m_running /\ Goto(f, "init", "start") /\ UNCHANGED ready
     \/ m_camera[f] \in m_running /\ Goto(f, "init", "idle") /\ ready' = ready \cup {f}
  /\ UNCHANGED <<pointers, m_camera_index, cameraVars, process, historyVars>>

(* start_acquisition sets m_running before it looks for the device node.   *)
(* Without one Init catches the exception and returns INIT_PROBLEM.        *)
MarkRunning(f) ==
  /\ \/ Goto(f, "start", "open")
     \/ "stat" \in faults /\ Goto(f, "start", "idle")
  /\ m_running' = m_running \cup {m_camera[f]}
  /\ UNCHANGED <<pointers, m_camera_index, ready, index, video_capture, process, historyVars>>

(* V4l2Capture::create; a device that another capture object streams from  *)
(* is busy.  Its null pointer is used at once.                             *)
Open(f) ==
  LET k == m_camera[f]
      busy == \E x \in Cameras : index[x] = index[k] /\ video_capture[x] = "live"
  IN /\ Goto(f, "open", "idle")
     /\ \/ /\ ~busy
           /\ video_capture' = [video_capture EXCEPT ![k] = "live"]
           /\ ready' = ready \cup {f}
           /\ UNCHANGED process
        \/ /\ busy \/ "create" \in faults
           /\ process' = "null pointer"
           /\ UNCHANGED <<video_capture, ready>>
     /\ UNCHANGED <<pointers, m_camera_index, index, m_running, historyVars>>

(* The host destroys an input filter and makes another in its place.       *)
Drop(f) ==
  /\ Goto(f, "idle", "idle")
  /\ m_camera' = [m_camera EXCEPT ![f] = None]
  /\ ready' = ready \ {f}
  /\ UNCHANGED <<devices, cam, m_camera_index, historyVars>>
  /\ LetGo(index)

-----------------------------------------------------------------------------
(* Invoke of the Set and Get filters *)

(* read_inputs and get_device.  A filter that finds nothing returns, and   *)
(* so does SetParameter, before it looks, for two of its ids.              *)
GetDevice(f, i) ==
  /\ m_camera_index' = [m_camera_index EXCEPT ![f] = i]
  /\ \/ /\ devices[i] # None /\ Goto(f, "idle", "use")
        /\ cam' = [cam EXCEPT ![f] = devices[i]]
        /\ Begin(f, i)
     \/ Goto(f, "idle", "idle") /\ UNCHANGED <<cam, historyVars>>
  /\ UNCHANGED <<devices, m_camera, ready, cameraVars, process>>

(* A changed rate or exposure goes to the capture object; an unchanged one *)
(* and the Get filters only read members.  Then cam goes out of scope.     *)
Use(f) ==
  /\ Goto(f, "use", "idle")
  /\ UNCHANGED <<devices, m_camera, m_camera_index, ready, historyVars>>
  /\ \/ cam' = [cam EXCEPT ![f] = None] /\ LetGo(index)
     \/ /\ video_capture[cam[f]] # "live"
        /\ process' = Misuse(cam[f])
        /\ UNCHANGED <<cam, cameraVars>>

-----------------------------------------------------------------------------
(* Invoke of CloseAcquisition: disconnect *)

GetDeviceToClose(f) ==
  LET i == m_camera_index[f]
  IN /\ Goto(f, "idle", "close")
     /\ devices[i] # None
     /\ cam' = [cam EXCEPT ![f] = devices[i]]
     /\ Begin(f, i)
     /\ UNCHANGED <<devices, m_camera, m_camera_index, ready, cameraVars, process>>

(* close_acquisition leaves the pointer as it is.                          *)
CloseAcquisition(f) ==
  LET k == cam[f]
  IN /\ Goto(f, "close", "remove")
     /\ m_running' = m_running \ {k}
     /\ video_capture' = [video_capture EXCEPT ![k] = IF @ = "live" THEN "deleted" ELSE @]
     /\ Delete(k)
     /\ UNCHANGED <<pointers, m_camera_index, ready, index, historyVars>>

(* Faulty: remove_device left out. *)
KeepDevice(f) ==
  /\ Goto(f, "remove", "idle")
  /\ cam' = [cam EXCEPT ![f] = None]
  /\ UNCHANGED <<devices, m_camera, m_camera_index, ready, historyVars>>
  /\ LetGo(index)

(* remove_device, then dev goes out of scope. *)
RemoveDevice(f) ==
  /\ Goto(f, "remove", "idle")
  /\ devices' = [devices EXCEPT ![m_camera_index[f]] = None]
  /\ cam' = [cam EXCEPT ![f] = None]
  /\ UNCHANGED <<m_camera, m_camera_index, ready, historyVars>>
  /\ LetGo(index)

-----------------------------------------------------------------------------
InputStep(f) ==
  \/ \E i \in Indices : FindDevice(f, i) \/ MakeDevice(f, i)
  \/ AddDeviceTest(f) \/ AddDevice(f) \/ FilterInit(f) \/ MarkRunning(f) \/ Open(f) \/ Drop(f)

Next ==
  /\ UNCHANGED faults
  /\ \/ \E f \in Inputs : InputStep(f)
     \/ \E f \in Settings : (\E i \in Indices : GetDevice(f, i)) \/ Use(f)
     \/ \E f \in Closers : GetDeviceToClose(f) \/ CloseAcquisition(f) \/ RemoveDevice(f)

Spec == Init /\ [][Next]_vars

-----------------------------------------------------------------------------
(* Properties *)

(* The types of the variables; a camera has an index as long as it exists, *)
(* and an Invoke holds one only while it runs.                             *)
TypeOK ==
  /\ faults \in FaultModes
  /\ devices \in [Indices -> Cameras \cup {None}]
  /\ m_camera_index \in [Filters -> Indices \cup {None}]
  /\ m_camera \in [Inputs -> Cameras \cup {None}]
  /\ cam \in [Filters -> Cameras \cup {None}]
  /\ at \in [Filters ->
          {"idle", "add", "assign", "init", "start", "open", "use", "close", "remove"}]
  /\ process = "alive" =>
       \A f \in Filters : cam[f] # None <=> at[f] \in {"use", "close", "remove"}
  /\ ready \subseteq Inputs
  /\ index \in [Cameras -> Indices \cup {None}]
  /\ \A k \in Cameras : index[k] # None <=> k \in Existing
  /\ m_running \subseteq Cameras
  /\ video_capture \in [Cameras -> {"unset", "live", "deleted"}]
  /\ process \in {"alive", "wild pointer", "null pointer", "freed pointer"}
  /\ overlapped \subseteq Indices /\ clashed \subseteq overlapped

(* A camera that has the device is the one that the registry gives to the  *)
(* filters of its index, so that CloseAcquisition can reach it.  When      *)
(* Inits cross and the later one replaces the registered camera, its own   *)
(* start is still under way (it will find the device busy, and end the     *)
(* program, unless a device node is missing).  Else only a                 *)
(* CloseAcquisition during an Init of the same index breaks this.          *)
LiveIsRegistered ==
  \A k \in Cameras :
    process = "alive" /\ video_capture[k] = "live" =>
      LET i == index[k] IN
        \/ devices[i] = k
        \/ \E f \in Inputs : m_camera[f] = devices[i] /\ at[f] \in {"init", "start", "open"}
        \/ "stat" \in faults /\ i \in overlapped
        \/ i \in clashed

(* A filter whose Init returned INIT_OK has a camera of its index, and a   *)
(* camera that has been opened, unless a device node was missing (which    *)
(* leaves m_running set) or another filter is still opening it.            *)
ReadyHasCamera ==
  \A f \in ready :
    process = "alive" =>
      /\ m_camera[f] # None
      /\ index[m_camera[f]] = m_camera_index[f]
      /\ \/ video_capture[m_camera[f]] # "unset"
         \/ "stat" \in faults
         \/ \E g \in Inputs \ {f} : m_camera[g] = m_camera[f] /\ at[g] = "open"

(* As long as no device node is missing: whichever calls have crossed,     *)
(* when none for its index is under way a registered camera is open.  What *)
(* the Set and Get filters find can be used.                               *)
FoundIsOpen ==
  \A i \in Indices :
    /\ process = "alive" /\ "stat" \notin faults
    /\ \A f \in Filters : m_camera_index[f] = i => at[f] = "idle"
    /\ devices[i] # None
    => video_capture[devices[i]] = "live"

(* The program uses a pointer that was never set, or a null one, only if   *)
(* opening a device has failed or calls have overlapped: not because of    *)
(* the order in which the filters of several indices follow each other.    *)
MisuseExplained ==
  /\ process = "wild pointer" => "stat" \in faults \/ overlapped # {}
  /\ process = "null pointer" => "create" \in faults \/ overlapped # {}

(* While calls do not overlap, freed memory is only misused by the         *)
(* destructor of a camera that was closed: whatever fails, no Set or Get   *)
(* filter and no second CloseAcquisition finds a closed camera.            *)
FreedByDestructor ==
  [][(process # "freed pointer" /\ process' = "freed pointer" /\ overlapped' = {}) =>
       \E k \in Existing \ Existing' : video_capture[k] = "deleted"]_vars

(* "Closes acquisition of V4L webcamera": the program can go on after a    *)
(* CloseAcquisition, whoever lets the camera go later.                     *)
CloseIsClean == process # "freed pointer"
=============================================================================
