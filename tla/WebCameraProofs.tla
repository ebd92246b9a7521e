--------------------------- MODULE WebCameraProofs ---------------------------
(***************************************************************************)
(* Proofs about WebCamera, for any number of callers, any rates and any    *)
(* faults: what clearing m_running and joining protects as long as calls   *)
(* do not overlap, and what the destructor's join protects in any case.    *)
(***************************************************************************)
EXTENDS WebCamera, TLAPS

(* The statements that clear m_running, or find it cleared, come before    *)
(* the join; those that count on it come after.                            *)
Joining == {"rateJoin", "closeJoin", "dtorJoin"}
Quiet ==
  {"start", "create", "check", "spawn", "rateStop", "rateSet", "rateStart",
   "rateRun", "closeDelete", "closeRemove", "dtorDelete"}

(* The destructor runs when nobody else does, and nothing begins after it. *)
DestroyedInv ==
  object = "destroyed" =>
    /\ \A c \in Callers : at[c] \in {"idle", "dtorJoin", "dtorDelete"}
    /\ capture = "none" \/ \E c \in Callers : at[c] = "dtorJoin"

OneCall == \A c, d \in Callers : (at[c] # "idle" /\ at[d] # "idle") => c = d

(* What a call that is alone knows at each of its statements. *)
CallerInv(c) ==
  /\ at[c] \in Joining => ~m_running
  /\ at[c] \in Quiet => capture = "none"
  /\ at[c] \in {"create", "check", "spawn"} => m_running
  /\ (process = "alive" /\ at[c] \in {"rateSet", "rateStart", "rateRun"}) =>
       video_capture = "live"
  /\ (process = "alive" /\ at[c] = "spawn") => (video_capture = "live" /\ buffer = "live")

(* A thread that is not being joined shows in m_running, and an image      *)
(* buffer comes with the capture object.                                   *)
ObjectInv ==
  /\ capture \in InLoop => (video_capture = "live" /\ buffer = "live")
  /\ (process = "alive" /\ ~m_running /\ \A c \in Callers : at[c] \notin Joining) =>
       capture = "none"
  /\ (process = "alive" /\ video_capture = "live" /\ \A c \in Callers : at[c] # "check") =>
       buffer = "live"

SerialInv == ~overlapped => (OneCall /\ (\A c \in Callers : CallerInv(c)) /\ ObjectInv)

(* The phases of a healthy camera: made but not started; capturing; told   *)
(* to stop; joined, with a device that streams, is stopped, or streams     *)
(* again; and closed.                                                      *)
Fresh   == /\ ~m_running /\ capture = "none" /\ video_capture = "unset" /\ stream = "off"
           /\ queueRate = m_max_framerate
Open    == video_capture = "live" /\ stream = "on" /\ (capture = "push" => frame = "image")
DeviceAgrees == m_max_framerate > 0 => deviceRate = m_max_framerate
AllAgree == DeviceAgrees /\ queueRate = m_max_framerate /\ timerRate = m_max_framerate
Running == m_running /\ capture \in InLoop /\ Open /\ AllAgree
Leaving == ~m_running /\ capture \in InLoop \cup {"none", "exited"} /\ Open
Joined  == capture = "none" /\ video_capture = "live"
Closed  == ~m_running /\ capture = "none" /\ video_capture = "deleted" /\ stream = "off"

(* Between two calls. *)
IdleInv ==
  \/ object = "absent" /\ Fresh
  \/ object = "registered" /\ Running
  \/ object \in {"removed", "destroyed"} /\ Closed

(* At each statement of a call. *)
At(c, location) == at[c] = location
HealthyCall(c) ==
  /\ at[c] \in {"make", "assign"} => object = "absent" /\ Fresh
  /\ At(c, "init")  => object = "registered" /\ (Fresh \/ Running)
  /\ At(c, "start") => object = "registered" /\ Fresh
  /\ At(c, "create") => /\ object = "registered" /\ m_running /\ capture = "none"
                        /\ video_capture = "unset" /\ stream = "off"
                        /\ queueRate = m_max_framerate
  /\ At(c, "check") => /\ object = "registered" /\ m_running /\ Joined /\ stream = "on"
                       /\ DeviceAgrees /\ queueRate = m_max_framerate
  /\ At(c, "spawn") => /\ object = "registered" /\ m_running /\ Joined /\ stream = "on"
                       /\ AllAgree
  /\ At(c, "rateStore") => /\ object = "registered" /\ Running
                           /\ new_max[c] \in Rates \ {m_max_framerate}
  /\ At(c, "rateClear") => /\ object = "registered" /\ m_running /\ capture \in InLoop /\ Open
  /\ At(c, "rateJoin") => object = "registered" /\ Leaving
  /\ At(c, "rateStop") => object = "registered" /\ ~m_running /\ Joined
  /\ At(c, "rateSet")  => object = "registered" /\ ~m_running /\ Joined /\ stream = "off"
  /\ At(c, "rateStart") => /\ object = "registered" /\ ~m_running /\ Joined /\ stream = "off"
                           /\ DeviceAgrees /\ queueRate = m_max_framerate
  /\ At(c, "rateRun") => /\ object = "registered" /\ ~m_running /\ Joined /\ stream = "on"
                         /\ AllAgree
  /\ At(c, "closeJoin") => object = "registered" /\ Leaving
  /\ At(c, "closeDelete") => object = "registered" /\ ~m_running /\ Joined
  /\ At(c, "closeRemove") => object = "registered" /\ Closed
  /\ At(c, "dtorJoin") => object = "destroyed" /\ (Leaving \/ Closed)
  /\ At(c, "dtorDelete") => object = "destroyed" /\ ~m_running /\ (Joined \/ Closed)

HealthInv == Healthy => ((Idle => IdleInv) /\ \A c \in Callers : HealthyCall(c))

(* Why a pointer may not be live, whatever fails, between two calls and at *)
(* each statement of one.                                                  *)
Made == video_capture = "live" \/ (video_capture = "unset" /\ "stat" \in faults)
Unmade == video_capture = "deleted" \/ (video_capture = "unset" /\ "stat" \in faults)
CauseIdle ==
  \/ object = "absent" /\ video_capture = "unset" /\ ~m_running
  \/ object = "registered" /\ m_running /\ Made
  \/ object = "removed" /\ Unmade
  \/ object = "destroyed"
CauseCall(c) ==
  /\ at[c] \in {"make", "assign"} => object = "absent" /\ video_capture = "unset" /\ ~m_running
  /\ At(c, "init") => /\ object = "registered"
                      /\ IF m_running THEN Made ELSE video_capture = "unset"
  /\ at[c] \in {"start", "create"} => object = "registered" /\ video_capture = "unset"
  /\ At(c, "check") => /\ object = "registered"
                       /\ \/ video_capture = "live"
                          \/ video_capture = "null" /\ "create" \in faults
  /\ at[c] \in {"spawn", "rateSet", "rateStart", "rateRun"} => object = "registered"
  /\ at[c] \in {"rateStore", "rateClear"} => object = "registered" /\ m_running /\ Made
  /\ at[c] \in {"rateJoin", "rateStop", "closeJoin", "closeDelete"} =>
       object = "registered" /\ Made
  /\ At(c, "closeRemove") => object = "registered" /\ Unmade
  /\ at[c] \in {"dtorJoin", "dtorDelete"} =>
       object = "destroyed" /\ (Made \/ Unmade)
CauseData ==
  /\ stream = "mapped" => "start" \in faults
  /\ stream = "holed" => "mmap" \in faults
  /\ capture = "failed" => "read" \in faults \/ "start" \in faults
  /\ video_capture = "unset" => stream = "off" /\ buffer = "unset"
  /\ buffer = "deleted" => video_capture = "deleted"

CauseInv ==
  ~overlapped =>
    /\ EndingExplained /\ CauseData
    /\ process = "alive" => (Idle => CauseIdle) /\ \A c \in Callers : CauseCall(c)

(* The strengthened invariant. *)
IInv == TypeOK /\ DestroyedInv /\ SerialInv /\ HealthInv /\ CauseInv

(* A camera nobody has called yet. *)
LEMMA InitInv ==
  ASSUME Init
  PROVE  IInv
<1>1. TypeOK
  BY WebCameraAssumption DEF Init, TypeOK, CallerLocations, InLoop, Streams, NoRate
<1>2. DestroyedInv
  BY DEF Init, DestroyedInv
<1>3. SerialInv
  BY DEF Init, SerialInv, OneCall, CallerInv, ObjectInv, Quiet, InLoop
<1>4. HealthInv
  BY DEF Init, HealthInv, HealthyCall, At, Idle, IdleInv, Fresh
<1>5. CauseInv
  BY DEF Init, CauseInv, EndingExplained, CauseData, CauseIdle, CauseCall, At, Idle
<1> QED
  BY <1>1, <1>2, <1>3, <1>4, <1>5 DEF IInv

(* What Begin adds to the call that begins. *)
Begun(c) ==
  /\ overlapped' = (overlapped \/ \E d \in Callers \ {c} : at[d] # "idle")
  /\ UNCHANGED faults

(* Each step keeps the types. *)
LEMMA TypeStep ==
  ASSUME TypeOK, [Next]_vars
  PROVE  TypeOK'
<1> USE DEF TypeOK, pointers, rates
<1>1. CASE UNCHANGED vars
  <2>1. m_running' \in BOOLEAN /\ overlapped' \in BOOLEAN
    BY <1>1 DEF vars
  <2> QED
    BY <1>1, <2>1, ZenonT(60) DEF vars
<1>2. CASE LoopTest /\ UNCHANGED <<faults, new_max, overlapped>>
  BY <1>2 DEF LoopTest, CaptureGoto, InLoop
<1>3. CASE Select /\ UNCHANGED <<faults, new_max, overlapped>>
  BY <1>3 DEF Select, CaptureGoto, Misuse, InLoop
<1>4. CASE Read /\ UNCHANGED <<faults, new_max, overlapped>>
  BY <1>4 DEF Read, CaptureGoto, Misuse, InLoop
<1>5. CASE PushFrame /\ UNCHANGED <<faults, new_max, overlapped>>
  BY <1>5 DEF PushFrame, CaptureGoto, InLoop
<1>6. CASE ReadFailed /\ UNCHANGED <<faults, new_max, overlapped>>
  BY <1>6 DEF ReadFailed, CaptureGoto, InLoop
<1>7. ASSUME NEW c \in Callers, GetDevice(c), Begun(c), UNCHANGED new_max
      PROVE  TypeOK'
  <2>1. at' \in [Callers -> CallerLocations]
    BY <1>7 DEF GetDevice, Goto, CallerLocations
  <2>2. m_running' \in BOOLEAN /\ overlapped' \in BOOLEAN
    BY <1>7 DEF GetDevice, Begun
  <2>3. UNCHANGED <<faults, new_max, object, process, capture, frame, video_capture, buffer, stream,
                    m_max_framerate, deviceRate, queueRate, timerRate>>
    BY <1>7 DEF GetDevice, Begun
  <2> QED
    BY <2>1, <2>2, <2>3, ZenonT(60)
<1>8. ASSUME NEW c \in Callers, ChangeRate(c), Begun(c)
      PROVE  TypeOK'
  <2>1. at' \in [Callers -> CallerLocations]
    BY <1>8 DEF ChangeRate, Goto, CallerLocations
  <2>2. m_running' \in BOOLEAN /\ overlapped' \in BOOLEAN
    BY <1>8 DEF ChangeRate, Begun
  <2> QED
    BY <1>8, <2>1, <2>2, WebCameraAssumption DEF ChangeRate, Begun
<1>9. ASSUME NEW c \in Callers, Close(c), Begun(c), UNCHANGED new_max
      PROVE  TypeOK'
  <2>1. at' \in [Callers -> CallerLocations]
    BY <1>9 DEF Close, Goto, CallerLocations
  <2>2. m_running' \in BOOLEAN /\ overlapped' \in BOOLEAN
    BY <1>9 DEF Close, Begun
  <2> QED
    BY <1>9, <2>1, <2>2 DEF Close, Begun
<1>10. ASSUME NEW c \in Callers, Destroy(c), Begun(c), UNCHANGED new_max
      PROVE  TypeOK'
  <2>1. at' \in [Callers -> CallerLocations]
    BY <1>10 DEF Destroy, Goto, CallerLocations
  <2>2. m_running' \in BOOLEAN /\ overlapped' \in BOOLEAN
    BY <1>10 DEF Destroy, Begun
  <2> QED
    BY <1>10, <2>1, <2>2 DEF Destroy, Begun
<1>11. ASSUME NEW c \in Callers, AddDevice(c), UNCHANGED <<faults, new_max, overlapped>>
      PROVE  TypeOK'
  <2>1. at' \in [Callers -> CallerLocations]
    BY <1>11 DEF AddDevice, Goto, CallerLocations
  <2>2. m_running' \in BOOLEAN /\ overlapped' \in BOOLEAN
    BY <1>11 DEF AddDevice
  <2> QED
    BY <1>11, <2>1, <2>2, ZenonT(60) DEF AddDevice
<1>12. ASSUME NEW c \in Callers, FilterInit(c), UNCHANGED <<faults, new_max, overlapped>>
      PROVE  TypeOK'
  <2>1. at' \in [Callers -> CallerLocations]
    BY <1>12 DEF FilterInit, Goto, CallerLocations
  <2>2. m_running' \in BOOLEAN /\ overlapped' \in BOOLEAN
    BY <1>12 DEF FilterInit
  <2> QED
    BY <1>12, <2>1, <2>2, ZenonT(60) DEF FilterInit
<1>13. ASSUME NEW c \in Callers, MarkRunning(c), UNCHANGED <<faults, new_max, overlapped>>
      PROVE  TypeOK'
  <2>1. at' \in [Callers -> CallerLocations]
    BY <1>13 DEF MarkRunning, Goto, CallerLocations
  <2>2. m_running' \in BOOLEAN /\ overlapped' \in BOOLEAN
    BY <1>13 DEF MarkRunning
  <2> QED
    BY <1>13, <2>1, <2>2, ZenonT(60) DEF MarkRunning
<1>14. ASSUME NEW c \in Callers, CreateCapture(c), UNCHANGED <<faults, new_max, overlapped>>
      PROVE  TypeOK'
  <2>1. at' \in [Callers -> CallerLocations]
    BY <1>14 DEF CreateCapture, Goto, CallerLocations
  <2>2. m_running' \in BOOLEAN /\ overlapped' \in BOOLEAN
    BY <1>14 DEF CreateCapture
  <2> QED
    BY <1>14, <2>1, <2>2, ZenonT(60) DEF CreateCapture, Streams
<1>15. ASSUME NEW c \in Callers, AllocateBuffer(c), UNCHANGED <<faults, new_max, overlapped>>
      PROVE  TypeOK'
  <2>1. at' \in [Callers -> CallerLocations]
    BY <1>15 DEF AllocateBuffer, Goto, CallerLocations
  <2>2. m_running' \in BOOLEAN /\ overlapped' \in BOOLEAN
    BY <1>15 DEF AllocateBuffer
  <2> QED
    BY <1>15, <2>1, <2>2 DEF AllocateBuffer, Misuse
<1>16. ASSUME NEW c \in Callers, SpawnCapture(c), UNCHANGED <<faults, new_max, overlapped>>
      PROVE  TypeOK'
  <2>1. at' \in [Callers -> CallerLocations]
    BY <1>16 DEF SpawnCapture, Goto, CallerLocations
  <2>2. m_running' \in BOOLEAN /\ overlapped' \in BOOLEAN
    BY <1>16 DEF SpawnCapture
  <2>3. capture' \in {capture, "test"} /\ process' \in {process, "terminated"}
    BY <1>16 DEF SpawnCapture
  <2> QED
    BY <1>16, <2>1, <2>2, <2>3, ZenonT(60) DEF SpawnCapture, InLoop
<1>17. ASSUME NEW c \in Callers, JoinCapture(c), UNCHANGED <<faults, new_max, overlapped>>
      PROVE  TypeOK'
  <2>1. at' \in [Callers -> CallerLocations]
    BY <1>17 DEF JoinCapture, Goto, CallerLocations
  <2>2. m_running' \in BOOLEAN /\ overlapped' \in BOOLEAN
    BY <1>17 DEF JoinCapture
  <2> QED
    BY <1>17, <2>1, <2>2 DEF JoinCapture
<1>18. ASSUME NEW c \in Callers, RateStop(c), UNCHANGED <<faults, new_max, overlapped>>
      PROVE  TypeOK'
  <2>1. at' \in [Callers -> CallerLocations]
    BY <1>18 DEF RateStop, Goto, CallerLocations
  <2>2. m_running' \in BOOLEAN /\ overlapped' \in BOOLEAN
    BY <1>18 DEF RateStop
  <2> QED
    BY <1>18, <2>1, <2>2, ZenonT(60) DEF RateStop, Misuse, Streams
<1>19. ASSUME NEW c \in Callers, RateSet(c), UNCHANGED <<faults, new_max, overlapped>>
      PROVE  TypeOK'
  <2>1. at' \in [Callers -> CallerLocations]
    BY <1>19 DEF RateSet, Goto, CallerLocations
  <2>2. m_running' \in BOOLEAN /\ overlapped' \in BOOLEAN
    BY <1>19 DEF RateSet
  <2> QED
    BY <1>19, <2>1, <2>2, ZenonT(60) DEF RateSet, Misuse
<1>20. ASSUME NEW c \in Callers, RateStart(c), UNCHANGED <<faults, new_max, overlapped>>
      PROVE  TypeOK'
  <2>1. at' \in [Callers -> CallerLocations]
    BY <1>20 DEF RateStart, Goto, CallerLocations
  <2>2. m_running' \in BOOLEAN /\ overlapped' \in BOOLEAN
    BY <1>20 DEF RateStart
  <2> QED
    BY <1>20, <2>1, <2>2, ZenonT(60) DEF RateStart, Misuse, Streams
<1>21. ASSUME NEW c \in Callers, RateRun(c), UNCHANGED <<faults, new_max, overlapped>>
      PROVE  TypeOK'
  <2>1. at' \in [Callers -> CallerLocations]
    BY <1>21 DEF RateRun, Goto, CallerLocations
  <2>2. m_running' \in BOOLEAN /\ overlapped' \in BOOLEAN
    BY <1>21 DEF RateRun
  <2> QED
    BY <1>21, <2>1, <2>2, ZenonT(60) DEF RateRun
<1>22. ASSUME NEW c \in Callers, DeletePointers(c), UNCHANGED <<faults, new_max, overlapped>>
      PROVE  TypeOK'
  <2>1. at' \in [Callers -> CallerLocations]
    BY <1>22 DEF DeletePointers, Goto, CallerLocations
  <2>2. m_running' \in BOOLEAN /\ overlapped' \in BOOLEAN
    BY <1>22 DEF DeletePointers
  <2>3. /\ video_capture' \in {video_capture, "deleted"} /\ buffer' \in {buffer, "deleted"}
        /\ stream' \in {stream, "off"}
        /\ process' \in {process, "wild pointer", "null pointer", "freed pointer"}
    BY <1>22 DEF DeletePointers, Misuse
  <2>4. /\ video_capture' \in {"unset", "null", "live", "deleted"}
        /\ buffer' \in {"unset", "live", "deleted"} /\ stream' \in Streams
        /\ process' \in {"alive", "terminated", "wild pointer", "null pointer", "freed pointer", "bad mapping"}
    <3>1. /\ video_capture \in {"unset", "null", "live", "deleted"}
          /\ buffer \in {"unset", "live", "deleted"} /\ stream \in Streams
          /\ process \in {"alive", "terminated", "wild pointer", "null pointer", "freed pointer", "bad mapping"}
      OBVIOUS
    <3> QED
      BY ONLY <2>3, <3>1 DEF Streams
  <2>5. UNCHANGED <<faults, new_max, object, capture, frame,
                    m_max_framerate, deviceRate, queueRate, timerRate>>
    BY <1>22 DEF DeletePointers
  <2> QED
    BY <2>1, <2>2, <2>4, <2>5, ZenonT(60)
<1>23. ASSUME NEW c \in Callers, RemoveDevice(c), UNCHANGED <<faults, new_max, overlapped>>
      PROVE  TypeOK'
  <2>1. at' \in [Callers -> CallerLocations]
    BY <1>23 DEF RemoveDevice, Goto, CallerLocations
  <2>2. m_running' \in BOOLEAN /\ overlapped' \in BOOLEAN
    BY <1>23 DEF RemoveDevice
  <2> QED
    BY <1>23, <2>1, <2>2 DEF RemoveDevice
<1>24. ASSUME NEW c \in Callers, AddDeviceTest(c), UNCHANGED <<faults, new_max, overlapped>>
      PROVE  TypeOK'
  <2>1. at' \in [Callers -> CallerLocations]
    BY <1>24 DEF AddDeviceTest, Goto, CallerLocations
  <2>2. m_running' \in BOOLEAN /\ overlapped' \in BOOLEAN
    BY <1>24 DEF AddDeviceTest
  <2> QED
    BY <1>24, <2>1, <2>2, ZenonT(60) DEF AddDeviceTest
<1>25. ASSUME NEW c \in Callers, StoreRate(c), UNCHANGED <<faults, overlapped>>
      PROVE  TypeOK'
  <2>1. at' \in [Callers -> CallerLocations]
    BY <1>25 DEF StoreRate, Goto, CallerLocations
  <2>2. m_running' \in BOOLEAN /\ overlapped' \in BOOLEAN
    BY <1>25 DEF StoreRate
  <2>3. m_max_framerate' \in Nat /\ new_max' \in [Callers -> Rates \cup {NoRate}]
    <3>1. new_max \in [Callers -> Rates \cup {0}] /\ new_max[c] \in Rates \cup {0}
      BY ZenonT(60) DEF NoRate
    <3>2. m_max_framerate' = new_max[c] /\ new_max' = [new_max EXCEPT ![c] = 0]
      BY <1>25 DEF StoreRate, NoRate
    <3>3. m_max_framerate' \in Nat
      BY ONLY <3>1, <3>2, WebCameraAssumption
    <3>4. new_max' \in [Callers -> Rates \cup {0}]
      BY ONLY <3>1, <3>2
    <3> QED
      BY <3>3, <3>4 DEF NoRate
  <2> QED
    BY <1>25, <2>1, <2>2, <2>3, ZenonT(60) DEF StoreRate
<1>26. ASSUME NEW c \in Callers, ClearRunning(c), UNCHANGED <<faults, new_max, overlapped>>
      PROVE  TypeOK'
  <2>1. at' \in [Callers -> CallerLocations]
    BY <1>26 DEF ClearRunning, Goto, CallerLocations
  <2>2. m_running' \in BOOLEAN /\ overlapped' \in BOOLEAN
    BY <1>26 DEF ClearRunning
  <2> QED
    BY <1>26, <2>1, <2>2, ZenonT(60) DEF ClearRunning
<1> QED
  BY <1>1, <1>2, <1>3, <1>4, <1>5, <1>6, <1>7, <1>8, <1>9, <1>10, <1>11,
     <1>12, <1>13, <1>14, <1>15, <1>16, <1>17, <1>18, <1>19, <1>20, <1>21, <1>22,
     <1>23, <1>24, <1>25, <1>26
  DEF Next, CaptureStep, Begin, Begun, Continue, Statement

(* Nothing but the destructor goes on, and its join leaves no thread.      *)
LEMMA DestroyedStep ==
  ASSUME IInv, [Next]_vars
  PROVE  DestroyedInv'
<1> USE DEF IInv, TypeOK, DestroyedInv, InLoop, Goto, pointers, rates
<1>1. CASE UNCHANGED vars
  BY <1>1 DEF vars
<1>2. CASE LoopTest /\ UNCHANGED <<faults, new_max, overlapped>>
  BY <1>2 DEF LoopTest, CaptureGoto
<1>3. CASE Select /\ UNCHANGED <<faults, new_max, overlapped>>
  BY <1>3 DEF Select, CaptureGoto, Misuse
<1>4. CASE Read /\ UNCHANGED <<faults, new_max, overlapped>>
  BY <1>4 DEF Read, CaptureGoto, Misuse
<1>5. CASE PushFrame /\ UNCHANGED <<faults, new_max, overlapped>>
  BY <1>5 DEF PushFrame, CaptureGoto
<1>6. CASE ReadFailed /\ UNCHANGED <<faults, new_max, overlapped>>
  BY <1>6 DEF ReadFailed, CaptureGoto
<1>7. ASSUME NEW c \in Callers, GetDevice(c), Begun(c), UNCHANGED new_max
      PROVE  DestroyedInv'
  BY <1>7 DEF GetDevice, Begun
<1>8. ASSUME NEW c \in Callers, ChangeRate(c), Begun(c)
      PROVE  DestroyedInv'
  BY <1>8 DEF ChangeRate, Begun
<1>9. ASSUME NEW c \in Callers, Close(c), Begun(c), UNCHANGED new_max
      PROVE  DestroyedInv'
  BY <1>9 DEF Close, Begun
<1>10. ASSUME NEW c \in Callers, Destroy(c), Begun(c), UNCHANGED new_max
      PROVE  DestroyedInv'
  BY <1>10 DEF Destroy, Begun
<1>11. ASSUME NEW c \in Callers, AddDevice(c), UNCHANGED <<faults, new_max, overlapped>>
      PROVE  DestroyedInv'
  BY <1>11 DEF AddDevice
<1>12. ASSUME NEW c \in Callers, FilterInit(c), UNCHANGED <<faults, new_max, overlapped>>
      PROVE  DestroyedInv'
  BY <1>12 DEF FilterInit
<1>13. ASSUME NEW c \in Callers, MarkRunning(c), UNCHANGED <<faults, new_max, overlapped>>
      PROVE  DestroyedInv'
  BY <1>13 DEF MarkRunning
<1>14. ASSUME NEW c \in Callers, CreateCapture(c), UNCHANGED <<faults, new_max, overlapped>>
      PROVE  DestroyedInv'
  BY <1>14 DEF CreateCapture
<1>15. ASSUME NEW c \in Callers, AllocateBuffer(c), UNCHANGED <<faults, new_max, overlapped>>
      PROVE  DestroyedInv'
  BY <1>15 DEF AllocateBuffer, Misuse
<1>16. ASSUME NEW c \in Callers, SpawnCapture(c), UNCHANGED <<faults, new_max, overlapped>>
      PROVE  DestroyedInv'
  BY <1>16 DEF SpawnCapture
<1>17. ASSUME NEW c \in Callers, JoinCapture(c), UNCHANGED <<faults, new_max, overlapped>>
      PROVE  DestroyedInv'
  BY <1>17 DEF JoinCapture
<1>18. ASSUME NEW c \in Callers, RateStop(c), UNCHANGED <<faults, new_max, overlapped>>
      PROVE  DestroyedInv'
  BY <1>18 DEF RateStop, Misuse
<1>19. ASSUME NEW c \in Callers, RateSet(c), UNCHANGED <<faults, new_max, overlapped>>
      PROVE  DestroyedInv'
  BY <1>19 DEF RateSet, Misuse
<1>20. ASSUME NEW c \in Callers, RateStart(c), UNCHANGED <<faults, new_max, overlapped>>
      PROVE  DestroyedInv'
  BY <1>20 DEF RateStart, Misuse
<1>21. ASSUME NEW c \in Callers, RateRun(c), UNCHANGED <<faults, new_max, overlapped>>
      PROVE  DestroyedInv'
  BY <1>21 DEF RateRun
<1>22. ASSUME NEW c \in Callers, DeletePointers(c), UNCHANGED <<faults, new_max, overlapped>>
      PROVE  DestroyedInv'
  BY <1>22 DEF DeletePointers, Misuse
<1>23. ASSUME NEW c \in Callers, RemoveDevice(c), UNCHANGED <<faults, new_max, overlapped>>
      PROVE  DestroyedInv'
  BY <1>23 DEF RemoveDevice
<1>24. ASSUME NEW c \in Callers, AddDeviceTest(c), UNCHANGED <<faults, new_max, overlapped>>
      PROVE  DestroyedInv'
  BY <1>24 DEF AddDeviceTest
<1>25. ASSUME NEW c \in Callers, StoreRate(c), UNCHANGED <<faults, overlapped>>
      PROVE  DestroyedInv'
  BY <1>25 DEF StoreRate
<1>26. ASSUME NEW c \in Callers, ClearRunning(c), UNCHANGED <<faults, new_max, overlapped>>
      PROVE  DestroyedInv'
  BY <1>26 DEF ClearRunning
<1> QED
  BY <1>1, <1>2, <1>3, <1>4, <1>5, <1>6, <1>7, <1>8, <1>9, <1>10, <1>11,
     <1>12, <1>13, <1>14, <1>15, <1>16, <1>17, <1>18, <1>19, <1>20, <1>21, <1>22,
     <1>23, <1>24, <1>25, <1>26
  DEF Next, CaptureStep, Begin, Begun, Continue, Statement

(* Each statement of a call that is alone hands on what the next one       *)
(* relies on.                                                              *)
LEMMA SerialStep ==
  ASSUME IInv, [Next]_vars
  PROVE  SerialInv'
<1> USE DEF IInv, TypeOK, SerialInv, OneCall, CallerInv, ObjectInv, Quiet, Joining, InLoop, Goto, pointers, rates
<1>1. CASE UNCHANGED vars
  BY <1>1 DEF vars
<1>2. CASE LoopTest /\ UNCHANGED <<faults, new_max, overlapped>>
  BY <1>2 DEF LoopTest, CaptureGoto
<1>3. CASE Select /\ UNCHANGED <<faults, new_max, overlapped>>
  BY <1>3 DEF Select, CaptureGoto, Misuse
<1>4. CASE Read /\ UNCHANGED <<faults, new_max, overlapped>>
  BY <1>4 DEF Read, CaptureGoto, Misuse
<1>5. CASE PushFrame /\ UNCHANGED <<faults, new_max, overlapped>>
  BY <1>5 DEF PushFrame, CaptureGoto
<1>6. CASE ReadFailed /\ UNCHANGED <<faults, new_max, overlapped>>
  BY <1>6 DEF ReadFailed, CaptureGoto
<1>7. ASSUME NEW c \in Callers, GetDevice(c), Begun(c), UNCHANGED new_max
      PROVE  SerialInv'
  BY <1>7, ZenonT(60) DEF GetDevice, Begun
<1>8. ASSUME NEW c \in Callers, ChangeRate(c), Begun(c)
      PROVE  SerialInv'
  BY <1>8 DEF ChangeRate, Begun
<1>9. ASSUME NEW c \in Callers, Close(c), Begun(c), UNCHANGED new_max
      PROVE  SerialInv'
  BY <1>9 DEF Close, Begun
<1>10. ASSUME NEW c \in Callers, Destroy(c), Begun(c), UNCHANGED new_max
      PROVE  SerialInv'
  BY <1>10 DEF Destroy, Begun
<1>11. ASSUME NEW c \in Callers, AddDevice(c), UNCHANGED <<faults, new_max, overlapped>>
      PROVE  SerialInv'
  BY <1>11, ZenonT(60) DEF AddDevice
<1>12. ASSUME NEW c \in Callers, FilterInit(c), UNCHANGED <<faults, new_max, overlapped>>
      PROVE  SerialInv'
  <2>1. PICK next \in {"start", "idle"} :
          /\ process = "alive" /\ at[c] = "init" /\ at' = [at EXCEPT ![c] = next]
          /\ next = "start" => ~m_running
    BY <1>12 DEF FilterInit
  <2>2. UNCHANGED <<process, m_running, capture, video_capture, buffer, overlapped>>
    BY <1>12 DEF FilterInit
  <2> QED
    BY <2>1, <2>2, ZenonT(60)
<1>13. ASSUME NEW c \in Callers, MarkRunning(c), UNCHANGED <<faults, new_max, overlapped>>
      PROVE  SerialInv'
  BY <1>13 DEF MarkRunning
<1>14. ASSUME NEW c \in Callers, CreateCapture(c), UNCHANGED <<faults, new_max, overlapped>>
      PROVE  SerialInv'
  BY <1>14 DEF CreateCapture
<1>15. ASSUME NEW c \in Callers, AllocateBuffer(c), UNCHANGED <<faults, new_max, overlapped>>
      PROVE  SerialInv'
  BY <1>15 DEF AllocateBuffer, Misuse
<1>16. ASSUME NEW c \in Callers, SpawnCapture(c), UNCHANGED <<faults, new_max, overlapped>>
      PROVE  SerialInv'
  BY <1>16 DEF SpawnCapture
<1>17. ASSUME NEW c \in Callers, JoinCapture(c), UNCHANGED <<faults, new_max, overlapped>>
      PROVE  SerialInv'
  <2>1. PICK next \in {"closeDelete", "dtorDelete", "rateStop"} :
          at[c] \in Joining /\ at' = [at EXCEPT ![c] = next]
    BY <1>17 DEF JoinCapture
  <2>2. /\ capture' = "none"
        /\ UNCHANGED <<process, m_running, video_capture, buffer, overlapped>>
    BY <1>17 DEF JoinCapture
  <2> QED
    BY <2>1, <2>2
<1>18. ASSUME NEW c \in Callers, RateStop(c), UNCHANGED <<faults, new_max, overlapped>>
      PROVE  SerialInv'
  BY <1>18 DEF RateStop, Misuse
<1>19. ASSUME NEW c \in Callers, RateSet(c), UNCHANGED <<faults, new_max, overlapped>>
      PROVE  SerialInv'
  BY <1>19 DEF RateSet, Misuse
<1>20. ASSUME NEW c \in Callers, RateStart(c), UNCHANGED <<faults, new_max, overlapped>>
      PROVE  SerialInv'
  BY <1>20 DEF RateStart, Misuse
<1>21. ASSUME NEW c \in Callers, RateRun(c), UNCHANGED <<faults, new_max, overlapped>>
      PROVE  SerialInv'
  BY <1>21 DEF RateRun
<1>22. ASSUME NEW c \in Callers, DeletePointers(c), UNCHANGED <<faults, new_max, overlapped>>
      PROVE  SerialInv'
  <2>1. PICK next \in {"closeRemove", "idle"} :
          at[c] \in {"closeDelete", "dtorDelete"} /\ at' = [at EXCEPT ![c] = next]
    BY <1>22 DEF DeletePointers
  <2>2. /\ UNCHANGED <<m_running, capture, overlapped>>
        /\ \/ video_capture' # "live" /\ UNCHANGED process
           \/ process' # "alive" /\ UNCHANGED <<video_capture, buffer>>
    BY <1>22 DEF DeletePointers, Misuse
  <2> QED
    BY <2>1, <2>2
<1>23. ASSUME NEW c \in Callers, RemoveDevice(c), UNCHANGED <<faults, new_max, overlapped>>
      PROVE  SerialInv'
  BY <1>23 DEF RemoveDevice
<1>24. ASSUME NEW c \in Callers, AddDeviceTest(c), UNCHANGED <<faults, new_max, overlapped>>
      PROVE  SerialInv'
  <2>1. PICK next \in {"assign", "idle"} : at[c] = "make" /\ at' = [at EXCEPT ![c] = next]
    BY <1>24 DEF AddDeviceTest
  <2>2. UNCHANGED <<object, process, m_running, capture, video_capture, buffer, overlapped>>
    BY <1>24 DEF AddDeviceTest
  <2> QED
    BY <2>1, <2>2
<1>25. ASSUME NEW c \in Callers, StoreRate(c), UNCHANGED <<faults, overlapped>>
      PROVE  SerialInv'
  BY <1>25 DEF StoreRate
<1>26. ASSUME NEW c \in Callers, ClearRunning(c), UNCHANGED <<faults, new_max, overlapped>>
      PROVE  SerialInv'
  BY <1>26 DEF ClearRunning
<1> QED
  BY <1>1, <1>2, <1>3, <1>4, <1>5, <1>6, <1>7, <1>8, <1>9, <1>10, <1>11,
     <1>12, <1>13, <1>14, <1>15, <1>16, <1>17, <1>18, <1>19, <1>20, <1>21, <1>22,
     <1>23, <1>24, <1>25, <1>26
  DEF Next, CaptureStep, Begin, Begun, Continue, Statement

(* A camera that is healthy after a step was healthy before it: faults, an *)
(* overlap and the end of the process stay.                                *)
LEMMA StaysBroken ==
  ASSUME [Next]_vars, Healthy'
  PROVE  Healthy
<1>1. CASE CaptureStep
  BY <1>1 DEF Healthy, CaptureStep, LoopTest, Select, Read, PushFrame, ReadFailed, CaptureGoto
<1>2. ASSUME NEW c \in Callers, Begin(c)
      PROVE  Healthy
  BY <1>2 DEF Healthy, Begin, GetDevice, ChangeRate, Close, Destroy, Goto
<1>3. ASSUME NEW c \in Callers, Continue(c)
      PROVE  Healthy
  BY <1>3 DEF Healthy, Continue, Statement, StoreRate, ClearRunning, AddDeviceTest, AddDevice,
              FilterInit, MarkRunning, CreateCapture, AllocateBuffer, SpawnCapture, JoinCapture,
              RateStop, RateSet, RateStart, RateRun, DeletePointers, RemoveDevice, Goto
<1>4. CASE UNCHANGED vars
  BY <1>4 DEF vars, Healthy
<1> QED
  BY <1>1, <1>2, <1>3, <1>4 DEF Next

(* A statement of a call that is alone, on a healthy camera, leads to what *)
(* the next statement counts on, or to what holds between two calls.       *)
LEMMA HealthyStatement ==
  ASSUME TypeOK, NEW c \in Callers, Begin(c) \/ Continue(c), Healthy, Healthy',
         Idle => IdleInv, HealthyCall(c), \A d \in Callers \ {c} : at[d] = "idle"
  PROVE  /\ HealthyCall(c)'
         /\ at'[c] = "idle" => IdleInv'
         /\ \A d \in Callers \ {c} : at'[d] = "idle"
<1>0. (at[c] = "idle" => IdleInv) /\ process = "alive" /\ process' = "alive" /\ faults = {}
  BY DEF Idle, Healthy
<1> USE DEF TypeOK, HealthyCall, At, IdleInv, Fresh, Open, DeviceAgrees, AllAgree, Running, Leaving,
            Joined, Closed, InLoop, Goto, Streaming, Replaced, pointers, rates
<1>1. CASE GetDevice(c)
  BY <1>0, <1>1 DEF GetDevice
<1>2. CASE ChangeRate(c)
  BY <1>0, <1>2 DEF ChangeRate
<1>3. CASE Close(c)
  BY <1>0, <1>3 DEF Close
<1>4. CASE Destroy(c)
  BY <1>0, <1>4 DEF Destroy
<1>5. CASE AddDevice(c)
  BY <1>0, <1>5 DEF AddDevice
<1>6. CASE FilterInit(c)
  BY <1>0, <1>6 DEF FilterInit
<1>7. CASE MarkRunning(c)
  BY <1>0, <1>7 DEF MarkRunning
<1>8. CASE CreateCapture(c)
  BY <1>0, <1>8 DEF CreateCapture
<1>9. CASE AllocateBuffer(c)
  BY <1>0, <1>9 DEF AllocateBuffer, Misuse
<1>10. CASE SpawnCapture(c)
  BY <1>0, <1>10 DEF SpawnCapture
<1>11. CASE JoinCapture(c)
  BY <1>0, <1>11 DEF JoinCapture
<1>12. CASE RateStop(c)
  BY <1>0, <1>12 DEF RateStop, Misuse
<1>13. CASE RateSet(c)
  BY <1>0, <1>13 DEF RateSet, Misuse
<1>14. CASE RateStart(c)
  BY <1>0, <1>14 DEF RateStart, Misuse
<1>15. CASE RateRun(c)
  BY <1>0, <1>15 DEF RateRun
<1>16. CASE DeletePointers(c)
  BY <1>0, <1>16 DEF DeletePointers, Misuse
<1>17. CASE RemoveDevice(c)
  BY <1>0, <1>17 DEF RemoveDevice
<1>18. CASE AddDeviceTest(c)
  BY <1>0, <1>18 DEF AddDeviceTest
<1>19. CASE StoreRate(c)
  BY <1>0, <1>19 DEF StoreRate
<1>20. CASE ClearRunning(c)
  BY <1>0, <1>20 DEF ClearRunning
<1> QED
  BY <1>1, <1>2, <1>3, <1>4, <1>5, <1>6, <1>7, <1>8, <1>9, <1>10, <1>11,
     <1>12, <1>13, <1>14, <1>15, <1>16, <1>17, <1>18, <1>19, <1>20
  DEF Begin, Continue, Statement

(* Statement by statement, a healthy camera keeps its phases.              *)
LEMMA HealthStep ==
  ASSUME IInv, [Next]_vars
  PROVE  HealthInv'
<1> SUFFICES ASSUME Healthy'
             PROVE  (Idle => IdleInv)' /\ \A c \in Callers : HealthyCall(c)'
  BY DEF HealthInv
<1>1. Healthy /\ TypeOK /\ OneCall /\ (Idle => IdleInv) /\ \A c \in Callers : HealthyCall(c)
  BY StaysBroken DEF IInv, HealthInv, SerialInv, Healthy
<1>2. ASSUME NEW c \in Callers, Begin(c) \/ Continue(c)
      PROVE  (Idle => IdleInv)' /\ \A d \in Callers : HealthyCall(d)'
  <2>1. \A d \in Callers \ {c} : at[d] = "idle"
    <3>1. CASE Begin(c)
      BY <3>1 DEF Begin, Healthy
    <3>2. CASE Continue(c)
      <4>1. at[c] # "idle"
        BY <3>2 DEF Continue, Statement, StoreRate, ClearRunning, AddDeviceTest, AddDevice,
                    FilterInit, MarkRunning, CreateCapture, AllocateBuffer, SpawnCapture,
                    JoinCapture, RateStop, RateSet, RateStart, RateRun, DeletePointers,
                    RemoveDevice, Goto
      <4> QED
        BY <1>1, <4>1 DEF OneCall
    <3> QED
      BY <1>2, <3>1, <3>2
  <2>2. /\ HealthyCall(c)'
        /\ at'[c] = "idle" => IdleInv'
        /\ \A d \in Callers \ {c} : at'[d] = "idle"
    BY <1>1, <1>2, <2>1, HealthyStatement
  <2>3. ASSUME NEW d \in Callers \ {c}
        PROVE  HealthyCall(d)'
    BY <2>2 DEF HealthyCall, At
  <2> QED
    BY <2>2, <2>3 DEF Idle
<1>3. CASE CaptureStep
  <2>1. UNCHANGED <<at, new_max>> /\ process = "alive" /\ process' = "alive" /\ faults = {}
    BY <1>1, <1>3 DEF CaptureStep, LoopTest, Select, Read, PushFrame, ReadFailed, CaptureGoto, Healthy
  <2> USE DEF IdleInv, Fresh, Open, DeviceAgrees, AllAgree, Running, Leaving, Joined, Closed,
              InLoop, CaptureGoto, pointers, rates
  <2>2. IdleInv => IdleInv'
    BY <1>3, <2>1 DEF CaptureStep, LoopTest, Select, Read, PushFrame, ReadFailed
  <2>3. ASSUME NEW c \in Callers
        PROVE  HealthyCall(c)'
    <3> USE DEF HealthyCall, At
    <3>1. HealthyCall(c)
      BY <1>1
    <3>2. CASE LoopTest
      BY <2>1, <3>1, <3>2 DEF LoopTest
    <3>3. CASE Select
      BY <2>1, <3>1, <3>3 DEF Select
    <3>4. CASE Read
      BY <2>1, <3>1, <3>4 DEF Read
    <3>5. CASE PushFrame
      BY <2>1, <3>1, <3>5 DEF PushFrame
    <3>6. CASE ReadFailed
      BY <2>1, <3>1, <3>6 DEF ReadFailed
    <3> QED
      BY <1>3, <3>2, <3>3, <3>4, <3>5, <3>6 DEF CaptureStep
  <2> QED
    BY <1>1, <2>1, <2>2, <2>3 DEF Idle
<1>4. CASE UNCHANGED vars
  BY <1>1, <1>4 DEF vars, pointers, rates, Idle, HealthyCall, At, IdleInv, Fresh, Open, DeviceAgrees,
                    AllAgree, Running, Leaving, Joined, Closed
<1> QED
  BY <1>2, <1>3, <1>4 DEF Next

(* While calls do not overlap, the one that takes a step is the only one   *)
(* under way, and no step is taken once the program has ended.             *)
LEMMA AloneStep ==
  ASSUME TypeOK, ~overlapped => OneCall, NEW c \in Callers, Begin(c) \/ Continue(c), ~overlapped'
  PROVE  /\ process = "alive" /\ ~overlapped
         /\ \A d \in Callers \ {c} : at[d] = "idle" /\ at'[d] = "idle"
<1>1. /\ process = "alive" /\ at' \in [Callers -> CallerLocations]
      /\ \A d \in Callers \ {c} : at'[d] = at[d]
  <2>1. CASE Begin(c)
    BY <2>1 DEF TypeOK, Begin, GetDevice, ChangeRate, Close, Destroy, Goto, CallerLocations
  <2>2. CASE Continue(c)
    BY <2>2 DEF TypeOK, Continue, Statement, StoreRate, ClearRunning, AddDeviceTest, AddDevice,
                FilterInit, MarkRunning, CreateCapture, AllocateBuffer, SpawnCapture, JoinCapture,
                RateStop, RateSet, RateStart, RateRun, DeletePointers, RemoveDevice, Goto,
                CallerLocations
  <2> QED
    BY <2>1, <2>2
<1>2. CASE Begin(c)
  BY <1>1, <1>2 DEF Begin
<1>3. CASE Continue(c)
  <2>1. at[c] # "idle" /\ ~overlapped
    BY <1>3 DEF Continue, Statement, StoreRate, ClearRunning, AddDeviceTest, AddDevice, FilterInit,
                MarkRunning, CreateCapture, AllocateBuffer, SpawnCapture, JoinCapture, RateStop,
                RateSet, RateStart, RateRun, DeletePointers, RemoveDevice, Goto
  <2> QED
    BY <1>1, <2>1 DEF OneCall
<1> QED
  BY <1>2, <1>3

(* A statement of a call that is alone leaves every pointer that is not    *)
(* live explained, and ends the program only for a cause.                  *)
LEMMA CauseStatement ==
  ASSUME TypeOK, NEW c \in Callers, Begin(c) \/ Continue(c),
         process = "alive", OneCall, CallerInv(c), CauseData, EndingExplained,
         at[c] = "idle" => CauseIdle, CauseCall(c), ~overlapped,
         (video_capture = "live" /\ at[c] # "check") => buffer = "live"
  PROVE  /\ EndingExplained' /\ CauseData'
         /\ process' = "alive" => CauseCall(c)' /\ (at'[c] = "idle" => CauseIdle')
<1>0. UNCHANGED faults
  BY DEF Begin, Continue
<1> USE DEF TypeOK, EndingExplained, CauseData, CauseIdle, CauseCall, CallerInv, At, Made, Unmade, Quiet,
            Goto, Streams, Streaming, Replaced, pointers, rates
<1>1. CASE GetDevice(c)
  BY <1>0, <1>1 DEF GetDevice
<1>2. CASE ChangeRate(c)
  BY <1>0, <1>2 DEF ChangeRate
<1>3. CASE Close(c)
  BY <1>0, <1>3 DEF Close
<1>4. CASE Destroy(c)
  BY <1>0, <1>4 DEF Destroy
<1>5. CASE AddDevice(c)
  BY <1>0, <1>5 DEF AddDevice
<1>6. CASE FilterInit(c)
  BY <1>0, <1>6 DEF FilterInit
<1>7. CASE MarkRunning(c)
  BY <1>0, <1>7 DEF MarkRunning
<1>8. CASE CreateCapture(c)
  BY <1>0, <1>8 DEF CreateCapture
<1>9. CASE AllocateBuffer(c)
  BY <1>0, <1>9 DEF AllocateBuffer, Misuse
<1>10. CASE SpawnCapture(c)
  BY <1>0, <1>10 DEF SpawnCapture
<1>11. CASE JoinCapture(c)
  BY <1>0, <1>11 DEF JoinCapture
<1>12. CASE RateStop(c)
  BY <1>0, <1>12 DEF RateStop, Misuse
<1>13. CASE RateSet(c)
  BY <1>0, <1>13 DEF RateSet, Misuse
<1>14. CASE RateStart(c)
  BY <1>0, <1>14 DEF RateStart, Misuse
<1>15. CASE RateRun(c)
  BY <1>0, <1>15 DEF RateRun
<1>16. CASE DeletePointers(c)
  BY <1>0, <1>16 DEF DeletePointers, Misuse
<1>17. CASE RemoveDevice(c)
  BY <1>0, <1>17 DEF RemoveDevice
<1>18. CASE AddDeviceTest(c)
  BY <1>0, <1>18 DEF AddDeviceTest
<1>19. CASE StoreRate(c)
  BY <1>0, <1>19 DEF StoreRate
<1>20. CASE ClearRunning(c)
  BY <1>0, <1>20 DEF ClearRunning
<1> QED
  BY <1>1, <1>2, <1>3, <1>4, <1>5, <1>6, <1>7, <1>8, <1>9, <1>10, <1>11,
     <1>12, <1>13, <1>14, <1>15, <1>16, <1>17, <1>18, <1>19, <1>20
  DEF Begin, Continue, Statement

(* Step by step, whatever ends the program has its cause.                  *)
LEMMA CauseStep ==
  ASSUME IInv, [Next]_vars
  PROVE  CauseInv'
<1>1. CASE UNCHANGED vars
  BY <1>1 DEF IInv, CauseInv, EndingExplained, CauseData, CauseIdle, CauseCall, Made, Unmade, At, Idle, vars, pointers, rates
<1>2. CASE CaptureStep
  <2> SUFFICES ASSUME ~overlapped' PROVE CauseInv'
    BY DEF CauseInv
  <2>1. /\ ~overlapped /\ UNCHANGED <<faults, object, at, video_capture, buffer, stream>>
        /\ process = "alive" /\ (process' # "alive" \/ UNCHANGED m_running)
    BY <1>2 DEF CaptureStep, LoopTest, Select, Read, PushFrame, ReadFailed, CaptureGoto, pointers
  <2>2. /\ CauseData /\ (Idle => CauseIdle) /\ \A c \in Callers : CauseCall(c)
        /\ capture \in InLoop => video_capture = "live" /\ buffer = "live"
    BY <2>1 DEF IInv, CauseInv, SerialInv, ObjectInv
  <2>3. /\ capture' = "failed" => "read" \in faults \/ "start" \in faults
        /\ \/ process' = "alive"
           \/ process' = "terminated" /\ capture = "failed"
           \/ process' = "bad mapping" /\ stream = "holed"
    BY <1>2, <2>1, <2>2 DEF CaptureStep, LoopTest, Select, Read, PushFrame, ReadFailed, CaptureGoto, CauseData, InLoop
  <2>4. EndingExplained' /\ CauseData'
    BY <2>1, <2>2, <2>3 DEF EndingExplained, CauseData
  <2>5. process' = "alive" => (Idle' => CauseIdle') /\ \A c \in Callers : CauseCall(c)'
    BY <2>1, <2>2 DEF Idle, CauseIdle, CauseCall, Made, Unmade, At
  <2> QED
    BY <2>4, <2>5 DEF CauseInv
<1>3. ASSUME NEW c \in Callers, Begin(c) \/ Continue(c)
      PROVE  CauseInv'
  <2> SUFFICES ASSUME ~overlapped' PROVE CauseInv'
    BY DEF CauseInv
  <2>1. process = "alive" /\ ~overlapped /\ \A d \in Callers \ {c} : at[d] = "idle" /\ at'[d] = "idle"
    BY <1>3, AloneStep DEF IInv, SerialInv
  <2>2. /\ TypeOK /\ OneCall /\ CallerInv(c) /\ CauseData /\ EndingExplained
        /\ at[c] = "idle" => CauseIdle
        /\ CauseCall(c)
        /\ (video_capture = "live" /\ at[c] # "check") => buffer = "live"
    BY <2>1 DEF IInv, SerialInv, ObjectInv, CauseInv, Idle
  <2>3. /\ EndingExplained' /\ CauseData'
        /\ process' = "alive" => CauseCall(c)' /\ (at'[c] = "idle" => CauseIdle')
    BY <1>3, <2>1, <2>2, CauseStatement
  <2>4. ASSUME NEW d \in Callers \ {c}
        PROVE  CauseCall(d)'
    BY <2>1 DEF CauseCall, At
  <2> QED
    BY <2>3, <2>4 DEF CauseInv, Idle
<1> QED
  BY <1>1, <1>2, <1>3 DEF Next

(* Every step keeps the strengthened invariant. *)
LEMMA NextInv ==
  ASSUME IInv, [Next]_vars
  PROVE  IInv'
BY TypeStep, DestroyedStep, SerialStep, HealthStep, CauseStep DEF IInv

(* The strengthened invariant holds in every reachable state.              *)
THEOREM Invariance == Spec => []IInv
<1>1. Init => IInv
  BY InitInv
<1>2. IInv /\ [Next]_vars => IInv'
  BY NextInv
<1> QED
  BY <1>1, <1>2, PTL DEF Spec

(* The types of the camera's state, for any callers, rates and faults.     *)
THEOREM TypeCorrect == Spec => []TypeOK
<1>1. IInv => TypeOK
  BY DEF IInv
<1> QED
  BY <1>1, Invariance, PTL

(* The capture thread only uses a capture object and a buffer that exist,  *)
(* whatever fails, as long as calls do not overlap.                        *)
THEOREM LoopSafe == Spec => []LoopUsesLiveObjects
<1>1. IInv => LoopUsesLiveObjects
  BY DEF IInv, SerialInv, ObjectInv, LoopUsesLiveObjects
<1> QED
  BY <1>1, Invariance, PTL

(* No capture thread outlives the destructor's join, even when calls have  *)
(* overlapped before.                                                      *)
THEOREM DestructorSafe == Spec => []NoThreadOutlives
<1>1. IInv => NoThreadOutlives
  BY DEF IInv, DestroyedInv, NoThreadOutlives
<1> QED
  BY <1>1, Invariance, PTL

(* Whatever ends the program, while calls do not overlap, is a failure of  *)
(* the camera or the destructor of a camera that was closed.               *)
THEOREM Endings == Spec => []EndingExplained
<1>1. IInv => EndingExplained
  BY DEF IInv, CauseInv, EndingExplained
<1> QED
  BY <1>1, Invariance, PTL

(* So a camera without failures and overlaps goes on until it is           *)
(* destroyed: no step of start_acquisition, set_max_framerate,             *)
(* close_acquisition or the capture loop ends the program.                 *)
UnharmedUntilDestroyed ==
  (~overlapped /\ faults = {} /\ object # "destroyed") => process = "alive"

COROLLARY Unharmed == Spec => []UnharmedUntilDestroyed
<1>1. TypeOK /\ EndingExplained => UnharmedUntilDestroyed
  BY DEF TypeOK, EndingExplained, UnharmedUntilDestroyed
<1> QED
  BY <1>1, TypeCorrect, Endings, PTL

(* The converse of the counterexample of camera_read_fails: with a single  *)
(* filter, and reads and restarts that do not fail, no call ends the       *)
(* program by an exception in a thread.                                    *)
SingleCaller  == \A c, d \in Callers : c = d
NoReadFailure == \A F \in FaultModes : "read" \notin F /\ "start" \notin F

THEOREM TerminatedByReadsOnly ==
  ASSUME SingleCaller, NoReadFailure
  PROVE  Spec => []NeverTerminated
<1>1. Init => ~overlapped
  BY DEF Init
<1>2. ASSUME ~overlapped, [Next]_vars
      PROVE  ~overlapped'
  <2>1. ASSUME NEW c \in Callers, Begin(c)
        PROVE  ~overlapped'
    BY <1>2, <2>1 DEF SingleCaller, Begin
  <2> QED
    BY <1>2, <2>1 DEF Next, CaptureStep, Continue, vars
<1>3. TypeOK /\ EndingExplained /\ ~overlapped => NeverTerminated
  BY DEF TypeOK, NoReadFailure, EndingExplained, NeverTerminated
<1> QED
  BY <1>1, <1>2, <1>3, TypeCorrect, Endings, PTL DEF Spec

(* The device is only touched while no capture thread uses it, as long as  *)
(* calls do not overlap: every statement that touches it follows a join.   *)
THEOREM DeviceSafe == Spec => SerialExclusiveDevice
<1>1. ASSUME IInv, [Next]_vars
      PROVE  [(DeviceStep /\ ~overlapped) => capture = "none"]_vars
  <2> USE DEF DeviceStep, pointers, rates
  <2>1. CASE UNCHANGED vars
    BY <2>1
  <2>2. CASE CaptureStep
    BY <2>2 DEF CaptureStep, LoopTest, Select, Read, PushFrame, ReadFailed, CaptureGoto
  <2>3. ASSUME NEW c \in Callers, Begin(c)
        PROVE  ~DeviceStep
    BY <2>3 DEF Begin, GetDevice, ChangeRate, Close, Destroy
  <2>4. ASSUME NEW c \in Callers, Continue(c), ~overlapped, DeviceStep
        PROVE  capture = "none"
    <3>1. at[c] \in Quiet
      BY <2>4 DEF Continue, Statement, StoreRate, ClearRunning, AddDeviceTest, AddDevice,
                  FilterInit, MarkRunning, CreateCapture, AllocateBuffer, SpawnCapture, JoinCapture,
                  RateStop, RateSet, RateStart, RateRun, DeletePointers, RemoveDevice, Goto, Quiet
    <3> QED
      BY <1>1, <2>4, <3>1 DEF IInv, SerialInv, CallerInv
  <2> QED
    BY <1>1, <2>1, <2>2, <2>3, <2>4 DEF Next
<1> QED
  BY <1>1, Invariance, PTL DEF Spec, SerialExclusiveDevice

(* Between two calls that neither fail nor overlap, is_running tells       *)
(* whether there is a thread that captures.                                *)
THEOREM RunningTold == Spec => []RunningMeansCapturing
<1>1. IInv => RunningMeansCapturing
  BY DEF IInv, HealthInv, IdleInv, Fresh, Running, Closed, RunningMeansCapturing
<1> QED
  BY <1>1, Invariance, PTL

(* Between two such calls a camera that captures has one rate, whatever    *)
(* the rates that were asked for.                                          *)
THEOREM OneRate == Spec => []RatesAgree
<1>1. IInv => RatesAgree
  BY DEF IInv, HealthInv, IdleInv, Fresh, Running, Closed, InLoop, AllAgree, DeviceAgrees, RatesAgree
<1> QED
  BY <1>1, Invariance, PTL

(* Nothing but images is queued, also right after a change of the rate.    *)
THEOREM ImagesOnly == Spec => []QueuesOnlyImages
<1>1. IInv => QueuesOnlyImages
  <2> SUFFICES ASSUME IInv, Healthy, capture = "push" PROVE frame = "image"
    BY DEF QueuesOnlyImages
  <2>1. CASE Idle
    BY <2>1 DEF IInv, HealthInv, IdleInv, Fresh, Running, Closed, Open
  <2>2. ASSUME NEW c \in Callers, at[c] # "idle"
        PROVE  frame = "image"
    <3>1. HealthyCall(c) /\ at[c] \in CallerLocations
      BY DEF IInv, HealthInv, TypeOK
    <3> QED
      BY <2>2, <3>1 DEF HealthyCall, At, CallerLocations, Fresh, Running, Leaving, Joined, Closed, Open
  <2> QED
    BY <2>1, <2>2 DEF Idle
<1> QED
  BY <1>1, Invariance, PTL

-----------------------------------------------------------------------------
(* Refinement *)

(* The phase of a healthy camera, from its pointer and its thread.         *)
LEMMA Phases ==
  ASSUME Healthy
  PROVE  /\ video_capture = "unset" => Phase = "unopened"
         /\ video_capture = "deleted" => Phase = "closed"
         /\ (video_capture = "live" /\ capture \in InLoop) => Phase = "on"
         /\ (video_capture = "live" /\ capture \notin InLoop) => Phase = "off"
BY DEF Phase

(* A step that ends with a healthy camera is a step of the promised one.   *)
LEMMA HealthyRefines ==
  ASSUME IInv, [Next]_vars, Healthy'
  PROVE  [Promised!Next]_(Promised!vars)
<1>1. /\ Healthy /\ TypeOK /\ OneCall /\ ObjectInv /\ (Idle => IdleInv)
      /\ \A c \in Callers : HealthyCall(c)
  BY StaysBroken DEF IInv, HealthInv, SerialInv, Healthy
<1>2. faults = {} /\ process = "alive" /\ process' = "alive"
  BY <1>1 DEF Healthy
<1>3. CASE UNCHANGED <<video_capture, capture, m_max_framerate, deviceRate>>
  <2>1. Phase' = Phase
    BY <1>1, <1>3 DEF Phase
  <2> QED
    BY <1>1, <1>3, <2>1 DEF Promised!vars
<1>4. CASE CaptureStep
  <2>1. UNCHANGED <<video_capture, m_max_framerate, deviceRate>>
    BY <1>4 DEF CaptureStep, LoopTest, Select, Read, PushFrame, ReadFailed, CaptureGoto, pointers, rates
  <2>2. CASE capture \in InLoop /\ capture' \in InLoop
    BY <1>1, <2>1, <2>2, Phases DEF ObjectInv, Promised!vars, Phase
  <2>3. CASE capture = "test" /\ capture' = "exited"
    <3>1. Phase = "on" /\ Phase' = "off"
      BY <1>1, <2>1, <2>3 DEF ObjectInv, InLoop, Phase
    <3> QED
      BY <1>1, <2>1, <3>1 DEF Promised!Next, Promised!Stop
  <2>4. CASE LoopTest
    BY <2>2, <2>3, <2>4 DEF LoopTest, CaptureGoto, InLoop
  <2>5. CASE Select
    BY <2>2, <2>5 DEF Select, CaptureGoto, InLoop
  <2>6. CASE PushFrame
    BY <2>2, <2>6 DEF PushFrame, CaptureGoto, InLoop
  <2>7. CASE Read
    <3>1. capture = "read" /\ video_capture = "live"
      BY <1>1, <2>7 DEF Read, CaptureGoto, ObjectInv, InLoop
    <3>2. capture' \in {"read", "push", "failed"}
      BY <2>7 DEF Read, CaptureGoto
    <3>3. capture' # "failed"
      <4>1. stream # "mapped"
        <5>1. CASE Idle
          BY <1>1, <3>1, <5>1 DEF IdleInv, Fresh, Running, Closed, Open
        <5>2. ASSUME NEW c \in Callers, at[c] # "idle"
              PROVE  stream # "mapped"
          <6>1. HealthyCall(c) /\ at[c] \in CallerLocations
            BY <1>1 DEF TypeOK
          <6> QED
            BY <3>1, <5>2, <6>1
            DEF HealthyCall, At, CallerLocations, Fresh, Running, Leaving, Joined, Closed, Open
        <5> QED
          BY <5>1, <5>2 DEF Idle
      <4> QED
        BY <1>2, <2>7, <4>1 DEF Read, CaptureGoto
    <3> QED
      BY <2>2, <3>1, <3>2, <3>3 DEF InLoop
  <2>8. CASE ReadFailed
    BY <1>2, <2>8 DEF ReadFailed
  <2> QED
    BY <1>4, <2>4, <2>5, <2>6, <2>7, <2>8 DEF CaptureStep
<1>5. ASSUME NEW c \in Callers, StoreRate(c)
      PROVE  [Promised!Next]_(Promised!vars)
  <2>1. Running /\ new_max[c] \in Rates \ {m_max_framerate}
    BY <1>1, <1>5 DEF StoreRate, Goto, HealthyCall, At
  <2>2. UNCHANGED <<video_capture, capture, deviceRate>> /\ m_max_framerate' \in Rates \ {m_max_framerate}
    BY <1>5, <2>1 DEF StoreRate, pointers
  <2>3. Phase = "on" /\ Phase' = "on"
    BY <1>1, <2>1, <2>2 DEF Running, Open, Phase
  <2> QED
    BY <1>1, <2>1, <2>2, <2>3
    DEF Promised!Next, Promised!Ask, Promised!Agreed, Running, AllAgree, DeviceAgrees
<1>6. ASSUME NEW c \in Callers, CreateCapture(c)
      PROVE  [Promised!Next]_(Promised!vars)
  <2>1. video_capture = "unset" /\ stream = "off" /\ capture = "none"
    BY <1>1, <1>6 DEF CreateCapture, Goto, HealthyCall, At
  <2>2. /\ video_capture' = "live" /\ UNCHANGED <<capture, m_max_framerate>>
        /\ deviceRate' = IF m_max_framerate > 0 THEN m_max_framerate ELSE deviceRate
    BY <1>1, <1>2, <1>6, <2>1 DEF CreateCapture, Goto, HealthyCall, At, Replaced
  <2>3. Phase = "unopened" /\ Phase' = "off"
    BY <1>1, <2>1, <2>2 DEF InLoop, Phase
  <2> QED
    BY <1>1, <2>2, <2>3 DEF Promised!Next, Promised!Open
<1>7. ASSUME NEW c \in Callers, SpawnCapture(c)
      PROVE  [Promised!Next]_(Promised!vars)
  <2>1. Joined /\ AllAgree
    BY <1>1, <1>7 DEF SpawnCapture, Goto, HealthyCall, At
  <2>2. capture' = "test" /\ UNCHANGED <<video_capture, m_max_framerate, deviceRate>>
    BY <1>7, <2>1 DEF SpawnCapture, Joined, pointers, rates
  <2>3. Phase = "off" /\ Phase' = "on"
    BY <1>1, <2>1, <2>2 DEF Joined, InLoop, Phase
  <2> QED
    BY <1>1, <2>1, <2>2, <2>3 DEF Promised!Next, Promised!Start, Promised!Agreed, AllAgree, DeviceAgrees
<1>8. ASSUME NEW c \in Callers, JoinCapture(c)
      PROVE  [Promised!Next]_(Promised!vars)
  <2>1. /\ capture \in {"none", "exited"} /\ capture' = "none"
        /\ UNCHANGED <<video_capture, m_max_framerate, deviceRate>>
    BY <1>8 DEF JoinCapture, pointers, rates
  <2>2. Phase' = Phase
    BY <1>1, <2>1 DEF InLoop, Phase
  <2> QED
    BY <1>1, <2>1, <2>2 DEF Promised!vars
<1>9. ASSUME NEW c \in Callers, RateSet(c)
      PROVE  [Promised!Next]_(Promised!vars)
  <2>1. Joined /\ stream = "off"
    BY <1>1, <1>9 DEF RateSet, Goto, HealthyCall, At
  <2>2. /\ deviceRate' = m_max_framerate
        /\ UNCHANGED <<video_capture, capture, m_max_framerate>>
    BY <1>1, <1>2, <1>9, <2>1 DEF RateSet, Goto, HealthyCall, At, Joined, Streaming, Replaced, pointers
  <2>3. Phase = "off" /\ Phase' = "off"
    BY <1>1, <2>1, <2>2 DEF Joined, InLoop, Phase
  <2> QED
    BY <1>1, <2>2, <2>3 DEF Promised!Next, Promised!SetRate
<1>10. ASSUME NEW c \in Callers, DeletePointers(c)
      PROVE  [Promised!Next]_(Promised!vars)
  <2>1. video_capture = "live" /\ video_capture' = "deleted"
    <3>1. video_capture = "live" \/ video_capture = "deleted"
      BY <1>1, <1>10 DEF DeletePointers, Goto, HealthyCall, At, Joined, Closed
    <3> QED
      BY <1>2, <1>10, <3>1 DEF DeletePointers, Misuse
  <2>2. capture = "none" /\ UNCHANGED <<capture, m_max_framerate, deviceRate>>
    BY <1>1, <1>10 DEF DeletePointers, Goto, HealthyCall, At, Joined, Closed, rates
  <2>3. Phase = "off" /\ Phase' = "closed"
    BY <1>1, <2>1, <2>2 DEF InLoop, Phase
  <2> QED
    BY <1>1, <2>2, <2>3 DEF Promised!Next, Promised!Close
<1>11. CASE UNCHANGED vars
  BY <1>3, <1>11 DEF vars, pointers, rates
<1>12. ASSUME NEW c \in Callers, Begin(c)
      PROVE  UNCHANGED <<video_capture, capture, m_max_framerate, deviceRate>>
  BY <1>12 DEF Begin, GetDevice, ChangeRate, Close, Destroy, pointers, rates
<1>13. ASSUME NEW c \in Callers, Continue(c),
              ~(StoreRate(c) \/ CreateCapture(c) \/ SpawnCapture(c) \/ JoinCapture(c) \/ RateSet(c)
                \/ DeletePointers(c))
      PROVE  UNCHANGED <<video_capture, capture, m_max_framerate, deviceRate>>
  BY <1>13 DEF Continue, Statement, StoreRate, ClearRunning, AddDeviceTest, AddDevice, FilterInit,
               MarkRunning, AllocateBuffer, RateStop, RateStart, RateRun, RemoveDevice, pointers,
               rates
<1> QED
  BY <1>3, <1>4, <1>5, <1>6, <1>7, <1>8, <1>9, <1>10, <1>11, <1>12, <1>13 DEF Next, Begin, Begun

(* How many steps the capture thread is away from the end of its loop when *)
(* m_running is clear.                                                     *)
StepsLeft ==
  CASE capture \in {"none", "exited"} -> 0
    [] capture \in {"test", "failed"} -> 1
    [] capture = "push"   -> 2
    [] capture = "read"   -> 3
    [] capture = "select" -> 4

(* What makes every join end (the part of CallsComplete that does not need *)
(* fairness): while a call waits in its join, each step of the capture     *)
(* thread brings it nearer to its return and no other step takes it back,  *)
(* since nothing sets m_running again before the join.                     *)
JoinApproaches ==
  [][\A c \in Callers :
       (at[c] \in Joining /\ at'[c] \in Joining /\ ~overlapped' /\ process' = "alive")
         => capture' = capture \/ StepsLeft' < StepsLeft]_vars

THEOREM JoinsEnd == Spec => JoinApproaches
<1>1. ASSUME IInv, [Next]_vars, NEW c \in Callers,
             at[c] \in Joining, at'[c] \in Joining, ~overlapped', process' = "alive"
      PROVE  capture' = capture \/ StepsLeft' < StepsLeft
  <2>1. CASE UNCHANGED vars
    BY <2>1 DEF vars
  <2>2. CASE CaptureStep
    <3>1. ~m_running /\ ~overlapped
      BY <1>1, <2>2 DEF CaptureStep, IInv, SerialInv, CallerInv
    <3>2. /\ capture \in InLoop
          /\ \/ capture' = capture
             \/ capture = "test" /\ capture' = "exited"
             \/ capture = "select" /\ capture' \in {"read", "test"}
             \/ capture = "read" /\ capture' \in {"push", "failed"}
             \/ capture = "push" /\ capture' = "test"
      BY <1>1, <2>2, <3>1
      DEF CaptureStep, LoopTest, Select, Read, PushFrame, ReadFailed, CaptureGoto, InLoop
    <3> QED
      BY <3>2 DEF StepsLeft, InLoop
  <2>3. ASSUME NEW d \in Callers, Begin(d) \/ Continue(d)
        PROVE  capture' = capture
    <3>1. d = c
      <4>1. d # c => at[c] = "idle"
        BY <1>1, <2>3, AloneStep DEF IInv, SerialInv
      <4> QED
        BY <1>1, <4>1 DEF Joining
    <3>2. at[d] \in Joining /\ at'[d] \in Joining
      BY <1>1, <3>1
    <3> QED
      BY <1>1, <2>3, <3>2
      DEF Joining, IInv, TypeOK, Begin, GetDevice, ChangeRate, Close, Destroy, Continue, AddDevice,
          AddDeviceTest, StoreRate, ClearRunning, Statement, FilterInit, MarkRunning, CreateCapture,
          AllocateBuffer, SpawnCapture, JoinCapture, RateStop, RateSet, RateStart, RateRun,
          DeletePointers, RemoveDevice, Goto
  <2> QED
    BY <1>1, <2>1, <2>2, <2>3 DEF Next
<1>2. IInv /\ [Next]_vars =>
        [\A c \in Callers :
           (at[c] \in Joining /\ at'[c] \in Joining /\ ~overlapped' /\ process' = "alive")
             => capture' = capture \/ StepsLeft' < StepsLeft]_vars
  BY <1>1
<1> QED
  BY <1>2, Invariance, PTL DEF Spec, JoinApproaches

(* The object, with its threads, statements and pointers, keeps the        *)
(* promise of Camera.tla: it never changes the rate of a camera that       *)
(* captures, and never captures at another rate than the one asked for     *)
(* last, for any callers, rates and faults.                                *)
THEOREM Refinement == Spec => ImplementsCamera
<1>1. Init => Promised!Init
  <2> SUFFICES ASSUME Init PROVE Promised!Init
    OBVIOUS
  <2>1. CASE Healthy
    <3>1. Phase = "unopened"
      BY <2>1, Phases DEF Init
    <3> QED
      BY <2>1, <3>1 DEF Init, Promised!Init, NoRate, Promised!NoRate
  <2>2. CASE ~Healthy
    BY <2>2 DEF Promised!Init, Phase, NoRate, Promised!NoRate
  <2> QED
    BY <2>1, <2>2
<1>2. IInv /\ [Next]_vars => [Promised!Next]_(Promised!vars)
  <2> SUFFICES ASSUME IInv, [Next]_vars PROVE [Promised!Next]_(Promised!vars)
    OBVIOUS
  <2>1. CASE ~Healthy'
    BY <2>1 DEF Promised!Next, Promised!Break, Phase, NoRate, Promised!NoRate
  <2> QED
    BY <2>1, HealthyRefines
<1> QED
  BY <1>1, <1>2, Invariance, PTL DEF Spec, ImplementsCamera, Promised!Spec
=============================================================================
