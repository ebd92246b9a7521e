------------------------------ MODULE Exposure ------------------------------
(***************************************************************************)
(* The exposure of a camera that has been started: set_exposure, called by *)
(* SetExposure filters without a lock, and the two controls of the device  *)
(* behind it (sources/webcamera.cpp, libv4l2cpp/src/V4l2Device.cpp).       *)
(*                                                                         *)
(* m_exposure is what GetExposure reports.  It starts as the inExposure of *)
(* the filter that made the camera; start_acquisition opens the device in  *)
(* automatic mode whatever it is.                                          *)
(***************************************************************************)
EXTENDS Integers

CONSTANTS
  Callers,          \* the threads that run SetExposure filters
  Times,            \* the exposure times asked for, in milliseconds
  InitialExposure,  \* inExposure, or Automatic
  Refusals          \* the controls the device may refuse: "mode", "time"

Automatic == -1

ASSUME ExposureAssumption ==
  /\ Times \subseteq Nat \ {0}
  /\ InitialExposure \in Times \cup {Automatic}

VARIABLES
  m_exposure,
  mode,     \* V4L2_CID_EXPOSURE_AUTO: "auto" (aperture priority), "manual"
  time,     \* V4L2_CID_EXPOSURE_ABSOLUTE, in units of 100 us
  at,       \* the statement of set_exposure each caller is at
  time_ms,  \* the argument of each caller's call
  synced    \* history: automatic exposure was set by a call that was alone, and
            \* since then nothing has been refused and no two calls overlapped

vars == <<m_exposure, mode, time, at, time_ms, synced>>

NoTime == 0

Init ==
  /\ m_exposure = InitialExposure
  /\ mode = "auto" /\ time = NoTime
  /\ at = [c \in Callers |-> "idle"]
  /\ time_ms = [c \in Callers |-> Automatic]
  /\ synced = (InitialExposure = Automatic)

Goto(c, from, to) ==
  /\ at[c] = from
  /\ at' = [at EXCEPT ![c] = to]

Alone(c) == \A d \in Callers \ {c} : at[d] = "idle"

(* SetExposure's Invoke; Automatic is an input that is left open. *)
SetExposure(c, t) ==
  /\ Goto(c, "idle", "differs")
  /\ time_ms' = [time_ms EXCEPT ![c] = t]
  /\ synced' = (synced /\ Alone(c))
  /\ UNCHANGED <<m_exposure, mode, time>>

(* if (this->m_exposure != time_ms) *)
Differs(c) ==
  /\ \/ m_exposure = time_ms[c] /\ Goto(c, "differs", "idle")
     \/ m_exposure # time_ms[c] /\ time_ms[c] = Automatic /\ Goto(c, "differs", "setAuto")
     \/ m_exposure # time_ms[c] /\ time_ms[c] # Automatic /\ Goto(c, "differs", "wasAuto")
  /\ UNCHANGED <<m_exposure, mode, time, time_ms, synced>>

SetAuto(c) ==
  /\ Goto(c, "setAuto", "store")
  /\ \/ mode' = "auto" /\ synced' = Alone(c)
     \/ "mode" \in Refusals /\ synced' = FALSE /\ UNCHANGED mode
  /\ UNCHANGED <<m_exposure, time, time_ms>>

(* Faulty: the mode is only changed away from a time. *)
WasAutoInverted(c) ==
  /\ \/ m_exposure # Automatic /\ Goto(c, "wasAuto", "setManual")
     \/ m_exposure = Automatic /\ Goto(c, "wasAuto", "setTime")
  /\ UNCHANGED <<m_exposure, mode, time, time_ms, synced>>

(* if (this->m_exposure == -1) // this if is unnecessary *)
WasAuto(c) ==
  /\ \/ m_exposure = Automatic /\ Goto(c, "wasAuto", "setManual")
     \/ m_exposure # Automatic /\ Goto(c, "wasAuto", "setTime")
  /\ UNCHANGED <<m_exposure, mode, time, time_ms, synced>>

SetManual(c) ==
  /\ Goto(c, "setManual", "setTime")
  /\ \/ mode' = "manual" /\ UNCHANGED synced
     \/ "mode" \in Refusals /\ synced' = FALSE /\ UNCHANGED mode
  /\ UNCHANGED <<m_exposure, time, time_ms>>

(* While it exposes automatically the device may keep the time or refuse   *)
(* it; either way it does not use it.                                      *)
SetTime(c) ==
  /\ Goto(c, "setTime", "store")
  /\ \/ time' = 10 * time_ms[c] /\ UNCHANGED synced
     \/ /\ mode = "auto" \/ "time" \in Refusals
        /\ synced' = FALSE /\ UNCHANGED time
  /\ UNCHANGED <<m_exposure, mode, time_ms>>

(* m_exposure takes the value whatever the device said. *)
Store(c) ==
  /\ Goto(c, "store", "idle")
  /\ m_exposure' = time_ms[c]
  /\ UNCHANGED <<mode, time, time_ms, synced>>

Next ==
  \E c \in Callers :
    \/ \E t \in Times \cup {Automatic} : SetExposure(c, t)
    \/ Differs(c) \/ SetAuto(c) \/ WasAuto(c) \/ SetManual(c) \/ SetTime(c) \/ Store(c)

Spec == Init /\ [][Next]_vars

-----------------------------------------------------------------------------
(* Properties *)

(* The types of the variables. *)
TypeOK ==
  /\ m_exposure \in Times \cup {Automatic}
  /\ mode \in {"auto", "manual"} /\ time \in {NoTime} \cup {10 * t : t \in Times}
  /\ at \in [Callers -> {"idle", "differs", "setAuto", "wasAuto", "setManual", "setTime", "store"}]
  /\ time_ms \in [Callers -> Times \cup {Automatic}]
  /\ synced \in BOOLEAN

(* The device exposes the way GetExposure reports. *)
DeviceAgrees ==
  IF m_exposure = Automatic THEN mode = "auto"
  ELSE mode = "manual" /\ time = 10 * m_exposure

(* Between two calls, whoever asks for the exposure gets the device's own. *)
ExposureReported == (\A c \in Callers : at[c] = "idle") => DeviceAgrees

(* set_exposure changes the mode only when the remembered value says that  *)
(* it must, so a wrong memory could stay wrong for good.  It does not: a   *)
(* call that sets automatic exposure, and is alone when it does, makes up  *)
(* for whatever refusals and overlapping calls have left, and from then on *)
(* ExposureReported holds until the next refusal or the next overlap.      *)
ReportedOnceAuto == synced => ExposureReported
=============================================================================
