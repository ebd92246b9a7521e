---------------------------- MODULE CaptureTimer ----------------------------
(***************************************************************************)
(* The time that captureLoop waits for a frame (sources/webcamera.cpp).    *)
(* update_camera_external_timer computes tv from the frame rate; every     *)
(* select gets the address of tv itself, and select on Linux writes back   *)
(* the time that was left.  Nothing sets tv again before the next          *)
(* set_max_framerate.                                                      *)
(*                                                                         *)
(* Time is counted in milliseconds and passes while the loop waits; its    *)
(* other statements take none.  What WebCamera.tla says of the device and  *)
(* of the calls' statements is not repeated here.                          *)
(***************************************************************************)
EXTENDS Integers

CONSTANTS
  Rates,  \* the frame rates of the camera: inFPS, inFpsLimit
  Huge    \* the outcome, on some machines, of converting an infinite time to int

ASSUME CaptureTimerAssumption == Rates \subseteq Nat /\ Huge \in Nat

VARIABLES
  m_max_framerate,
  tv,         \* the time left for select
  waited,     \* how long the select that is running has waited
  capture,    \* where the capture thread is: "test", "select", "exited"
  m_running,
  ready,      \* the device has a frame
  joining     \* how long a caller has been waiting for the capture thread

vars == <<m_max_framerate, tv, waited, capture, m_running, ready, joining>>

(* Faulty: a factor of ten. *)
TimerTenfold(rate) == IF rate > 0 THEN {100000 \div rate} ELSE {-1, Huge}

(* floor(1. / rate * 10000) / 10000 * 10000000, in microseconds.  For 0    *)
(* the conversion of infinity to int is undefined: INT_MIN or INT_MAX.     *)
Timer(rate) == IF rate > 0 THEN {10000 \div rate} ELSE {-1, Huge}

Init ==
  /\ m_max_framerate \in Rates
  /\ tv \in Timer(m_max_framerate) /\ waited = 0
  /\ capture = "test" /\ m_running = TRUE
  /\ ready = FALSE
  /\ joining = 0

(* while (m_running) *)
LoopTest ==
  /\ capture = "test"
  /\ \/ m_running /\ capture' = "select"
     \/ ~m_running /\ capture' = "exited"
  /\ UNCHANGED <<m_max_framerate, tv, waited, m_running, ready, joining>>

(* Faulty: a frame is only seen while there is time left. *)
FrameInTime ==
  /\ capture = "select" /\ ready /\ waited < tv
  /\ tv' = tv - waited /\ waited' = 0
  /\ ready' = FALSE
  /\ capture' = "test"
  /\ UNCHANGED <<m_max_framerate, m_running, joining>>

(* isReadable says yes: the frame is read and queued. *)
Frame ==
  /\ capture = "select" /\ ready /\ tv >= 0
  /\ tv' = tv - waited /\ waited' = 0
  /\ ready' = FALSE
  /\ capture' = "test"
  /\ UNCHANGED <<m_max_framerate, m_running, joining>>

Timeout ==
  /\ capture = "select" /\ ~ready
  /\ waited = tv
  /\ tv' = 0 /\ waited' = 0
  /\ capture' = "test"
  /\ UNCHANGED <<m_max_framerate, m_running, ready, joining>>

(* EINVAL: isReadable says no, whatever the device has. *)
SelectFails ==
  /\ capture = "select" /\ tv < 0
  /\ capture' = "test"
  /\ UNCHANGED <<m_max_framerate, tv, waited, m_running, ready, joining>>

(* A millisecond passes. *)
Tick ==
  /\ capture = "select" /\ ~ready /\ waited < tv
  /\ waited' = waited + 1
  /\ joining' = IF m_running THEN 0 ELSE joining + 1
  /\ UNCHANGED <<m_max_framerate, tv, capture, m_running, ready>>

FrameArrives ==
  /\ ~ready
  /\ ready' = TRUE
  /\ UNCHANGED <<m_max_framerate, tv, waited, capture, m_running, joining>>

(* set_max_framerate: m_running goes false; after the join, the restart    *)
(* drops what the device had and tv is computed anew.                      *)
Stop ==
  /\ m_running
  /\ m_running' = FALSE
  /\ UNCHANGED <<m_max_framerate, tv, waited, capture, ready, joining>>

Restart ==
  /\ ~m_running /\ capture = "exited"
  /\ m_max_framerate' \in Rates
  /\ tv' \in Timer(m_max_framerate') /\ waited' = 0
  /\ capture' = "test" /\ m_running' = TRUE
  /\ ready' = FALSE /\ joining' = 0

Loop == LoopTest \/ Frame \/ Timeout \/ SelectFails

Next == Loop \/ Tick \/ FrameArrives \/ Stop \/ Restart

Spec == Init /\ [][Next]_vars

(* Fairness: the capture thread runs and time passes. *)
FairSpec == Spec /\ WF_vars(Loop) /\ WF_vars(Tick)

-----------------------------------------------------------------------------
(* Properties *)

(* The types of the variables. *)
TypeOK ==
  /\ m_max_framerate \in Rates
  /\ tv \in Int /\ waited \in 0..(IF tv > 0 THEN tv ELSE 0)
  /\ capture \in {"test", "select", "exited"}
  /\ {m_running, ready} \subseteq BOOLEAN
  /\ joining \in Nat

(* A caller that has cleared m_running waits for ten frame periods at      *)
(* most, however slow the camera is: that is how long set_max_framerate    *)
(* and close_acquisition block in the join.  At rate 0, whose period is    *)
(* infinite, this says nothing.                                            *)
JoinsSoon == joining * m_max_framerate <= 10000

(* A frame that the device has is taken, or the loop is being stopped, at  *)
(* every rate but 0 (where select may fail for ever): also when select has *)
(* used tv up and the loop polls without time to wait.  At rate 0 nothing  *)
(* is promised.                                                            *)
FramesTaken ==
  (ready /\ m_running /\ m_max_framerate > 0) ~> (~ready \/ ~m_running)
=============================================================================
