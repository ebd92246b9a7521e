------------------------------ MODULE GrabImage ------------------------------
(***************************************************************************)
(* The two grab filters, UfWebCamera_GrabImage_Synchronous and             *)
(* UfWebCamera_GrabImage_WithTimeout (sources/main.cpp), on top of the     *)
(* frame queue of ParaQueue.tla.  Every filter thread is one grab filter   *)
(* of the same camera index, invoked over and over by the host.            *)
(*                                                                         *)
(* An Invoke polls can_grab until it answers yes, calls grab_image -       *)
(* has_enqueued once more, then pop - ignores what grab_image returns,     *)
(* reads the frame rate and writes its outputs from the member that        *)
(* grab_image fills.                                                       *)
(***************************************************************************)
EXTENDS ParaQueue

CONSTANTS
  Timed,     \* the filters that are UfWebCamera_GrabImage_WithTimeout
  MaxTear    \* timing assumption: pushes that fit between two adjacent loads

ASSUME GrabImageAssumption ==
  /\ Timed \subseteq Consumers
  /\ MaxTear \in Nat

VARIABLES
  at,         \* where each filter is in Invoke
  expired,    \* "elapsed > threshold", for the filters with a timeout
  cancelled,  \* IsWorkCancelled()
  outImage,   \* the member grab_image fills: outImage, or transImage
  written,    \* the outputs of each filter's last Invoke
  lastOut     \* history: the newest frame each filter has written

grabVars == <<at, expired, cancelled, outImage, written, lastOut>>
allVars  == <<vars, grabVars>>

GrabInit ==
  /\ Init
  /\ at = [c \in Consumers |-> "idle"]
  /\ expired = [c \in Consumers |-> FALSE]
  /\ cancelled = FALSE
  /\ outImage = [c \in Consumers |-> NoFrame]
  /\ written = [c \in Consumers |-> [status |-> "none", image |-> NoFrame, fps |-> NoPeriod]]
  /\ lastOut = [c \in Consumers |-> NoFrame]

Goto(c, from, to) ==
  /\ at[c] = from
  /\ at' = [at EXCEPT ![c] = to]

(* The host calls Invoke; WithTimeout notes the time. *)
Invoke(c) ==
  /\ Goto(c, "idle", "canGrab")
  /\ expired' = [expired EXCEPT ![c] = FALSE]
  /\ UNCHANGED <<vars, cancelled, outImage, written, lastOut>>

(* has_enqueued, called by can_grab and once more by grab_image. *)
CheckBegin(c) ==
  /\ Goto(c, "canGrab", "canGrabReturn") \/ Goto(c, "grabCheck", "grabCheckReturn")
  /\ LoadFinish(c) \/ LoadStart(c)
  /\ UNCHANGED <<expired, cancelled, outImage, written, lastOut>>

(* Faulty: "if" in place of "while". *)
CanGrabReturnOnce(c) ==
  /\ HasEnqueuedReturn(c)
  /\ Goto(c, "canGrabReturn", "grabCheck")
  /\ UNCHANGED <<expired, cancelled, outImage, written, lastOut>>

(* while (!m_camera->can_grab()) *)
CanGrabReturn(c) ==
  /\ HasEnqueuedReturn(c)
  /\ \/ answer'[c] /\ Goto(c, "canGrabReturn", "grabCheck")
     \/ ~answer'[c] /\ Goto(c, "canGrabReturn", "wait")
  /\ UNCHANGED <<expired, cancelled, outImage, written, lastOut>>

GiveUpCancelledOnly(c) ==
  /\ cancelled
  /\ Goto(c, "wait", IF c \in Timed THEN "idle" ELSE "ended")
  /\ outImage' = [outImage EXCEPT ![c] = NoFrame]
  /\ UNCHANGED <<vars, expired, cancelled, written, lastOut>>

(* The loop's early return: an empty image and the end of the loop for     *)
(* Synchronous, Nil and the next iteration for WithTimeout.                *)
GiveUp(c) ==
  /\ \/ /\ c \notin Timed /\ cancelled
        /\ Goto(c, "wait", "ended")
        /\ written' = [written EXCEPT ![c] = [status |-> "end", image |-> NoFrame, fps |-> NoPeriod]]
     \/ /\ c \in Timed /\ (cancelled \/ expired[c])
        /\ Goto(c, "wait", "idle")
        /\ written' = [written EXCEPT ![c] = [status |-> "nil", image |-> NoFrame, fps |-> NoPeriod]]
  /\ outImage' = [outImage EXCEPT ![c] = NoFrame]
  /\ UNCHANGED <<vars, expired, cancelled, lastOut>>

Sleep(c) ==
  /\ ~cancelled
  /\ ~(c \in Timed /\ expired[c])
  /\ Goto(c, "wait", "canGrab")
  /\ UNCHANGED <<vars, expired, cancelled, outImage, written, lastOut>>

(* Faulty: the queue is never popped. *)
GrabCheckReturnNoPop(c) ==
  /\ HasEnqueuedReturn(c)
  /\ Goto(c, "grabCheckReturn", "fps")
  /\ UNCHANGED <<expired, cancelled, outImage, written, lastOut>>

(* grab_image: if (m_queue.has_enqueued()) return m_queue.pop(image). *)
GrabCheckReturn(c) ==
  /\ HasEnqueuedReturn(c)
  /\ \/ answer'[c] /\ Goto(c, "grabCheckReturn", "pop")
     \/ ~answer'[c] /\ Goto(c, "grabCheckReturn", "fps")
  /\ UNCHANGED <<expired, cancelled, outImage, written, lastOut>>

PopBegin(c) ==
  /\ Goto(c, "pop", "popReturn")
  /\ PopLock(c)
  /\ UNCHANGED <<expired, cancelled, outImage, written, lastOut>>

PopEnd(c) ==
  /\ Goto(c, "popReturn", "fps")
  /\ PopReturn(c)
  /\ outImage' = [outImage EXCEPT ![c] = IF answer'[c] THEN image'[c] ELSE @]
  /\ UNCHANGED <<expired, cancelled, written, lastOut>>

FpsBegin(c) ==
  /\ Goto(c, "fps", "fpsReturn")
  /\ FpsLock(c)
  /\ UNCHANGED <<expired, cancelled, outImage, written, lastOut>>

(* Faulty: the frame rate of the Invoke before is written again. *)
FpsEndStale(c) ==
  /\ Goto(c, "fpsReturn", "write")
  /\ m_period_mutex' = Free /\ op' = [op EXCEPT ![c] = "none"]
  /\ UNCHANGED <<queueVars, timeVars, m_mutex, pcap, loaded, answer, image, fps, delivered>>
  /\ UNCHANGED <<expired, cancelled, outImage, written, lastOut>>

FpsEnd(c) ==
  /\ Goto(c, "fpsReturn", "write")
  /\ FpsReturn(c)
  /\ UNCHANGED <<expired, cancelled, outImage, written, lastOut>>

(* WriteOutput(outImage), WriteOutput(outFPS), return INVOKE_LOOP. *)
Write(c) ==
  /\ Goto(c, "write", "idle")
  /\ written' = [written EXCEPT ![c] = [status |-> "loop", image |-> outImage[c], fps |-> fps[c]]]
  /\ lastOut' = [lastOut EXCEPT ![c] = outImage[c]]
  /\ UNCHANGED <<vars, expired, cancelled, outImage>>

(* The statements of Invoke after the host has called it. *)
Step(c) ==
  \/ CheckBegin(c) \/ CanGrabReturn(c) \/ GiveUp(c) \/ Sleep(c)
  \/ GrabCheckReturn(c) \/ PopBegin(c) \/ PopEnd(c)
  \/ FpsBegin(c) \/ FpsEnd(c) \/ Write(c)

(* The environment: the clock passes a filter's threshold, the host cancels. *)
Expire(c) ==
  /\ c \in Timed /\ at[c] # "idle" /\ ~expired[c]
  /\ expired' = [expired EXCEPT ![c] = TRUE]
  /\ UNCHANGED <<vars, at, cancelled, outImage, written, lastOut>>

Cancel ==
  /\ ~cancelled
  /\ cancelled' = TRUE
  /\ UNCHANGED <<vars, at, expired, outImage, written, lastOut>>

(* The two loads of a has_enqueued are adjacent instructions: no more than *)
(* MaxTear pushes append between them.                                     *)
Prompt ==
  \A c \in Consumers : op[c] = "sawFinish" => finish - loaded[c] <= MaxTear

PushStep == Push /\ Prompt' /\ UNCHANGED grabVars

GrabNext ==
  \/ PushStep
  \/ Cancel
  \/ \E c \in Consumers : Invoke(c) \/ Step(c) \/ Expire(c)

GrabSpec == GrabInit /\ [][GrabNext]_allVars

(* Fairness: a running thread leaves the statement it is in, and a thread  *)
(* that waits for a mutex which is released over and over gets it.  The    *)
(* filters sleep 5 ms between two polls, so neither mutex stays taken.     *)
(* Strong fairness of a push that has begun also answers for Prompt, which *)
(* holds the model's push back but never the real one.  The host calls     *)
(* Invoke again after INVOKE_LOOP, and the clock passes every threshold.   *)
GrabFairness ==
  /\ SF_allVars(pcap # "idle" /\ PushStep)
  /\ \A c \in Consumers :
       /\ WF_allVars(Step(c)) /\ SF_allVars(PopBegin(c)) /\ SF_allVars(FpsBegin(c))
       /\ WF_allVars(Expire(c))

HostLoops == \A c \in Consumers : WF_allVars(Invoke(c))

FairGrabSpec == GrabSpec /\ GrabFairness /\ HostLoops

-----------------------------------------------------------------------------
(* Properties *)

InvokeLocations ==
  {"idle", "canGrab", "canGrabReturn", "wait", "grabCheck", "grabCheckReturn",
   "pop", "popReturn", "fps", "fpsReturn", "write", "ended"}
Outputs == [status : {"none", "loop", "nil", "end"}, image : Nat, fps : Period]

(* The types of the variables this module adds to ParaQueue's. *)
GrabTypeOK ==
  /\ at \in [Consumers -> InvokeLocations]
  /\ expired \in [Consumers -> BOOLEAN]
  /\ cancelled \in BOOLEAN
  /\ outImage \in [Consumers -> Nat]
  /\ written \in [Consumers -> Outputs]
  /\ lastOut \in [Consumers -> Nat]

(* Invoke ignores what grab_image returns, so it must be that grab_image   *)
(* never fails after can_grab said yes: what a filter is about to write is *)
(* a frame newer than every frame it wrote before, never a leftover.       *)
FreshImage == \A c \in Consumers : at[c] = "write" => outImage[c] > lastOut[c]

(* The frame rate written beside an image was computed when that image had *)
(* already been counted, although Invoke reads it after pop has let go of  *)
(* the queue and under another mutex.                                      *)
FpsCoversImage ==
  \A c \in Consumers :
    (at[c] = "write" /\ outImage[c] >= MinTimes) => fps[c].newest >= outImage[c]

(* Two filters that share a camera index share its frames: no frame is the *)
(* last one written by both.                                               *)
NoSharedFrame ==
  \A c, d \in Consumers :
    (c # d /\ lastOut[c] # NoFrame) => lastOut[c] # lastOut[d]

(* No frame is overlooked for good: once the camera has pushed frame f and *)
(* as long as the host does not cancel, some filter writes f or a newer    *)
(* frame, although polling and pushing are not synchronised.               *)
KeepsUp ==
  \A f \in 1..MaxFrames :
    (finish >= f) ~> (cancelled \/ \E c \in Consumers : lastOut[c] >= f)

(* Every Invoke of a filter with a timeout returns, with an image or       *)
(* without, and so does every other Invoke after the host cancels.         *)
InvokeReturns ==
  \A c \in Consumers :
    (at[c] # "idle" /\ (c \in Timed \/ cancelled)) ~> (at[c] \in {"idle", "ended"})
=============================================================================
