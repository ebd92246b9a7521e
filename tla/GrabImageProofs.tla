--------------------------- MODULE GrabImageProofs ---------------------------
(***************************************************************************)
(* Theorems of GrabImage.                                                  *)
(*                                                                         *)
(* Every step of a filter is a step of the frame queue or leaves the queue *)
(* alone, so all of ParaQueueProofs holds here.  GInv adds what relates a  *)
(* filter's image to the queue, for any number of filters; AloneInv adds   *)
(* what a filter may conclude from a has_enqueued that took no lock when   *)
(* no other filter uses its camera.                                        *)
(***************************************************************************)
EXTENDS GrabImage, ParaQueueProofs

(* A filter is inside the call of the queue that its location names. *)
CallInv ==
  \A c \in Consumers :
    /\ (at[c] \in {"canGrabReturn", "grabCheckReturn"}) <=> (op[c] \in {"sawFinish", "sawStart"})
    /\ (at[c] = "popReturn") <=> (op[c] = "pop")
    /\ (at[c] = "fpsReturn") <=> (op[c] = "fps")

(* Images come out of the queue. *)
ImageInv == \A c \in Consumers : outImage[c] <= start /\ lastOut[c] <= start

(* No two filters hold or have last written the same frame. *)
ApartInv ==
  \A c, d \in Consumers : c # d =>
    \A f \in {outImage[c], lastOut[c]} \ {NoFrame} : f \notin {outImage[d], lastOut[d]}

GInv == IInv /\ GrabTypeOK /\ CallInv /\ ImageInv /\ ApartInv /\ FpsCoversImage

(* No other filter uses the camera. *)
SingleFilter == \A c, d \in Consumers : c = d

(* What a lone filter may rely on.  Only a trimming push can remove frames *)
(* behind its back, and a push trims only a queue that stays full.         *)
AloneAt(c) ==
  /\ at[c] \in {"grabCheck", "grabCheckReturn", "pop", "popReturn"} => start < finish
  /\ op[c] = "sawFinish" =>
       /\ loaded[c] <= finish
       /\ start <= loaded[c] \/ finish - start >= MaxQueueSize
       /\ at[c] = "grabCheckReturn" => start < loaded[c]
  /\ op[c] = "sawStart" =>
       /\ loaded[c] <= start
       /\ start = loaded[c] \/ finish - start >= MaxQueueSize
       /\ at[c] = "grabCheckReturn" => loaded[c] < finish
  /\ at[c] \in {"fps", "fpsReturn", "write"} => outImage[c] > lastOut[c]

AloneInv == \A c \in Consumers : AloneAt(c)

-----------------------------------------------------------------------------
(* The filters use the queue as ParaQueue says *)

LEMMA StepIsQueueStep == GrabNext => [Next]_vars
<1> SUFFICES ASSUME GrabNext PROVE Next \/ UNCHANGED vars
  OBVIOUS
<1>1. CASE PushStep
  BY <1>1 DEF PushStep, Next
<1>2. CASE Cancel
  BY <1>2 DEF Cancel
<1>3. CASE \E c \in Consumers : Invoke(c) \/ Expire(c)
  BY <1>3 DEF Invoke, Expire
<1>4. ASSUME NEW c \in Consumers, Step(c) PROVE Call(c) \/ UNCHANGED vars
  BY <1>4 DEF Step, CheckBegin, CanGrabReturn, GiveUp, Sleep, GrabCheckReturn,
     PopBegin, PopEnd, FpsBegin, FpsEnd, Write, Call
<1> QED
  BY <1>1, <1>2, <1>3, <1>4 DEF GrabNext, Next

(* The grab filters only ever use the queue as its specification allows,   *)
(* so its properties hold of the filters too.                              *)
THEOREM GrabUsesQueue == GrabSpec => Spec
<1>1. GrabInit => Init
  BY DEF GrabInit
<1>2. [GrabNext]_allVars => [Next]_vars
  BY StepIsQueueStep DEF allVars
<1> QED
  BY <1>1, <1>2, PTL DEF GrabSpec, Spec

(* The ends of the deque only move forward, and the queue stays within its *)
(* bounds.                                                                 *)
LEMMA QueueMoves ==
  ASSUME IInv, [Next]_vars
  PROVE  /\ start \in Nat /\ finish \in Nat /\ start <= finish
         /\ start' \in Nat /\ finish' \in Nat /\ start' <= finish'
         /\ start' >= start /\ finish' >= finish
<1>1. TypeOK /\ LockInv /\ ContentInv
  BY DEF IInv
<1>2. TypeOK' /\ ContentInv'
  BY NextIInv DEF IInv
<1>3. start' \in {start, start + 1} /\ finish' \in {finish, finish + 1}
  BY <1>1, FrameSteps
<1> QED
  BY <1>1, <1>2, <1>3 DEF TypeOK, ContentInv

(* A push moves no variable of a call, and takes frames off the queue only *)
(* while more than MaxQueueSize are in it.                                 *)
LEMMA PushMoves ==
  ASSUME IInv, PushStep
  PROVE  /\ UNCHANGED <<callVars, grabVars, delivered>>
         /\ Prompt'
         /\ \/ UNCHANGED start /\ finish' \in {finish, finish + 1}
            \/ start' = start + 1 /\ UNCHANGED finish /\ finish - start > MaxQueueSize
<1>1. Push /\ Prompt' /\ UNCHANGED grabVars
  BY DEF PushStep
<1>2. UNCHANGED <<callVars, delivered>>
  BY <1>1 DEF Push, PushLock, UpdateTimes, PeriodLock, SetPeriod, Enqueue, Trim, PushUnlock
<1>3. TypeOK /\ LockInv /\ ContentInv /\ [Next]_vars
  BY <1>1 DEF IInv, Next
<1>4. Append(delivered, Head(m_queue)) # delivered \/ m_queue = <<>>
  <2> SUFFICES ASSUME m_queue # <<>> PROVE Append(delivered, Head(m_queue)) # delivered
    OBVIOUS
  <2>1. Head(m_queue) \in Nat /\ delivered \in Seq(Nat)
    BY <1>3, HeadTail DEF TypeOK
  <2>2. Len(Append(delivered, Head(m_queue))) = Len(delivered) + 1 /\ Len(delivered) \in Nat
    BY <2>1, Appended
  <2> QED
    BY <2>2
<1>5. \/ UNCHANGED start /\ finish' \in {finish, finish + 1}
      \/ start' = start + 1 /\ UNCHANGED finish /\ Len(m_queue) > MaxQueueSize
  BY <1>2, <1>3, <1>4, FrameSteps
<1> QED
  BY <1>1, <1>2, <1>3, <1>5 DEF ContentInv

(* A pop that finds a frame hands out the one after start. *)
LEMMA PopMoves ==
  ASSUME IInv, NEW c \in Consumers, PopReturn(c)
  PROVE  /\ UNCHANGED <<finish, loaded, fps>>
         /\ op' = [op EXCEPT ![c] = "none"]
         /\ \/ /\ start < finish /\ start' = start + 1
               /\ answer'[c] = TRUE /\ image'[c] = start + 1
            \/ start = finish /\ start' = start /\ answer'[c] = FALSE
<1>1. /\ m_queue \in Seq(Nat) /\ start \in Nat /\ finish \in Nat
      /\ Len(m_queue) = finish - start
      /\ answer \in [Consumers -> BOOLEAN] /\ image \in [Consumers -> Nat]
  BY DEF IInv, TypeOK, ContentInv
<1>2. UNCHANGED <<finish, loaded, fps>> /\ op' = [op EXCEPT ![c] = "none"]
  BY DEF PopReturn
<1>3. CASE m_queue = <<>>
  <2>1. answer'[c] = FALSE /\ start' = start
    BY <1>1, <1>3 DEF PopReturn
  <2>2. start = finish
    BY <1>1, <1>3
  <2> QED
    BY <1>2, <2>1, <2>2
<1>4. CASE m_queue # <<>>
  <2>1. answer'[c] = TRUE /\ start' = start + 1 /\ image'[c] = Head(m_queue)
    BY <1>1, <1>4 DEF PopReturn
  <2>2. Head(m_queue) = m_queue[1] /\ Len(m_queue) >= 1
    BY <1>1, <1>4, HeadTail
  <2>3. m_queue[1] = start + 1
    BY <2>2 DEF IInv, ContentInv, TypeOK
  <2>4. start < finish
    BY <1>1, <2>2
  <2> QED
    BY <1>2, <2>1, <2>2, <2>3, <2>4
<1> QED
  BY <1>3, <1>4

-----------------------------------------------------------------------------
(* Types and locations *)

LEMMA GrabTypeStep == IInv /\ GrabTypeOK /\ GrabNext => GrabTypeOK'
<1> SUFFICES ASSUME IInv, GrabTypeOK, GrabNext PROVE GrabTypeOK'
  OBVIOUS
<1> USE DEF GrabTypeOK, InvokeLocations, grabVars, Goto
<1>1. TypeOK /\ TypeOK'
  BY NextIInv, StepIsQueueStep DEF IInv
<1>2. CASE PushStep
  BY <1>2 DEF PushStep
<1>3. CASE Cancel
  BY <1>3 DEF Cancel
<1>4. ASSUME NEW c \in Consumers, Invoke(c) PROVE GrabTypeOK'
  BY <1>4 DEF Invoke
<1>5. ASSUME NEW c \in Consumers, Expire(c) PROVE GrabTypeOK'
  BY <1>5 DEF Expire
<1>6. ASSUME NEW c \in Consumers, Step(c) PROVE GrabTypeOK'
  <2>1. CASE CheckBegin(c)
    BY <2>1 DEF CheckBegin
  <2>2. CASE CanGrabReturn(c)
    BY <2>2 DEF CanGrabReturn
  <2>3. CASE GiveUp(c)
    <3>1. written' \in [Consumers -> Outputs]
      BY <1>1, <2>3 DEF GiveUp, Outputs, Period, NoPeriod, NoFrame
    <3>2. outImage' \in [Consumers -> Nat]
      BY <2>3 DEF GiveUp, NoFrame
    <3>3. at' \in [Consumers -> InvokeLocations] /\ UNCHANGED <<expired, cancelled, lastOut>>
      BY <2>3 DEF GiveUp
    <3> QED
      BY <3>1, <3>2, <3>3
  <2>4. CASE Sleep(c)
    BY <2>4 DEF Sleep
  <2>5. CASE GrabCheckReturn(c)
    BY <2>5 DEF GrabCheckReturn
  <2>6. CASE PopBegin(c)
    BY <2>6 DEF PopBegin
  <2>7. CASE PopEnd(c)
    BY <1>1, <2>7 DEF PopEnd, TypeOK
  <2>8. CASE FpsBegin(c)
    BY <2>8 DEF FpsBegin
  <2>9. CASE FpsEnd(c)
    BY <2>9 DEF FpsEnd
  <2>10. CASE Write(c)
    <3>1. written' \in [Consumers -> Outputs]
      BY <1>1, <2>10 DEF Write, Outputs, TypeOK
    <3>2. lastOut' \in [Consumers -> Nat] /\ at' \in [Consumers -> InvokeLocations]
          /\ UNCHANGED <<expired, cancelled, outImage>>
      BY <2>10 DEF Write
    <3> QED
      BY <3>1, <3>2
  <2> QED
    BY <1>6, <2>1, <2>2, <2>3, <2>4, <2>5, <2>6, <2>7, <2>8, <2>9, <2>10 DEF Step
<1> QED
  BY <1>2, <1>3, <1>4, <1>5, <1>6 DEF GrabNext

(* The location of a filter in Invoke tells which call it is in. *)
LEMMA CallStep == IInv /\ GrabTypeOK /\ CallInv /\ GrabNext => CallInv'
<1> SUFFICES ASSUME IInv, GrabTypeOK, CallInv, GrabNext PROVE CallInv'
  OBVIOUS
<1> USE DEF CallInv, GrabTypeOK, InvokeLocations, grabVars, callVars, Goto
<1>1. op \in [Consumers -> CallLocations]
  BY DEF IInv, TypeOK
<1>2. CASE PushStep
  BY <1>2, PushMoves
<1>3. CASE Cancel
  BY <1>3 DEF Cancel, vars
<1>4. ASSUME NEW c \in Consumers, Invoke(c) \/ Expire(c) PROVE CallInv'
  BY <1>1, <1>4 DEF Invoke, Expire, vars
<1>5. ASSUME NEW c \in Consumers, Step(c) PROVE CallInv'
  <2> USE <1>1 DEF CallLocations
  <2>1. CASE CheckBegin(c)
    BY <2>1 DEF CheckBegin, LoadFinish, LoadStart
  <2>2. CASE CanGrabReturn(c)
    BY <2>2 DEF CanGrabReturn, HasEnqueuedReturn
  <2>3. CASE GiveUp(c)
    BY <2>3 DEF GiveUp, vars
  <2>4. CASE Sleep(c)
    BY <2>4 DEF Sleep, vars
  <2>5. CASE GrabCheckReturn(c)
    BY <2>5 DEF GrabCheckReturn, HasEnqueuedReturn
  <2>6. CASE PopBegin(c)
    BY <2>6 DEF PopBegin, PopLock
  <2>7. CASE PopEnd(c)
    <3>1. op' = [op EXCEPT ![c] = "none"] /\ Goto(c, "popReturn", "fps")
      BY <2>7 DEF PopEnd, PopReturn
    <3> QED
      BY <3>1
  <2>8. CASE FpsBegin(c)
    BY <2>8 DEF FpsBegin, FpsLock
  <2>9. CASE FpsEnd(c)
    BY <2>9 DEF FpsEnd, FpsReturn
  <2>10. CASE Write(c)
    BY <2>10 DEF Write, vars
  <2> QED
    BY <1>5, <2>1, <2>2, <2>3, <2>4, <2>5, <2>6, <2>7, <2>8, <2>9, <2>10 DEF Step
<1> QED
  BY <1>2, <1>3, <1>4, <1>5 DEF GrabNext

-----------------------------------------------------------------------------
(* Images *)

(* What a step does to the images the filters hold and have written.       *)
LEMMA ImageMoves ==
  ASSUME IInv, GrabTypeOK, CallInv, GrabNext
  PROVE
    \/ UNCHANGED <<outImage, lastOut>>
    \/ \E c \in Consumers :
         /\ at[c] = "popReturn" /\ UNCHANGED lastOut
         /\ start' = start + 1 /\ outImage' = [outImage EXCEPT ![c] = start + 1]
    \/ \E c \in Consumers :
         /\ at[c] = "wait" /\ at'[c] \in {"idle", "ended"}
         /\ UNCHANGED lastOut /\ outImage' = [outImage EXCEPT ![c] = NoFrame]
    \/ \E c \in Consumers :
         /\ at[c] = "write" /\ at'[c] = "idle"
         /\ UNCHANGED outImage /\ lastOut' = [lastOut EXCEPT ![c] = outImage[c]]
<1> USE DEF grabVars, Goto, GrabTypeOK
<1>1. CASE PushStep
  BY <1>1, PushMoves
<1>2. CASE Cancel
  BY <1>2 DEF Cancel
<1>3. CASE \E c \in Consumers : Invoke(c) \/ Expire(c)
  BY <1>3 DEF Invoke, Expire
<1>4. ASSUME NEW c \in Consumers, PopEnd(c)
      PROVE  \/ UNCHANGED <<outImage, lastOut>>
             \/ /\ at[c] = "popReturn" /\ UNCHANGED lastOut
                /\ start' = start + 1 /\ outImage' = [outImage EXCEPT ![c] = start + 1]
  <2>1. /\ PopReturn(c) /\ at[c] = "popReturn" /\ UNCHANGED lastOut
        /\ outImage' = [outImage EXCEPT ![c] = IF answer'[c] THEN image'[c] ELSE @]
    BY <1>4 DEF PopEnd
  <2>2. CASE start < finish /\ start' = start + 1 /\ answer'[c] = TRUE /\ image'[c] = start + 1
    BY <2>1, <2>2
  <2>3. CASE answer'[c] = FALSE
    BY <2>1, <2>3
  <2> QED
    BY <2>1, <2>2, <2>3, PopMoves
<1>5. ASSUME NEW c \in Consumers, GiveUp(c)
      PROVE  /\ at[c] = "wait" /\ at'[c] \in {"idle", "ended"}
             /\ UNCHANGED lastOut /\ outImage' = [outImage EXCEPT ![c] = NoFrame]
  BY <1>5 DEF GiveUp
<1>6. ASSUME NEW c \in Consumers, Write(c)
      PROVE  /\ at[c] = "write" /\ at'[c] = "idle"
             /\ UNCHANGED outImage /\ lastOut' = [lastOut EXCEPT ![c] = outImage[c]]
  BY <1>6 DEF Write
<1>7. ASSUME NEW c \in Consumers, Step(c), ~PopEnd(c), ~GiveUp(c), ~Write(c)
      PROVE  UNCHANGED <<outImage, lastOut>>
  BY <1>7 DEF Step, CheckBegin, CanGrabReturn, Sleep, GrabCheckReturn, PopBegin, FpsBegin, FpsEnd
<1> QED
  BY <1>1, <1>2, <1>3, <1>4, <1>5, <1>6, <1>7 DEF GrabNext

(* A filter's image is one that has left the queue, and no two filters     *)
(* hold or have last written the same one.                                 *)
LEMMA ImageStep ==
  IInv /\ GrabTypeOK /\ CallInv /\ ImageInv /\ ApartInv /\ GrabNext
    => ImageInv' /\ ApartInv'
<1> SUFFICES ASSUME IInv, GrabTypeOK, CallInv, ImageInv, ApartInv, GrabNext
             PROVE  ImageInv' /\ ApartInv'
  OBVIOUS
<1>1. /\ start \in Nat /\ start' \in Nat /\ start' >= start
      /\ outImage \in [Consumers -> Nat] /\ lastOut \in [Consumers -> Nat]
  BY QueueMoves, StepIsQueueStep DEF GrabTypeOK
<1> USE <1>1 DEF ImageInv, ApartInv, NoFrame
<1>2. CASE UNCHANGED <<outImage, lastOut>>
  BY <1>2
<1>3. CASE \E c \in Consumers :
             /\ UNCHANGED lastOut
             /\ start' = start + 1 /\ outImage' = [outImage EXCEPT ![c] = start + 1]
  BY <1>3
<1>4. CASE \E c \in Consumers :
             UNCHANGED lastOut /\ outImage' = [outImage EXCEPT ![c] = NoFrame]
  BY <1>4
<1>5. CASE \E c \in Consumers :
             UNCHANGED outImage /\ lastOut' = [lastOut EXCEPT ![c] = outImage[c]]
  BY <1>5
<1> QED
  BY <1>2, <1>3, <1>4, <1>5, ImageMoves

(* get_fps is called after pop, so it counts the image that pop returned.  *)
LEMMA FpsStep ==
  IInv /\ GrabTypeOK /\ CallInv /\ ImageInv /\ FpsCoversImage /\ GrabNext
    => FpsCoversImage'
<1> SUFFICES ASSUME IInv, GrabTypeOK, CallInv, ImageInv, FpsCoversImage, GrabNext,
                    NEW d \in Consumers, at'[d] = "write", outImage'[d] >= MinTimes
             PROVE  fps'[d].newest >= outImage'[d]
  BY DEF FpsCoversImage
<1> USE DEF Goto, grabVars, callVars, GrabTypeOK, FpsCoversImage
<1>1. CASE PushStep
  BY <1>1, PushMoves
<1>2. CASE Cancel
  BY <1>2 DEF Cancel, vars
<1>3. CASE \E c \in Consumers : Invoke(c) \/ Expire(c)
  BY <1>3 DEF Invoke, Expire, vars
<1>4. CASE FpsEnd(d)
  <2>1. /\ start \in Nat /\ finish \in Nat /\ start <= finish /\ MinTimes \in Nat
        /\ m_period \in Period /\ fps \in [Consumers -> Period] /\ outImage[d] \in Nat
    BY ParaQueueAssumption DEF IInv, TypeOK, ContentInv
  <2>2. fps'[d] = m_period /\ outImage'[d] = outImage[d]
    BY <1>4, <2>1 DEF FpsEnd, FpsReturn
  <2>3. outImage[d] <= start
    BY DEF ImageInv
  <2>4. m_period.newest >= finish
    BY <2>1, <2>2, <2>3 DEF IInv, TimeInv
  <2>5. m_period.newest \in Nat
    BY <2>1 DEF Period
  <2> QED
    BY <2>1, <2>2, <2>3, <2>4, <2>5
<1>5. ASSUME NEW c \in Consumers, Step(c), ~FpsEnd(d)
      PROVE  at[d] = "write" /\ fps'[d] = fps[d] /\ outImage'[d] = outImage[d]
  <2>1. fps \in [Consumers -> Period] /\ outImage \in [Consumers -> Nat]
    BY DEF IInv, TypeOK
  <2>2. CASE FpsEnd(c)
    BY <1>5, <2>1, <2>2 DEF FpsEnd, FpsReturn
  <2>3. CASE PopEnd(c)
    <3>1. UNCHANGED fps /\ Goto(c, "popReturn", "fps")
      BY <2>3 DEF PopEnd, PopReturn
    <3>2. c # d
      BY <3>1
    <3>3. outImage'[d] = outImage[d]
      BY <2>1, <2>3, <3>2 DEF PopEnd
    <3> QED
      BY <3>1, <3>2, <3>3
  <2>4. CASE ~FpsEnd(c) /\ ~PopEnd(c)
    <3>1. UNCHANGED fps
      BY <1>5, <2>4 DEF Step, CheckBegin, LoadFinish, LoadStart, CanGrabReturn,
         HasEnqueuedReturn, GiveUp, Sleep, GrabCheckReturn, PopBegin, PopLock,
         FpsBegin, FpsLock, Write, vars
    <3>2. at[d] = "write" /\ outImage'[d] = outImage[d]
      BY <1>5, <2>1, <2>4 DEF Step, CheckBegin, CanGrabReturn, GiveUp, Sleep,
         GrabCheckReturn, PopBegin, FpsBegin, Write
    <3> QED
      BY <3>1, <3>2
  <2> QED
    BY <2>2, <2>3, <2>4
<1> QED
  BY <1>1, <1>2, <1>3, <1>4, <1>5 DEF GrabNext

-----------------------------------------------------------------------------
(* A filter alone with its camera *)

(* has_enqueued takes no lock, yet its yes can be trusted when nobody else *)
(* pops and no more than MaxQueueSize - 1 frames arrive between its loads. *)
LEMMA AloneStep ==
  ASSUME SingleFilter, MaxTear < MaxQueueSize,
         IInv, GrabTypeOK, CallInv, ImageInv, AloneInv, GrabNext
  PROVE  AloneInv'
<1> SUFFICES ASSUME NEW c \in Consumers PROVE AloneAt(c)'
  BY DEF AloneInv
<1>1. AloneAt(c)
  BY DEF AloneInv
<1>2. /\ start \in Nat /\ finish \in Nat /\ start <= finish
      /\ MaxQueueSize \in Nat \ {0} /\ MaxTear \in Nat
      /\ op \in [Consumers -> CallLocations] /\ loaded \in [Consumers -> Nat]
      /\ answer \in [Consumers -> BOOLEAN]
      /\ outImage \in [Consumers -> Nat] /\ lastOut \in [Consumers -> Nat]
      /\ at \in [Consumers -> InvokeLocations]
  BY ParaQueueAssumption, GrabImageAssumption DEF IInv, TypeOK, ContentInv, GrabTypeOK
<1>3. \A d \in Consumers : d = c
  BY DEF SingleFilter
<1>4. /\ (at[c] \in {"canGrabReturn", "grabCheckReturn"}) <=> (op[c] \in {"sawFinish", "sawStart"})
      /\ (at[c] = "popReturn") <=> (op[c] = "pop")
      /\ (at[c] = "fpsReturn") <=> (op[c] = "fps")
  BY DEF CallInv
<1>5. CASE PushStep
  <2>1. /\ UNCHANGED <<op, loaded, at, outImage, lastOut>>
        /\ op'[c] = "sawFinish" => finish' - loaded'[c] <= MaxTear
    BY <1>5, PushMoves DEF callVars, grabVars, Prompt
  <2>2. CASE UNCHANGED start /\ finish' \in {finish, finish + 1}
    <3>1. CASE finish' = finish
      BY <1>1, <2>1, <2>2, <3>1 DEF AloneAt
    <3>2. CASE finish' = finish + 1
      BY <1>1, <1>2, <2>1, <2>2, <3>2 DEF AloneAt
    <3> QED
      BY <2>2, <3>1, <3>2
  <2>3. CASE start' = start + 1 /\ UNCHANGED finish /\ finish - start > MaxQueueSize
    BY <1>1, <1>2, <2>1, <2>3 DEF AloneAt
  <2> QED
    BY <1>5, <2>2, <2>3, PushMoves
<1>6. CASE Cancel
  BY <1>1, <1>6 DEF Cancel, vars, queueVars, callVars, AloneAt
<1>7. CASE Invoke(c) \/ Expire(c)
  BY <1>1, <1>2, <1>4, <1>7 DEF Invoke, Expire, Goto, vars, queueVars, callVars, AloneAt
<1>8. CASE CheckBegin(c)
  <2>1. /\ UNCHANGED <<queueVars, outImage, lastOut>>
        /\ \/ at[c] = "canGrab" /\ at' = [at EXCEPT ![c] = "canGrabReturn"]
           \/ at[c] = "grabCheck" /\ at' = [at EXCEPT ![c] = "grabCheckReturn"]
        /\ \/ op' = [op EXCEPT ![c] = "sawFinish"] /\ loaded' = [loaded EXCEPT ![c] = finish]
           \/ op' = [op EXCEPT ![c] = "sawStart"] /\ loaded' = [loaded EXCEPT ![c] = start]
    BY <1>8 DEF CheckBegin, LoadFinish, LoadStart, Goto
  <2> QED
    BY <1>1, <1>2, <2>1 DEF AloneAt, queueVars
<1>9. ASSUME HasEnqueuedReturn(c)
      PROVE  /\ UNCHANGED queueVars /\ op'[c] = "none"
             /\ \/ answer'[c] = TRUE /\ start < finish
                \/ answer'[c] = FALSE /\ at[c] # "grabCheckReturn"
  <2>1. UNCHANGED queueVars /\ op'[c] = "none"
    BY <1>2, <1>9 DEF HasEnqueuedReturn
  <2>2. CASE op[c] = "sawFinish"
    <3>1. answer'[c] = (loaded[c] # start)
      BY <1>2, <1>9, <2>2 DEF HasEnqueuedReturn
    <3>2. loaded[c] # start => start < finish
      BY <1>1, <1>2, <2>2 DEF AloneAt
    <3>3. loaded[c] = start => at[c] # "grabCheckReturn"
      BY <1>1, <1>2, <2>2 DEF AloneAt
    <3>4. answer'[c] = TRUE <=> loaded[c] # start
      BY <3>1
    <3> QED
      BY <1>2, <2>1, <3>1, <3>2, <3>3, <3>4
  <2>3. CASE op[c] = "sawStart"
    <3>1. answer'[c] = (loaded[c] # finish)
      BY <1>2, <1>9, <2>3 DEF HasEnqueuedReturn
    <3>2. loaded[c] # finish => start < finish
      BY <1>1, <1>2, <2>3 DEF AloneAt
    <3>3. loaded[c] = finish => at[c] # "grabCheckReturn"
      BY <1>1, <1>2, <2>3 DEF AloneAt
    <3>4. answer'[c] = TRUE <=> loaded[c] # finish
      BY <3>1
    <3> QED
      BY <1>2, <2>1, <3>1, <3>2, <3>3, <3>4
  <2> QED
    BY <1>9, <2>2, <2>3 DEF HasEnqueuedReturn
<1>10. CASE CanGrabReturn(c)
  <2>1. /\ HasEnqueuedReturn(c) /\ UNCHANGED <<outImage, lastOut>>
        /\ \/ answer'[c] /\ at'[c] = "grabCheck"
           \/ at'[c] = "wait"
    BY <1>2, <1>10 DEF CanGrabReturn, Goto
  <2>2. answer'[c] = FALSE \/ start < finish
    BY <1>9, <2>1
  <2>3. at'[c] = "wait" \/ (at'[c] = "grabCheck" /\ start < finish)
    BY <2>1, <2>2
  <2> QED
    BY <1>2, <1>9, <2>1, <2>3 DEF AloneAt, queueVars
<1>11. CASE GrabCheckReturn(c)
  <2>1. /\ HasEnqueuedReturn(c) /\ UNCHANGED <<outImage, lastOut>> /\ at[c] = "grabCheckReturn"
        /\ at'[c] = "pop" \/ ~answer'[c]
    BY <1>2, <1>11 DEF GrabCheckReturn, Goto
  <2>2. at'[c] = "pop" /\ start < finish
    BY <1>1, <1>9, <2>1 DEF AloneAt
  <2> QED
    BY <1>9, <2>1, <2>2 DEF AloneAt, queueVars
<1>12. CASE PopBegin(c)
  <2>1. /\ at[c] = "pop" /\ at'[c] = "popReturn" /\ op'[c] = "pop"
        /\ UNCHANGED <<queueVars, outImage, lastOut>>
    BY <1>2, <1>12 DEF PopBegin, PopLock, Goto
  <2> QED
    BY <1>1, <2>1 DEF AloneAt, queueVars
<1>13. CASE PopEnd(c)
  <2>1. /\ PopReturn(c) /\ at[c] = "popReturn" /\ at'[c] = "fps" /\ UNCHANGED lastOut
        /\ outImage'[c] = IF answer'[c] THEN image'[c] ELSE outImage[c]
    BY <1>2, <1>13 DEF PopEnd, Goto
  <2>2. start < finish
    BY <1>1, <2>1 DEF AloneAt
  <2>3. /\ op' = [op EXCEPT ![c] = "none"]
        /\ answer'[c] = TRUE /\ image'[c] = start + 1 /\ start' = start + 1
    <3>1. start # finish
      BY <1>2, <2>2
    <3> QED
      BY <2>1, <3>1, PopMoves
  <2>4. lastOut[c] <= start
    BY DEF ImageInv
  <2> QED
    BY <1>2, <2>1, <2>3, <2>4 DEF AloneAt
<1>14. CASE FpsBegin(c) \/ FpsEnd(c)
  <2>1. /\ at[c] \in {"fps", "fpsReturn"} /\ at'[c] \in {"fpsReturn", "write"}
        /\ op'[c] \in {"fps", "none"} /\ UNCHANGED <<outImage, lastOut>>
    BY <1>2, <1>14 DEF FpsBegin, FpsLock, FpsEnd, FpsReturn, Goto
  <2> QED
    BY <1>1, <2>1 DEF AloneAt
<1>15. CASE GiveUp(c) \/ Sleep(c) \/ Write(c)
  <2>1. /\ at[c] \in {"wait", "write"} /\ at'[c] \in {"idle", "ended", "canGrab"}
        /\ UNCHANGED op
    BY <1>2, <1>15 DEF GiveUp, Sleep, Write, Goto, vars, callVars
  <2> QED
    BY <1>2, <1>4, <2>1 DEF AloneAt
<1> QED
  BY <1>3, <1>5, <1>6, <1>7, <1>8, <1>10, <1>11, <1>12, <1>13, <1>14, <1>15
  DEF GrabNext, Step

-----------------------------------------------------------------------------
(* The theorems *)

LEMMA GrabInitInv == GrabInit => GInv /\ AloneInv
<1> SUFFICES ASSUME GrabInit PROVE GInv /\ AloneInv
  OBVIOUS
<1> USE DEF GrabInit, NoFrame
<1>1. IInv
  BY InitIInv
<1>2. GrabTypeOK
  BY DEF GrabTypeOK, InvokeLocations, Outputs, Period, NoPeriod
<1>3. CallInv /\ ImageInv /\ ApartInv /\ FpsCoversImage
  BY DEF Init, CallInv, ImageInv, ApartInv, FpsCoversImage
<1>4. AloneInv
  BY DEF Init, AloneInv, AloneAt
<1> QED
  BY <1>1, <1>2, <1>3, <1>4 DEF GInv

LEMMA GrabNextInv == GInv /\ [GrabNext]_allVars => GInv'
<1> SUFFICES ASSUME GInv, [GrabNext]_allVars PROVE GInv'
  OBVIOUS
<1>1. IInv /\ GrabTypeOK /\ CallInv /\ ImageInv /\ ApartInv /\ FpsCoversImage
  BY DEF GInv
<1>2. CASE GrabNext
  BY <1>1, <1>2, StepIsQueueStep, NextIInv, GrabTypeStep, CallStep, ImageStep, FpsStep DEF GInv
<1>3. CASE UNCHANGED allVars
  <2>1. UNCHANGED vars /\ UNCHANGED grabVars
    BY <1>3 DEF allVars
  <2>2. IInv'
    BY <1>1, <2>1, NextIInv
  <2>3. UNCHANGED <<op, start, fps, at, expired, cancelled, outImage, written, lastOut>>
    BY <2>1 DEF vars, grabVars, queueVars, callVars
  <2> QED
    BY <1>1, <2>2, <2>3 DEF GInv, GrabTypeOK, CallInv, ImageInv, ApartInv, FpsCoversImage
<1> QED
  BY <1>2, <1>3

(* The invariant of the grab filters, for any number of them. *)
THEOREM GrabInvariance == GrabSpec => []GInv
<1>1. GrabInit => GInv
  BY GrabInitInv
<1>2. GInv /\ [GrabNext]_allVars => GInv'
  BY GrabNextInv
<1> QED
  BY <1>1, <1>2, PTL DEF GrabSpec

(* The variables of the filters keep their types. *)
THEOREM GrabTypeCorrect == GrabSpec => []GrabTypeOK
<1>1. GInv => GrabTypeOK
  BY DEF GInv
<1> QED
  BY <1>1, GrabInvariance, PTL

(* The frame rate written beside an image was computed with that image     *)
(* counted, for any number of filters on the camera.                       *)
THEOREM FpsIsCurrent == GrabSpec => []FpsCoversImage
<1>1. GInv => FpsCoversImage
  BY DEF GInv
<1> QED
  BY <1>1, GrabInvariance, PTL

(* However many filters share a camera, no frame is the last output of two *)
(* of them.                                                                *)
THEOREM FramesNotShared == GrabSpec => []NoSharedFrame
<1>1. GInv => NoSharedFrame
  <2> SUFFICES ASSUME GInv, NEW c \in Consumers, NEW d \in Consumers, c # d,
                      lastOut[c] # NoFrame
               PROVE  lastOut[c] # lastOut[d]
    BY DEF NoSharedFrame
  <2> QED
    BY DEF GInv, ApartInv
<1> QED
  BY <1>1, GrabInvariance, PTL

(* A filter that is alone with its camera never writes a leftover image:   *)
(* can_grab's yes still holds when grab_image pops, although neither check *)
(* takes the lock, provided fewer than MaxQueueSize frames arrive between  *)
(* the two loads of one check.  With two filters it is false: see the run  *)
(* grab_two_filters_one_camera.                                            *)
THEOREM FreshWhenAlone ==
  ASSUME SingleFilter, MaxTear < MaxQueueSize
  PROVE  GrabSpec => []FreshImage
<1>1. GrabInit => GInv /\ AloneInv
  BY GrabInitInv
<1>2. GInv /\ AloneInv /\ [GrabNext]_allVars => (GInv /\ AloneInv)'
  <2> SUFFICES ASSUME GInv, AloneInv, [GrabNext]_allVars PROVE GInv' /\ AloneInv'
    OBVIOUS
  <2>1. GInv'
    BY GrabNextInv
  <2>2. CASE GrabNext
    BY <2>1, <2>2, AloneStep DEF GInv
  <2>3. CASE UNCHANGED allVars
    <3>1. UNCHANGED <<start, finish, op, loaded, at, outImage, lastOut>>
      BY <2>3 DEF allVars, vars, grabVars, queueVars, callVars
    <3> QED
      BY <2>1, <3>1 DEF AloneInv, AloneAt
  <2> QED
    BY <2>1, <2>2, <2>3
<1>3. AloneInv => FreshImage
  BY DEF AloneInv, AloneAt, FreshImage
<1> QED
  BY <1>1, <1>2, <1>3, PTL DEF GrabSpec
-----------------------------------------------------------------------------
(* How long an Invoke can take *)

(* The steps that an Invoke has still to take, when it polls no more.      *)
InvokeLeft(c) ==
  CASE at[c] = "canGrab"         -> 10
    [] at[c] = "canGrabReturn"   -> 9
    [] at[c] = "grabCheck"       -> 8
    [] at[c] = "grabCheckReturn" -> 7
    [] at[c] = "pop"             -> 6
    [] at[c] = "popReturn"       -> 5
    [] at[c] = "fps"             -> 4
    [] at[c] = "fpsReturn"       -> 3
    [] at[c] = "write"           -> 2
    [] at[c] = "wait"            -> 1
    [] OTHER                     -> 0

(* The Invoke is to end: cancelled, or past its threshold. *)
Due(c) == at[c] \notin {"idle", "ended"} /\ (cancelled \/ (c \in Timed /\ expired[c]))

(* A step of another thread leaves an Invoke where it is, and due.         *)
LEMMA OthersLeave ==
  ASSUME GrabTypeOK, GrabNext, NEW c \in Consumers, ~Step(c), Due(c)
  PROVE  at'[c] = at[c] /\ Due(c)'
<1> USE DEF GrabTypeOK, Due, Goto
<1>1. CASE PushStep
  BY <1>1 DEF PushStep, grabVars
<1>2. CASE Cancel
  BY <1>2 DEF Cancel
<1>3. ASSUME NEW d \in Consumers, Invoke(d) PROVE at'[c] = at[c] /\ Due(c)'
  BY <1>3 DEF Invoke
<1>4. ASSUME NEW d \in Consumers, Expire(d) PROVE at'[c] = at[c] /\ Due(c)'
  BY <1>4 DEF Expire
<1>5. ASSUME NEW d \in Consumers, Step(d) PROVE at'[c] = at[c] /\ Due(c)'
  <2>1. c # d /\ UNCHANGED <<expired, cancelled>> /\ \E l : at' = [at EXCEPT ![d] = l]
    BY <1>5 DEF Step, CheckBegin, CanGrabReturn, GiveUp, Sleep, GrabCheckReturn, PopBegin,
       PopEnd, FpsBegin, FpsEnd, Write
  <2> QED
    BY <2>1
<1> QED
  BY <1>1, <1>2, <1>3, <1>4, <1>5 DEF GrabNext

(* A step of a due Invoke goes forward. *)
LEMMA DueStep ==
  ASSUME GrabTypeOK, NEW c \in Consumers, Step(c), Due(c)
  PROVE  InvokeLeft(c)' < InvokeLeft(c)
<1> USE DEF GrabTypeOK, InvokeLeft, Goto
<1>1. CASE CheckBegin(c)
  BY <1>1 DEF CheckBegin
<1>2. CASE CanGrabReturn(c)
  BY <1>2 DEF CanGrabReturn
<1>3. CASE GiveUp(c)
  BY <1>3 DEF GiveUp
<1>4. CASE Sleep(c)
  BY <1>4 DEF Sleep, Due
<1>5. CASE GrabCheckReturn(c)
  BY <1>5 DEF GrabCheckReturn
<1>6. CASE PopBegin(c)
  BY <1>6 DEF PopBegin
<1>7. CASE PopEnd(c)
  BY <1>7 DEF PopEnd
<1>8. CASE FpsBegin(c)
  BY <1>8 DEF FpsBegin
<1>9. CASE FpsEnd(c)
  BY <1>9 DEF FpsEnd
<1>10. CASE Write(c)
  BY <1>10 DEF Write
<1> QED
  BY <1>1, <1>2, <1>3, <1>4, <1>5, <1>6, <1>7, <1>8, <1>9, <1>10 DEF Step

(* Once its threshold has passed or the host has cancelled, an Invoke ends *)
(* within ten steps of its own: each brings it nearer, and no other thread *)
(* sets it back or makes it poll again.                                    *)
THEOREM InvokeAdvances ==
  GrabSpec => [][\A c \in Consumers : Due(c) =>
                   /\ InvokeLeft(c) \in 1..10
                   /\ \/ Step(c) /\ InvokeLeft(c)' < InvokeLeft(c)
                      \/ InvokeLeft(c)' = InvokeLeft(c) /\ Due(c)']_allVars
<1>1. ASSUME GrabTypeOK, GrabNext, NEW c \in Consumers, Due(c)
      PROVE  /\ InvokeLeft(c) \in 1..10
             /\ \/ Step(c) /\ InvokeLeft(c)' < InvokeLeft(c)
                \/ InvokeLeft(c)' = InvokeLeft(c) /\ Due(c)'
  <2>1. InvokeLeft(c) \in 1..10
    BY <1>1 DEF GrabTypeOK, InvokeLocations, InvokeLeft, Due
  <2>2. CASE Step(c)
    BY <1>1, <2>1, <2>2, DueStep
  <2>3. CASE ~Step(c)
    <3>1. at'[c] = at[c] /\ Due(c)'
      BY <1>1, <2>3, OthersLeave
    <3>2. InvokeLeft(c)' = InvokeLeft(c)
      BY <3>1, Zenon DEF InvokeLeft
    <3> QED
      BY <2>1, <3>1, <3>2
  <2> QED
    BY <2>2, <2>3
<1>2. GInv /\ [GrabNext]_allVars =>
        [\A c \in Consumers : Due(c) =>
           /\ InvokeLeft(c) \in 1..10
           /\ \/ Step(c) /\ InvokeLeft(c)' < InvokeLeft(c)
              \/ InvokeLeft(c)' = InvokeLeft(c) /\ Due(c)']_allVars
  BY <1>1 DEF GInv
<1> QED
  BY <1>2, GrabInvariance, PTL DEF GrabSpec
=============================================================================
