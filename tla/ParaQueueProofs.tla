--------------------------- MODULE ParaQueueProofs ---------------------------
(***************************************************************************)
(* Theorems of ParaQueue, for every number of filter threads, every queue  *)
(* size and every number of frames.                                        *)
(*                                                                         *)
(* The safety properties are not inductive on their own.  IInv below joins *)
(* the types, who holds which mutex, what the deque contains between its   *)
(* two ends, what has been delivered or lost, and how far the time stamps  *)
(* are ahead of the queue; each part is kept by every step given the rest. *)
(***************************************************************************)
EXTENDS ParaQueue, TLAPS

(* A mutex is held by the thread that is in its critical section. *)
LockInv ==
  /\ (m_mutex = Capture) <=> (pcap # "idle")
  /\ \A c \in Consumers : (m_mutex = c) <=> (op[c] = "pop")
  /\ (m_period_mutex = Capture) <=> (pcap = "period")
  /\ \A c \in Consumers : (m_period_mutex = c) <=> (op[c] = "fps")

(* The queue holds the frames start + 1 to finish, and one too many only   *)
(* while push trims.                                                       *)
ContentInv ==
  /\ start <= finish
  /\ Len(m_queue) = finish - start
  /\ \A i \in 1..Len(m_queue) : m_queue[i] = start + i
  /\ Len(m_queue) <= MaxQueueSize + (IF pcap = "trim" THEN 1 ELSE 0)

(* Delivered frames left the queue in order, and a frame that left it      *)
(* without being delivered is at least MaxQueueSize frames old.            *)
DeliveredInv ==
  /\ \A i \in 1..Len(delivered) : delivered[i] \in 1..start
  /\ DeliveredInOrder
  /\ \A f \in 1..start :
       f > finish - MaxQueueSize => \E i \in 1..Len(delivered) : delivered[i] = f

(* The frame whose time was taken last: one ahead of the queue while push  *)
(* is between update_times and m_queue.push.                               *)
Stamped ==
  IF pcap \in {"periodLock", "period", "enqueue"} THEN finish + 1 ELSE finish

(* Consecutive time stamps, the last one that of frame f. *)
Counts(q, f) == \A i \in 1..Len(q) : q[i] = f - Len(q) + i

TimeInv ==
  /\ Len(m_time_queue) = IF Stamped <= TimeQueueLength THEN Stamped ELSE TimeQueueLength
  /\ Counts(m_time_queue, Stamped)
  /\ finish >= MinTimes => m_period.newest >= finish
  /\ (pcap = "enqueue" /\ finish + 1 >= MinTimes) => m_period.newest >= finish + 1

(* A period was computed from MinTimes time stamps or more, and from all   *)
(* of those between its two frames.                                        *)
Dense(p) ==
  p # NoPeriod => (p.stamps = p.newest - p.oldest + 1 /\ p.stamps >= MinTimes)

PeriodInv ==
  /\ pcap \in {"periodLock", "period"} => Len(m_time_queue) >= MinTimes
  /\ Dense(m_period)
  /\ \A c \in Consumers : Dense(fps[c])

(* The end that a has_enqueued call has loaded may be old, but the deque's *)
(* ends only move forward.                                                 *)
LoadedInv ==
  \A c \in Consumers :
    /\ op[c] = "sawFinish" => loaded[c] <= finish
    /\ op[c] = "sawStart"  => loaded[c] <= start

IInv == TypeOK /\ LockInv /\ ContentInv /\ DeliveredInv /\ TimeInv /\ PeriodInv /\ LoadedInv

-----------------------------------------------------------------------------
(* Sequences *)

(* What the head and the tail of a non-empty queue are. *)
LEMMA HeadTail ==
  ASSUME NEW q \in Seq(Nat), q # <<>>
  PROVE  /\ Head(q) \in Nat /\ Head(q) = q[1]
         /\ Tail(q) \in Seq(Nat) /\ Len(Tail(q)) = Len(q) - 1 /\ Len(q) >= 1
         /\ \A i \in 1..Len(Tail(q)) : Tail(q)[i] = q[i + 1]
  OBVIOUS

(* Both ends of a non-empty queue hold one of its elements. *)
LEMMA Ends ==
  ASSUME NEW q \in Seq(Nat), q # <<>>
  PROVE  Head(q) \in Nat /\ q[Len(q)] \in Nat
<1>1. Len(q) \in 1..Len(q)
  BY HeadTail
<1> QED
  BY <1>1, HeadTail

(* What appending to a queue does. *)
LEMMA Appended ==
  ASSUME NEW q \in Seq(Nat), NEW f \in Nat
  PROVE  /\ Append(q, f) \in Seq(Nat) /\ Len(Append(q, f)) = Len(q) + 1
         /\ Append(q, f)[Len(q) + 1] = f
         /\ \A i \in 1..Len(q) : Append(q, f)[i] = q[i]
  OBVIOUS

(* Consecutive time stamps stay so when the next one is appended ...       *)
LEMMA CountsAppend ==
  ASSUME NEW q \in Seq(Nat), NEW f \in Nat, Counts(q, f)
  PROVE  Counts(Append(q, f + 1), f + 1)
<1> DEFINE r == Append(q, f + 1)
<1>1. Len(q) \in Nat /\ Len(r) = Len(q) + 1 /\ r[Len(q) + 1] = f + 1
  BY Appended
<1>2. \A i \in 1..Len(q) : r[i] = q[i]
  BY Appended
<1> HIDE DEF r
<1> SUFFICES ASSUME NEW i \in 1..Len(r) PROVE r[i] = f + 1 - Len(r) + i
  BY DEF Counts, r
<1>3. CASE i \in 1..Len(q)
  <2>1. r[i] = f - Len(q) + i
    BY <1>2, <1>3 DEF Counts
  <2> QED
    BY <1>1, <2>1
<1>4. CASE i = Len(q) + 1
  BY <1>1, <1>4
<1> QED
  BY <1>1, <1>3, <1>4

(* ... and when the first one is taken away.                               *)
LEMMA CountsTail ==
  ASSUME NEW q \in Seq(Nat), q # <<>>, NEW f \in Nat, Counts(q, f)
  PROVE  Counts(Tail(q), f)
<1> DEFINE r == Tail(q)
<1>1. Len(q) \in Nat /\ Len(r) = Len(q) - 1
  BY HeadTail
<1>2. \A i \in 1..Len(r) : r[i] = q[i + 1]
  BY HeadTail
<1> HIDE DEF r
<1> SUFFICES ASSUME NEW i \in 1..Len(r) PROVE r[i] = f - Len(r) + i
  BY DEF Counts, r
<1>3. i + 1 \in 1..Len(q)
  BY <1>1
<1>4. q[i + 1] = f - Len(q) + (i + 1)
  BY <1>3 DEF Counts
<1> QED
  BY <1>1, <1>2, <1>4

-----------------------------------------------------------------------------
(* Types *)

(* The variables keep their types: frames and positions are numbers, and   *)
(* the mutexes belong to a thread of the program or to nobody.             *)
LEMMA TypeInit == Init => TypeOK
  BY ParaQueueAssumption
  DEF Init, TypeOK, CaptureLocations, CallLocations, Period, NoFrame, NoPeriod

LEMMA TypePush == TypeOK /\ TimeInv /\ Push => TypeOK'
<1> SUFFICES ASSUME TypeOK, TimeInv, Push PROVE TypeOK'
  OBVIOUS
<1> USE DEF TypeOK, CaptureLocations, CallLocations, Period, queueVars, timeVars, lockVars, callVars
<1>1. CASE PushLock
  BY <1>1 DEF PushLock
<1>2. CASE UpdateTimes
  <2> DEFINE times == Append(m_time_queue, finish + 1)
  <2>1. times \in Seq(Nat) /\ Len(times) = Len(m_time_queue) + 1
    BY Appended
  <2> HIDE DEF times
  <2>2. times # <<>> /\ Tail(times) \in Seq(Nat)
    BY <2>1, HeadTail
  <2>3. /\ m_time_queue' \in {times, Tail(times)}
        /\ pcap' \in {"enqueue", "periodLock"}
        /\ UNCHANGED <<queueVars, m_period, lockVars, callVars, delivered>>
    BY <1>2 DEF UpdateTimes, times
  <2>4. m_time_queue' \in Seq(Nat)
    BY <2>1, <2>2, <2>3
  <2> QED
    BY <2>3, <2>4
<1>3. CASE PeriodLock
  BY <1>3 DEF PeriodLock
<1>4. CASE SetPeriod
  <2>1. Len(m_time_queue) \in Nat /\ m_time_queue # <<>>
    <3>1. Len(m_time_queue) = IF finish + 1 <= TimeQueueLength THEN finish + 1 ELSE TimeQueueLength
      BY <1>4 DEF SetPeriod, TimeInv, Stamped
    <3> QED
      BY <3>1, ParaQueueAssumption
  <2>2. m_time_queue \in Seq(Nat)
    OBVIOUS
  <2>3. Head(m_time_queue) \in Nat /\ m_time_queue[Len(m_time_queue)] \in Nat
    BY ONLY <2>1, <2>2, Ends
  <2> QED
    BY <1>4, <2>1, <2>3 DEF SetPeriod
<1>5. CASE Enqueue
  <2>1. Append(m_queue, finish + 1) \in Seq(Nat) /\ finish + 1 \in Nat
    BY Appended
  <2> QED
    BY <1>5, <2>1 DEF Enqueue
<1>6. CASE Trim
  <2>1. m_queue # <<>>
    BY <1>6, ParaQueueAssumption DEF Trim
  <2>2. Tail(m_queue) \in Seq(Nat) /\ start + 1 \in Nat
    BY <2>1, HeadTail
  <2> QED
    BY <1>6, <2>2 DEF Trim
<1>7. CASE PushUnlock
  BY <1>7 DEF PushUnlock
<1> QED
  BY <1>1, <1>2, <1>3, <1>4, <1>5, <1>6, <1>7 DEF Push

LEMMA TypeCall == TypeOK /\ (\E c \in Consumers : Call(c)) => TypeOK'
<1> SUFFICES ASSUME TypeOK, NEW c \in Consumers, Call(c) PROVE TypeOK'
  OBVIOUS
<1> USE DEF TypeOK, CaptureLocations, CallLocations, Period, queueVars, timeVars, lockVars, callVars
<1>1. CASE LoadFinish(c)
  BY <1>1 DEF LoadFinish
<1>2. CASE LoadStart(c)
  BY <1>2 DEF LoadStart
<1>3. CASE HasEnqueuedReturn(c)
  BY <1>3 DEF HasEnqueuedReturn
<1>4. CASE PopLock(c)
  BY <1>4 DEF PopLock
<1>5. CASE PopReturn(c)
  <2>1. CASE m_queue = <<>>
    BY <1>5, <2>1 DEF PopReturn
  <2>2. CASE m_queue # <<>>
    <3>1. /\ Head(m_queue) \in Nat /\ Tail(m_queue) \in Seq(Nat)
          /\ Append(delivered, Head(m_queue)) \in Seq(Nat)
      BY <2>2, HeadTail, Appended
    <3>2. /\ m_queue' = Tail(m_queue) /\ start' = start + 1
          /\ delivered' = Append(delivered, Head(m_queue))
          /\ m_mutex' = Free
          /\ UNCHANGED <<finish, timeVars, m_period_mutex, pcap, loaded, fps>>
      BY <1>5, <2>2 DEF PopReturn
    <3>3. /\ answer' \in [Consumers -> BOOLEAN]
          /\ image' \in [Consumers -> Nat]
          /\ op' \in [Consumers -> CallLocations]
      <4>1. /\ answer' = [answer EXCEPT ![c] = TRUE]
            /\ image' = [image EXCEPT ![c] = Head(m_queue)]
            /\ op' = [op EXCEPT ![c] = "none"]
        BY <1>5, <2>2 DEF PopReturn
      <4> QED
        BY <3>1, <4>1
    <3>4. m_queue' \in Seq(Nat) /\ delivered' \in Seq(Nat) /\ start' \in Nat
      BY <3>1, <3>2
    <3>5. m_mutex' \in Consumers \cup {Capture, Free}
      BY <3>2
    <3>6. /\ finish' \in Nat /\ pcap' \in CaptureLocations
          /\ m_time_queue' \in Seq(Nat) /\ m_period' \in Period
          /\ m_period_mutex' \in Consumers \cup {Capture, Free}
      BY <3>2
    <3>7. loaded' \in [Consumers -> Nat] /\ fps' \in [Consumers -> Period]
      BY <3>2
    <3> HIDE DEF Period, CaptureLocations, CallLocations
    <3> QED
      BY <3>3, <3>4, <3>5, <3>6, <3>7
  <2> QED
    BY <2>1, <2>2
<1>6. CASE FpsLock(c)
  BY <1>6 DEF FpsLock
<1>7. CASE FpsReturn(c)
  BY <1>7 DEF FpsReturn
<1> QED
  BY <1>1, <1>2, <1>3, <1>4, <1>5, <1>6, <1>7 DEF Call

-----------------------------------------------------------------------------
(* Mutual exclusion *)

(* Each mutex is held by exactly the thread inside its critical section.   *)
LEMMA LockStep == TypeOK /\ LockInv /\ Next => LockInv'
<1> SUFFICES ASSUME TypeOK, LockInv, Next PROVE LockInv'
  OBVIOUS
<1> USE ParaQueueAssumption DEF TypeOK, LockInv, CaptureLocations, CallLocations,
        queueVars, timeVars, lockVars, callVars
<1>1. ASSUME Push PROVE LockInv'
  <2>1. CASE PushLock
    BY <2>1 DEF PushLock
  <2>2. CASE UpdateTimes
    <3>1. /\ pcap = "times" /\ pcap' \in {"enqueue", "periodLock"}
          /\ UNCHANGED <<lockVars, callVars>>
      BY <2>2 DEF UpdateTimes
    <3> QED
      BY <3>1
  <2>3. CASE PeriodLock
    BY <2>3 DEF PeriodLock
  <2>4. CASE SetPeriod
    BY <2>4 DEF SetPeriod
  <2>5. CASE Enqueue
    BY <2>5 DEF Enqueue
  <2>6. CASE Trim
    BY <2>6 DEF Trim
  <2>7. CASE PushUnlock
    BY <2>7 DEF PushUnlock
  <2> QED
    BY <1>1, <2>1, <2>2, <2>3, <2>4, <2>5, <2>6, <2>7 DEF Push
<1>2. ASSUME NEW c \in Consumers, Call(c) PROVE LockInv'
  <2>1. CASE LoadFinish(c)
    BY <2>1 DEF LoadFinish
  <2>2. CASE LoadStart(c)
    BY <2>2 DEF LoadStart
  <2>3. CASE HasEnqueuedReturn(c)
    BY <2>3 DEF HasEnqueuedReturn
  <2>4. CASE PopLock(c)
    BY <2>4 DEF PopLock
  <2>5. CASE PopReturn(c)
    BY <2>5 DEF PopReturn
  <2>6. CASE FpsLock(c)
    BY <2>6 DEF FpsLock
  <2>7. CASE FpsReturn(c)
    BY <2>7 DEF FpsReturn
  <2> QED
    BY <1>2, <2>1, <2>2, <2>3, <2>4, <2>5, <2>6, <2>7 DEF Call
<1> QED
  BY <1>1, <1>2 DEF Next

-----------------------------------------------------------------------------
(* What a step does to the frames.  Only three steps touch them; every     *)
(* later lemma reasons from these facts instead of from the actions.       *)

(* push adds the next frame, a full queue loses its oldest, pop hands the  *)
(* oldest out, and nothing else moves a frame.                             *)
LEMMA FrameSteps ==
  ASSUME TypeOK, LockInv, [Next]_vars
  PROVE
    \/ /\ pcap = "enqueue" /\ pcap' = "trim"
       /\ m_queue' = Append(m_queue, finish + 1) /\ finish' = finish + 1
       /\ UNCHANGED <<start, delivered>>
    \/ /\ pcap = "trim" /\ pcap' = "trim" /\ Len(m_queue) > MaxQueueSize
       /\ m_queue' = Tail(m_queue) /\ start' = start + 1
       /\ UNCHANGED <<finish, delivered>>
    \/ /\ pcap = "idle" /\ pcap' = "idle" /\ m_queue # <<>>
       /\ delivered' = Append(delivered, Head(m_queue))
       /\ m_queue' = Tail(m_queue) /\ start' = start + 1
       /\ UNCHANGED finish
    \/ /\ pcap = "trim" => (pcap' = "trim" \/ Len(m_queue) <= MaxQueueSize)
       /\ pcap' = "trim" => pcap = "trim"
       /\ UNCHANGED <<m_queue, start, finish, delivered>>
<1> USE ParaQueueAssumption DEF TypeOK, LockInv, CaptureLocations, CallLocations,
        queueVars, timeVars, lockVars, callVars
<1>1. CASE PushLock
  BY <1>1 DEF PushLock
<1>2. CASE UpdateTimes
  BY <1>2, Zenon DEF UpdateTimes
<1>3. CASE PeriodLock
  BY <1>3 DEF PeriodLock
<1>4. CASE SetPeriod
  BY <1>4 DEF SetPeriod
<1>5. CASE Enqueue
  BY <1>5 DEF Enqueue
<1>6. CASE Trim
  BY <1>6 DEF Trim
<1>7. CASE PushUnlock
  BY <1>7 DEF PushUnlock
<1>8. ASSUME NEW c \in Consumers, PopReturn(c)
      PROVE  /\ pcap = "idle" /\ UNCHANGED <<pcap, finish>>
             /\ \/ UNCHANGED <<m_queue, start, delivered>>
                \/ /\ m_queue # <<>> /\ m_queue' = Tail(m_queue) /\ start' = start + 1
                   /\ delivered' = Append(delivered, Head(m_queue))
  <2>1. pcap = "idle"
    BY <1>8 DEF PopReturn
  <2> QED
    BY <1>8, <2>1 DEF PopReturn
<1>9. ASSUME NEW c \in Consumers, Call(c), ~PopReturn(c)
      PROVE  UNCHANGED <<pcap, m_queue, start, finish, delivered>>
  BY <1>9 DEF Call, LoadFinish, LoadStart, HasEnqueuedReturn, PopLock, FpsLock, FpsReturn
<1>10. CASE UNCHANGED vars
  BY <1>10 DEF vars
<1>11. CASE Push
  BY <1>1, <1>2, <1>3, <1>4, <1>5, <1>6, <1>7, <1>11 DEF Push
<1>12. CASE \E c \in Consumers : Call(c)
  BY <1>8, <1>9, <1>12
<1> QED
  BY <1>10, <1>11, <1>12 DEF Next

(* The queue is the run of frames between the deque's two ends.            *)
LEMMA ContentStep ==
  TypeOK /\ LockInv /\ ContentInv /\ [Next]_vars => ContentInv'
<1> SUFFICES ASSUME TypeOK, LockInv, ContentInv, [Next]_vars PROVE ContentInv'
  OBVIOUS
<1>1. /\ m_queue \in Seq(Nat) /\ start \in Nat /\ finish \in Nat
      /\ MaxQueueSize \in Nat \ {0}
  BY ParaQueueAssumption DEF TypeOK
<1>2. CASE /\ pcap = "enqueue" /\ pcap' = "trim"
           /\ m_queue' = Append(m_queue, finish + 1) /\ finish' = finish + 1
           /\ UNCHANGED <<start, delivered>>
  <2>1. /\ Len(m_queue') = Len(m_queue) + 1
        /\ m_queue'[Len(m_queue) + 1] = finish + 1
        /\ \A i \in 1..Len(m_queue) : m_queue'[i] = m_queue[i]
    BY <1>1, <1>2, Appended
  <2>2. /\ start' <= finish' /\ Len(m_queue') = finish' - start'
        /\ Len(m_queue') <= MaxQueueSize + (IF pcap' = "trim" THEN 1 ELSE 0)
    BY <1>1, <1>2, <2>1 DEF ContentInv
  <2>3. ASSUME NEW i \in 1..Len(m_queue') PROVE m_queue'[i] = start' + i
    <3>1. Len(m_queue) \in Nat /\ Len(m_queue) = finish - start
      BY <1>1 DEF ContentInv
    <3>2. i \in 1..Len(m_queue) \/ i = Len(m_queue) + 1
      BY <2>1, <3>1
    <3>3. CASE i \in 1..Len(m_queue)
      <4>1. m_queue[i] = start + i
        BY <3>3 DEF ContentInv
      <4> QED
        BY <1>2, <2>1, <3>3, <4>1
    <3>4. CASE i = Len(m_queue) + 1
      BY ONLY <1>1, <1>2, <2>1, <3>1, <3>4
    <3> QED
      BY <3>2, <3>3, <3>4
  <2> QED
    BY <2>2, <2>3 DEF ContentInv
<1>3. CASE /\ m_queue # <<>> /\ m_queue' = Tail(m_queue) /\ start' = start + 1
           /\ UNCHANGED <<finish, pcap>>
  <2>1. /\ Len(m_queue') = Len(m_queue) - 1 /\ Len(m_queue) >= 1
        /\ \A i \in 1..Len(m_queue') : m_queue'[i] = m_queue[i + 1]
    BY <1>1, <1>3, HeadTail
  <2> QED
    BY <1>1, <1>3, <2>1 DEF ContentInv
<1>4. CASE /\ pcap = "trim" => (pcap' = "trim" \/ Len(m_queue) <= MaxQueueSize)
           /\ pcap' = "trim" => pcap = "trim"
           /\ UNCHANGED <<m_queue, start, finish, delivered>>
  BY <1>1, <1>4 DEF ContentInv
<1>5. Len(m_queue) > MaxQueueSize => m_queue # <<>>
  BY <1>1
<1> QED
  BY <1>2, <1>3, <1>4, <1>5, FrameSteps

(* Frames leave the queue oldest first, each to one filter, or unread when *)
(* MaxQueueSize newer frames are waiting.                                  *)
LEMMA DeliveredStep ==
  TypeOK /\ LockInv /\ ContentInv /\ DeliveredInv /\ [Next]_vars => DeliveredInv'
<1> SUFFICES ASSUME TypeOK, LockInv, ContentInv, DeliveredInv, [Next]_vars
             PROVE  DeliveredInv'
  OBVIOUS
<1>1. /\ m_queue \in Seq(Nat) /\ start \in Nat /\ finish \in Nat
      /\ delivered \in Seq(Nat) /\ MaxQueueSize \in Nat \ {0}
      /\ Len(m_queue) = finish - start
  BY ParaQueueAssumption DEF TypeOK, ContentInv
<1>2. CASE finish' = finish + 1 /\ UNCHANGED <<start, delivered>>
  BY <1>1, <1>2 DEF DeliveredInv, DeliveredInOrder
<1>3. CASE Len(m_queue) > MaxQueueSize /\ start' = start + 1 /\ UNCHANGED <<finish, delivered>>
  BY <1>1, <1>3 DEF DeliveredInv, DeliveredInOrder
<1>4. CASE /\ m_queue # <<>> /\ delivered' = Append(delivered, Head(m_queue))
           /\ start' = start + 1 /\ UNCHANGED finish
  <2>1. Head(m_queue) = start + 1
    BY <1>1, <1>4, HeadTail DEF ContentInv
  <2>2. /\ Len(delivered') = Len(delivered) + 1 /\ Len(delivered) \in Nat
        /\ delivered'[Len(delivered) + 1] = start + 1
        /\ \A i \in 1..Len(delivered) : delivered'[i] = delivered[i]
    BY <1>1, <1>4, <2>1, Appended
  <2>3. \A i \in 1..Len(delivered') : i \in 1..Len(delivered) \/ i = Len(delivered) + 1
    BY <2>2
  <2>4. \A i \in 1..Len(delivered') : delivered'[i] \in 1..start'
    BY <1>1, <1>4, <2>2, <2>3 DEF DeliveredInv
  <2>5. DeliveredInOrder'
    <3> SUFFICES ASSUME NEW i \in 1..Len(delivered'), NEW j \in 1..Len(delivered'), i < j
                 PROVE  delivered'[i] < delivered'[j]
      BY DEF DeliveredInOrder
    <3>1. i \in 1..Len(delivered)
      BY <2>2
    <3>2. delivered'[i] \in 1..start /\ delivered'[i] = delivered[i]
      BY <2>2, <3>1 DEF DeliveredInv
    <3>3. CASE j \in 1..Len(delivered)
      BY <2>2, <3>1, <3>3 DEF DeliveredInv, DeliveredInOrder
    <3>4. CASE j = Len(delivered) + 1
      BY <1>1, <2>2, <3>2, <3>4
    <3> QED
      BY <2>3, <3>3, <3>4
  <2>6. ASSUME NEW f \in 1..start', f > finish' - MaxQueueSize
        PROVE  \E i \in 1..Len(delivered') : delivered'[i] = f
    <3>1. f \in 1..start \/ f = start + 1
      BY <1>1, <1>4
    <3>2. CASE f \in 1..start
      <4>1. PICK i \in 1..Len(delivered) : delivered[i] = f
        BY <1>4, <2>6, <3>2 DEF DeliveredInv
      <4> QED
        BY <2>2, <4>1
    <3>3. CASE f = start + 1
      BY <2>2, <3>3
    <3> QED
      BY <3>1, <3>2, <3>3
  <2> QED
    BY <2>4, <2>5, <2>6 DEF DeliveredInv
<1>5. CASE UNCHANGED <<m_queue, start, finish, delivered>>
  BY <1>5 DEF DeliveredInv, DeliveredInOrder
<1> QED
  BY <1>2, <1>3, <1>4, <1>5, FrameSteps

-----------------------------------------------------------------------------
(* Time stamps *)

(* What a step does to the time stamps and to the period. *)
LEMMA TimeSteps ==
  ASSUME TypeOK, [Next]_vars
  PROVE
    \/ /\ pcap = "times" /\ UpdateTimes
    \/ /\ pcap = "periodLock" /\ pcap' = "period" /\ UNCHANGED <<timeVars, finish>>
    \/ /\ pcap = "period" /\ SetPeriod
    \/ /\ pcap = "enqueue" /\ pcap' = "trim" /\ finish' = finish + 1 /\ UNCHANGED timeVars
    \/ /\ {pcap, pcap'} \subseteq {"idle", "times", "trim"} \/ pcap' = pcap
       /\ UNCHANGED <<timeVars, finish>>
<1> USE DEF queueVars, timeVars, lockVars, callVars
<1>1. CASE Push
  BY <1>1 DEF Push, PushLock, UpdateTimes, PeriodLock, SetPeriod, Enqueue, Trim, PushUnlock
<1>2. CASE \E c \in Consumers : Call(c)
  BY <1>2 DEF Call, LoadFinish, LoadStart, HasEnqueuedReturn, PopLock, PopReturn, FpsLock, FpsReturn
<1>3. CASE UNCHANGED vars
  BY <1>3 DEF vars
<1> QED
  BY <1>1, <1>2, <1>3 DEF Next

(* The newest time stamp is that of the last frame queued, or of the frame *)
(* push is about to queue, and the period reaches it before the frame is   *)
(* queued.                                                                 *)
LEMMA TimeStep == TypeOK /\ TimeInv /\ [Next]_vars => TimeInv'
<1> SUFFICES ASSUME TypeOK, TimeInv, [Next]_vars PROVE TimeInv'
  OBVIOUS
<1>1. /\ m_time_queue \in Seq(Nat) /\ finish \in Nat /\ m_period \in Period
      /\ MinTimes \in Nat \ {0} /\ TimeQueueLength \in Nat /\ MinTimes <= TimeQueueLength
  BY ParaQueueAssumption DEF TypeOK
<1>2. CASE pcap = "times" /\ UpdateTimes
  <2> DEFINE times == Append(m_time_queue, finish + 1)
  <2>1. /\ times \in Seq(Nat) /\ Len(times) = Len(m_time_queue) + 1
        /\ times[Len(times)] = finish + 1
    BY <1>1, Appended
  <2>2. Len(m_time_queue) = IF finish <= TimeQueueLength THEN finish ELSE TimeQueueLength
    BY <1>2 DEF TimeInv, Stamped
  <2> HIDE DEF times
  <2>3. times # <<>> /\ Len(Tail(times)) = Len(m_time_queue)
    BY <1>1, <2>1, HeadTail
  <2>4. Counts(times, finish + 1) /\ Counts(Tail(times), finish + 1)
    <3>1. Counts(m_time_queue, finish)
      BY <1>2 DEF TimeInv, Stamped
    <3>2. Counts(times, finish + 1)
      BY <1>1, <3>1, CountsAppend DEF times
    <3> QED
      BY <1>1, <2>1, <2>3, <3>2, CountsTail
  <2>5. UNCHANGED <<finish, m_period>>
    BY <1>2 DEF UpdateTimes, queueVars
  <2>6. CASE Len(times) < MinTimes /\ m_time_queue' = times /\ pcap' = "enqueue"
    <3>1. Stamped' = finish + 1
      BY <2>5, <2>6 DEF Stamped
    <3>2. Len(m_time_queue') = IF Stamped' <= TimeQueueLength THEN Stamped' ELSE TimeQueueLength
      BY <1>1, <2>1, <2>2, <2>6, <3>1
    <3>3. Counts(m_time_queue', Stamped')
      BY <2>4, <2>6, <3>1
    <3>4. finish + 1 < MinTimes
      BY <1>1, <2>1, <2>2, <2>6
    <3> QED
      BY <1>1, <2>5, <3>2, <3>3, <3>4 DEF TimeInv
  <2>7. CASE /\ Len(times) >= MinTimes /\ pcap' = "periodLock"
             /\ m_time_queue' = IF Len(times) > TimeQueueLength THEN Tail(times) ELSE times
    <3>1. Stamped' = finish + 1
      BY <2>5, <2>7 DEF Stamped
    <3>2. Len(m_time_queue') = IF Stamped' <= TimeQueueLength THEN Stamped' ELSE TimeQueueLength
      BY <1>1, <2>1, <2>2, <2>3, <2>7, <3>1
    <3>3. Counts(m_time_queue', Stamped')
      BY <2>4, <2>7, <3>1
    <3> QED
      BY <1>1, <1>2, <2>5, <2>7, <3>2, <3>3 DEF TimeInv
  <2> QED
    BY <1>2, <2>6, <2>7 DEF UpdateTimes, times
<1>3. CASE pcap = "periodLock" /\ pcap' = "period" /\ UNCHANGED <<timeVars, finish>>
  BY <1>1, <1>3 DEF TimeInv, Stamped, timeVars
<1>4. CASE pcap = "period" /\ SetPeriod
  <2>1. m_time_queue[Len(m_time_queue)] = finish + 1
    <3>1. Len(m_time_queue) >= 1
      BY <1>1, <1>4 DEF TimeInv, Stamped
    <3> QED
      BY <1>1, <1>4, <3>1 DEF TimeInv, Counts, Stamped
  <2>2. m_period'.newest = finish + 1 /\ pcap' = "enqueue" /\ UNCHANGED <<m_time_queue, finish>>
    BY <1>4, <2>1 DEF SetPeriod, queueVars
  <2> QED
    BY <1>1, <1>4, <2>2 DEF TimeInv, Stamped
<1>5. CASE pcap = "enqueue" /\ pcap' = "trim" /\ finish' = finish + 1 /\ UNCHANGED timeVars
  BY <1>1, <1>5 DEF TimeInv, Stamped, timeVars
<1>6. CASE /\ {pcap, pcap'} \subseteq {"idle", "times", "trim"} \/ pcap' = pcap
           /\ UNCHANGED <<timeVars, finish>>
  BY <1>1, <1>6 DEF TimeInv, Stamped, timeVars
<1> QED
  BY <1>2, <1>3, <1>4, <1>5, <1>6, TimeSteps

(* SetPeriod takes all the time stamps there are, and UpdateTimes goes on  *)
(* to it only with MinTimes of them.                                       *)
LEMMA PeriodStep == TypeOK /\ TimeInv /\ PeriodInv /\ [Next]_vars => PeriodInv'
<1> SUFFICES ASSUME TypeOK, TimeInv, PeriodInv, [Next]_vars PROVE PeriodInv'
  OBVIOUS
<1>1. /\ m_time_queue \in Seq(Nat) /\ finish \in Nat
      /\ MinTimes \in Nat \ {0} /\ TimeQueueLength \in Nat /\ MinTimes <= TimeQueueLength
  BY ParaQueueAssumption DEF TypeOK
<1>2. CASE UpdateTimes
  <2> DEFINE times == Append(m_time_queue, finish + 1)
  <2>1. times \in Seq(Nat) /\ times # <<>> /\ Len(Tail(times)) = Len(times) - 1
    BY <1>1, Appended, HeadTail
  <2>2. pcap' = "enqueue" \/ Len(m_time_queue') >= MinTimes
    BY <1>1, <1>2, <2>1 DEF UpdateTimes
  <2> QED
    BY <1>2, <2>2 DEF UpdateTimes, PeriodInv, callVars
<1>3. CASE PeriodLock
  BY <1>3 DEF PeriodLock, PeriodInv, timeVars, callVars
<1>4. CASE SetPeriod
  <2>1. Len(m_time_queue) >= MinTimes
    BY <1>4 DEF PeriodInv, SetPeriod
  <2>2. m_time_queue # <<>> /\ Head(m_time_queue) = m_time_queue[1]
    BY <1>1, <2>1, HeadTail
  <2>3. /\ Head(m_time_queue) = finish + 2 - Len(m_time_queue)
        /\ m_time_queue[Len(m_time_queue)] = finish + 1
    BY <1>1, <1>4, <2>1, <2>2 DEF TimeInv, Counts, Stamped, SetPeriod
  <2>4. m_period' = [oldest |-> finish + 2 - Len(m_time_queue), newest |-> finish + 1,
                     stamps |-> Len(m_time_queue)]
    BY <1>4, <2>3 DEF SetPeriod
  <2>5. Dense(m_period)'
    BY <1>1, <2>1, <2>4 DEF Dense
  <2> QED
    BY <1>4, <2>5 DEF SetPeriod, PeriodInv, callVars
<1>5. CASE PushLock \/ Enqueue \/ Trim \/ PushUnlock
  BY <1>5 DEF PushLock, Enqueue, Trim, PushUnlock, PeriodInv, timeVars, callVars
<1>6. ASSUME NEW c \in Consumers, FpsReturn(c)
      PROVE  PeriodInv'
  BY <1>6 DEF FpsReturn, PeriodInv, TypeOK, timeVars
<1>7. ASSUME NEW c \in Consumers, Call(c), ~FpsReturn(c)
      PROVE  PeriodInv'
  BY <1>7 DEF Call, LoadFinish, LoadStart, HasEnqueuedReturn, PopLock, PopReturn, FpsLock,
              PeriodInv, timeVars
<1>8. CASE UNCHANGED vars
  BY <1>8 DEF vars, timeVars, callVars, PeriodInv
<1> QED
  BY <1>2, <1>3, <1>4, <1>5, <1>6, <1>7, <1>8 DEF Next, Push

-----------------------------------------------------------------------------
(* Unlocked loads *)

(* What a step does to the call of one filter thread as has_enqueued sees  *)
(* it: a first load, the comparison with the other end, or neither.        *)
LEMMA LoadSteps ==
  ASSUME TypeOK, [Next]_vars, NEW c \in Consumers
  PROVE
    \/ op'[c] = "sawFinish" /\ loaded'[c] = finish /\ UNCHANGED <<start, finish>>
    \/ op'[c] = "sawStart" /\ loaded'[c] = start /\ UNCHANGED <<start, finish>>
    \/ /\ op'[c] = "none" /\ UNCHANGED <<start, finish>>
       /\ op[c] = "sawFinish" => answer'[c] = (loaded[c] # start)
       /\ op[c] = "sawStart"  => answer'[c] = (loaded[c] # finish)
    \/ op'[c] = op[c] /\ loaded'[c] = loaded[c]
    \/ {op[c], op'[c]} \subseteq {"none", "pop", "fps"}
<1> USE DEF TypeOK, queueVars, callVars
<1>1. CASE Push
  BY <1>1 DEF Push, PushLock, UpdateTimes, PeriodLock, SetPeriod, Enqueue, Trim, PushUnlock
<1>2. ASSUME NEW d \in Consumers, Call(d), d # c
      PROVE  op'[c] = op[c] /\ loaded'[c] = loaded[c]
  BY <1>2 DEF Call, LoadFinish, LoadStart, HasEnqueuedReturn, PopLock, PopReturn, FpsLock, FpsReturn
<1>3. CASE LoadFinish(c)
  BY <1>3 DEF LoadFinish
<1>4. CASE LoadStart(c)
  BY <1>4 DEF LoadStart
<1>5. CASE HasEnqueuedReturn(c)
  BY <1>5 DEF HasEnqueuedReturn
<1>6. CASE PopLock(c) \/ PopReturn(c) \/ FpsLock(c) \/ FpsReturn(c)
  BY <1>6 DEF PopLock, PopReturn, FpsLock, FpsReturn
<1>7. CASE UNCHANGED vars
  BY <1>7 DEF vars
<1> QED
  BY <1>1, <1>2, <1>3, <1>4, <1>5, <1>6, <1>7 DEF Next, Call

(* An end that was loaded before is not ahead of where that end is now. *)
LEMMA LoadedStep ==
  TypeOK /\ LockInv /\ LoadedInv /\ [Next]_vars => LoadedInv'
<1> SUFFICES ASSUME TypeOK, LockInv, LoadedInv, [Next]_vars, NEW c \in Consumers
             PROVE  /\ op'[c] = "sawFinish" => loaded'[c] <= finish'
                    /\ op'[c] = "sawStart"  => loaded'[c] <= start'
  BY DEF LoadedInv
<1>1. start \in Nat /\ finish \in Nat /\ loaded[c] \in Nat
  BY DEF TypeOK
<1>2. /\ start' = start \/ start' = start + 1
      /\ finish' = finish \/ finish' = finish + 1
  BY FrameSteps
<1>3. /\ op[c] = "sawFinish" => loaded[c] <= finish
      /\ op[c] = "sawStart"  => loaded[c] <= start
  BY DEF LoadedInv
<1> QED
  BY <1>1, <1>2, <1>3, LoadSteps

-----------------------------------------------------------------------------
(* The inductive invariant *)

LEMMA InitIInv == Init => IInv
<1> SUFFICES ASSUME Init PROVE IInv
  OBVIOUS
<1> USE ParaQueueAssumption DEF Init
<1>1. TypeOK
  BY TypeInit
<1>2. LockInv
  BY DEF LockInv
<1>3. ContentInv
  BY DEF ContentInv
<1>4. DeliveredInv
  BY DEF DeliveredInv, DeliveredInOrder
<1>5. TimeInv
  BY DEF TimeInv, Counts, Stamped
<1>6. PeriodInv
  BY DEF PeriodInv, Dense
<1>7. LoadedInv
  BY DEF LoadedInv
<1> QED
  BY <1>1, <1>2, <1>3, <1>4, <1>5, <1>6, <1>7 DEF IInv

LEMMA NextIInv == IInv /\ [Next]_vars => IInv'
<1> SUFFICES ASSUME IInv, [Next]_vars PROVE IInv'
  OBVIOUS
<1>1. TypeOK /\ LockInv /\ ContentInv /\ DeliveredInv /\ TimeInv /\ PeriodInv /\ LoadedInv
  BY DEF IInv
<1>2. TypeOK'
  <2>1. CASE UNCHANGED vars
    BY <1>1, <2>1 DEF vars, queueVars, timeVars, lockVars, callVars, TypeOK
  <2> QED
    BY <1>1, <2>1, TypePush, TypeCall DEF Next
<1>3. LockInv'
  <2>1. CASE UNCHANGED vars
    BY <1>1, <2>1 DEF vars, lockVars, callVars, LockInv
  <2> QED
    BY <1>1, <2>1, LockStep
<1>4. ContentInv' /\ DeliveredInv' /\ TimeInv' /\ PeriodInv' /\ LoadedInv'
  BY <1>1, ContentStep, DeliveredStep, TimeStep, PeriodStep, LoadedStep
<1> QED
  BY <1>2, <1>3, <1>4 DEF IInv

(* The inductive invariant holds of every behaviour of the queue. *)
THEOREM Invariance == Spec => []IInv
<1>1. Init => IInv
  BY InitIInv
<1>2. IInv /\ [Next]_vars => IInv'
  BY NextIInv
<1> QED
  BY <1>1, <1>2, PTL DEF Spec

-----------------------------------------------------------------------------
(* The theorems *)

(* The variables keep their types.  This needs the whole invariant:        *)
(* update_times reads front() and back() of a time queue that only its     *)
(* relation to the frame counter shows to be non-empty.                    *)
THEOREM TypeCorrect == Spec => []TypeOK
<1>1. IInv => TypeOK
  BY DEF IInv
<1> QED
  BY <1>1, Invariance, PTL

(* Outside push, never more than MaxQueueSize frames wait. *)
THEOREM Bounded == Spec => []PopSeesBoundedQueue
<1>1. IInv => PopSeesBoundedQueue
  <2> SUFFICES ASSUME IInv, m_mutex # Capture PROVE Len(m_queue) <= MaxQueueSize
    BY DEF PopSeesBoundedQueue
  <2>1. pcap = "idle"
    BY DEF IInv, LockInv, TypeOK
  <2> QED
    BY <2>1, ParaQueueAssumption DEF IInv, ContentInv
<1> QED
  BY <1>1, Invariance, PTL

(* Each of the last MaxQueueSize frames waits or has been delivered, for   *)
(* any number of filters and however their calls interleave.               *)
THEOREM NoEarlyLoss == Spec => []LossOnlyByOverflow
<1>1. IInv => LossOnlyByOverflow
  <2> SUFFICES ASSUME IInv, NEW f \in 1..finish, f > finish - MaxQueueSize
               PROVE  \/ \E i \in 1..Len(m_queue) : m_queue[i] = f
                      \/ \E i \in 1..Len(delivered) : delivered[i] = f
    BY DEF LossOnlyByOverflow
  <2>1. start \in Nat /\ finish \in Nat /\ Len(m_queue) = finish - start
    BY DEF IInv, TypeOK, ContentInv
  <2>2. CASE f \in 1..start
    BY <2>2 DEF IInv, DeliveredInv
  <2>3. CASE f > start
    <3>1. f - start \in 1..Len(m_queue)
      BY <2>1, <2>3
    <3>2. m_queue[f - start] = start + (f - start)
      BY <3>1 DEF IInv, ContentInv
    <3> QED
      BY <2>1, <3>1, <3>2
  <2> QED
    BY <2>1, <2>2, <2>3
<1> QED
  BY <1>1, Invariance, PTL

(* Frames are delivered in the order the camera took them, none twice. *)
THEOREM InOrder == Spec => []DeliveredInOrder
<1>1. IInv => DeliveredInOrder
  BY DEF IInv, DeliveredInv
<1> QED
  BY <1>1, Invariance, PTL

(* The period spans every frame that has been delivered. *)
THEOREM PeriodCovers == Spec => []PeriodCoversDelivered
<1>1. IInv => PeriodCoversDelivered
  <2> SUFFICES ASSUME IInv, NEW i \in 1..Len(delivered), delivered[i] >= MinTimes
               PROVE  m_period.newest >= delivered[i]
    BY DEF PeriodCoversDelivered
  <2>1. /\ start \in Nat /\ finish \in Nat /\ MinTimes \in Nat /\ m_period.newest \in Nat
        /\ start <= finish
    BY ParaQueueAssumption DEF IInv, TypeOK, Period, ContentInv
  <2>2. delivered[i] \in 1..start
    BY DEF IInv, DeliveredInv
  <2>3. m_period.newest >= finish
    BY <2>1, <2>2 DEF IInv, TimeInv
  <2> QED
    BY <2>1, <2>2, <2>3
<1> QED
  BY <1>1, Invariance, PTL

(* Less than the camera's pace is never reported, nor more than MinTimes   *)
(* time stamps make of it.                                                 *)
THEOREM FpsBounded == Spec => []FpsNearlyRight
<1>1. IInv => FpsNearlyRight
  <2> SUFFICES ASSUME IInv, NEW c \in Consumers, fps[c] # NoPeriod
               PROVE  LET intervals == fps[c].newest - fps[c].oldest
                      IN /\ fps[c].stamps > intervals
                         /\ fps[c].stamps * (MinTimes - 1) <= MinTimes * intervals
    BY DEF FpsNearlyRight
  <2> DEFINE n == fps[c].stamps
  <2>1. fps[c].newest \in Nat /\ fps[c].oldest \in Nat /\ n \in Nat /\ MinTimes \in Nat
    BY ParaQueueAssumption DEF IInv, TypeOK, Period
  <2>2. fps[c].newest - fps[c].oldest = n - 1 /\ n >= MinTimes
    BY <2>1 DEF IInv, PeriodInv, Dense
  <2>3. n * (MinTimes - 1) = n * MinTimes - n /\ MinTimes * (n - 1) = n * MinTimes - MinTimes
    BY <2>1
  <2> QED
    BY <2>1, <2>2, <2>3
<1> QED
  BY <1>1, Invariance, PTL

(* A has_enqueued that runs beside pushes and pops is right about the      *)
(* frames that waited when it began, for any number of filters and however *)
(* many frames come and go between its two loads.                          *)
THEOREM Polling == Spec => HasEnqueuedMeans
<1>1. ASSUME IInv, [Next]_vars, NEW c \in Consumers,
             op[c] \in {"sawFinish", "sawStart"}, op'[c] = "none"
      PROVE  /\ answer'[c]  => m_queue # <<>> \/ start > loaded[c]
             /\ ~answer'[c] => \A i \in 1..Len(m_queue) : m_queue[i] > loaded[c]
  <2>1. /\ start \in Nat /\ finish \in Nat /\ loaded[c] \in Nat
        /\ start <= finish /\ Len(m_queue) = finish - start
    BY <1>1 DEF IInv, TypeOK, ContentInv
  <2>2. /\ op[c] = "sawFinish" => loaded[c] <= finish
        /\ op[c] = "sawStart"  => loaded[c] <= start
    BY <1>1 DEF IInv, LoadedInv
  <2>3. /\ op[c] = "sawFinish" => answer'[c] = (loaded[c] # start)
        /\ op[c] = "sawStart"  => answer'[c] = (loaded[c] # finish)
    BY <1>1, LoadSteps DEF IInv
  <2>4. /\ answer'[c] => (op[c] = "sawFinish" /\ loaded[c] # start)
                          \/ (op[c] = "sawStart" /\ loaded[c] # finish)
        /\ ~answer'[c] => (op[c] = "sawFinish" /\ loaded[c] = start)
                           \/ (op[c] = "sawStart" /\ loaded[c] = finish)
    BY <1>1, <2>3, Zenon
  <2>5. ASSUME answer'[c] PROVE m_queue # <<>> \/ start > loaded[c]
    <3>1. m_queue = <<>> => start = finish
      BY <2>1
    <3>2. (op[c] = "sawFinish" /\ loaded[c] # start) \/ (op[c] = "sawStart" /\ loaded[c] # finish)
      BY <2>4, <2>5, Zenon
    <3> QED
      BY <2>1, <2>2, <3>1, <3>2
  <2>6. ASSUME ~answer'[c], NEW i \in 1..Len(m_queue) PROVE m_queue[i] > loaded[c]
    <3>1. m_queue[i] = start + i
      BY <1>1 DEF IInv, ContentInv
    <3>2. (op[c] = "sawFinish" /\ loaded[c] = start) \/ (op[c] = "sawStart" /\ loaded[c] = finish)
      BY <2>4, <2>6, Zenon
    <3>3. loaded[c] <= start
      BY <2>1, <2>2, <3>2
    <3> QED
      BY <2>1, <3>1, <3>3
  <2> QED
    BY <2>5, <2>6
<1>2. IInv /\ [Next]_vars =>
        [\A c \in Consumers :
           (op[c] \in {"sawFinish", "sawStart"} /\ op'[c] = "none") =>
             /\ answer'[c]  => m_queue # <<>> \/ start > loaded[c]
             /\ ~answer'[c] => \A i \in 1..Len(m_queue) : m_queue[i] > loaded[c]]_vars
  BY <1>1
<1> QED
  BY <1>2, Invariance, PTL DEF Spec, HasEnqueuedMeans

-----------------------------------------------------------------------------
(* How long a push can take *)

(* The steps that a push has still to take. *)
PushLeft ==
  CASE pcap = "times"      -> 6
    [] pcap = "periodLock" -> 5
    [] pcap = "period"     -> 4
    [] pcap = "enqueue"    -> 3
    [] pcap = "trim"       -> IF Len(m_queue) > MaxQueueSize THEN 2 ELSE 1
    [] OTHER               -> 0

(* Each step of a push brings it nearer to its end, and no call of a       *)
(* filter sets it back: the loop that trims the queue runs once, since     *)
(* nothing but this push adds to the queue and pop cannot run beside it.   *)
(* A push ends after seven steps of its own at the most, the lock that     *)
(* begins it among them.                                                   *)
THEOREM PushAdvances ==
  Spec => [][pcap # "idle" =>
               /\ PushLeft \in 1..6
               /\ IF Push THEN PushLeft' < PushLeft ELSE PushLeft' = PushLeft]_vars
<1>1. ASSUME IInv, Next, pcap # "idle"
      PROVE  /\ PushLeft \in 1..6
             /\ IF Push THEN PushLeft' < PushLeft ELSE PushLeft' = PushLeft
  <2> USE DEF PushLeft
  <2>1. /\ pcap \in {"times", "periodLock", "period", "enqueue", "trim"}
        /\ m_queue \in Seq(Nat) /\ Len(m_queue) \in Nat /\ MaxQueueSize \in Nat
        /\ Len(m_queue) <= MaxQueueSize + 1
    BY <1>1, ParaQueueAssumption DEF IInv, TypeOK, CaptureLocations, ContentInv
  <2>2. PushLeft \in 1..6
    BY <2>1
  <2>3. ASSUME Push PROVE PushLeft' < PushLeft
    <3>1. CASE PushLock
      BY <1>1, <3>1 DEF PushLock
    <3>2. CASE UpdateTimes
      BY <3>2 DEF UpdateTimes
    <3>3. CASE PeriodLock
      BY <3>3 DEF PeriodLock
    <3>4. CASE SetPeriod
      BY <3>4 DEF SetPeriod
    <3>5. CASE Enqueue
      BY <3>5 DEF Enqueue
    <3>6. CASE Trim
      <4>1. Len(m_queue) = MaxQueueSize + 1 /\ m_queue # <<>> /\ m_queue' = Tail(m_queue)
        BY <2>1, <3>6 DEF Trim
      <4>2. Len(m_queue') = MaxQueueSize
        BY <2>1, <4>1
      <4> QED
        BY <2>1, <3>6, <4>1, <4>2 DEF Trim
    <3>7. CASE PushUnlock
      BY <2>1, <3>7 DEF PushUnlock
    <3> QED
      BY <2>3, <3>1, <3>2, <3>3, <3>4, <3>5, <3>6, <3>7 DEF Push
  <2>4. ASSUME NEW c \in Consumers, Call(c) PROVE UNCHANGED <<pcap, m_queue>>
    <3>1. op[c] # "pop"
      BY <1>1, ParaQueueAssumption DEF IInv, LockInv
    <3> QED
      BY <2>4, <3>1 DEF Call, LoadFinish, LoadStart, HasEnqueuedReturn, PopLock, PopReturn,
         FpsLock, FpsReturn, queueVars
  <2>5. ASSUME ~Push PROVE PushLeft' = PushLeft
    <3>1. UNCHANGED <<pcap, m_queue>>
      BY <1>1, <2>4, <2>5 DEF Next
    <3> QED
      BY <3>1
  <2> QED
    BY <2>2, <2>3, <2>5
<1>2. IInv /\ [Next]_vars =>
        [pcap # "idle" =>
           /\ PushLeft \in 1..6
           /\ IF Push THEN PushLeft' < PushLeft ELSE PushLeft' = PushLeft]_vars
  BY <1>1
<1> QED
  BY <1>2, Invariance, PTL DEF Spec

(* A push that has begun waits for no filter but one inside get_fps, whose *)
(* next step gives m_period_mutex back and takes no lock: the two mutexes  *)
(* cannot deadlock.                                                        *)
THEOREM PushWaitsForGetFps ==
  Spec => [](pcap = "periodLock" =>
               \/ m_period_mutex = Free
               \/ \E c \in Consumers : m_period_mutex = c /\ op[c] = "fps")
<1>1. IInv => (pcap = "periodLock" =>
                 \/ m_period_mutex = Free
                 \/ \E c \in Consumers : m_period_mutex = c /\ op[c] = "fps")
  <2> SUFFICES ASSUME IInv, pcap = "periodLock", m_period_mutex # Free
               PROVE  \E c \in Consumers : m_period_mutex = c /\ op[c] = "fps"
    OBVIOUS
  <2>1. m_period_mutex \in Consumers
    BY DEF IInv, TypeOK, LockInv
  <2> QED
    BY <2>1 DEF IInv, LockInv
<1> QED
  BY <1>1, Invariance, PTL

-----------------------------------------------------------------------------
(* Refinement *)

(* The queue, with all its locks and unlocked loads, implements the lossy  *)
(* first-in first-out queue: appending a frame is its arrival, the end of  *)
(* a successful pop its delivery, and every other step changes nothing.    *)
THEOREM Refinement == Spec => ImplementsLossyFifo
<1> USE DEF WaitingFrames
<1>1. Init => Fifo!Init
  BY ParaQueueAssumption DEF Init, Fifo!Init
<1>2. IInv /\ [Next]_vars => [Fifo!Next]_(Fifo!vars)
  <2> SUFFICES ASSUME IInv, [Next]_vars PROVE [Fifo!Next]_(Fifo!vars)
    OBVIOUS
  <2>1. TypeOK /\ LockInv /\ ContentInv
    BY DEF IInv
  <2>2. /\ m_queue \in Seq(Nat) /\ start \in Nat /\ finish \in Nat
        /\ delivered \in Seq(Nat) /\ MaxQueueSize \in Nat \ {0}
    BY <2>1, ParaQueueAssumption DEF TypeOK
  <2>3. Len(m_queue) <= MaxQueueSize + (IF pcap = "trim" THEN 1 ELSE 0)
    BY <2>1 DEF ContentInv
  <2>4. CASE /\ pcap = "enqueue"
             /\ m_queue' = Append(m_queue, finish + 1) /\ finish' = finish + 1
             /\ UNCHANGED delivered
    <3>1. WaitingFrames = m_queue /\ Len(m_queue) <= MaxQueueSize
      BY <2>2, <2>3, <2>4
    <3>2. CASE Len(m_queue) < MaxQueueSize
      <4>1. Len(m_queue') = Len(m_queue) + 1
        BY <2>2, <2>4, Appended
      <4>2. WaitingFrames' = Append(m_queue, finish + 1)
        BY <2>2, <2>4, <3>2, <4>1
      <4> QED
        BY <2>4, <3>1, <3>2, <4>2 DEF Fifo!Next, Fifo!Arrive
    <3>3. CASE Len(m_queue) = MaxQueueSize
      <4>1. m_queue # <<>> /\ Len(m_queue') > MaxQueueSize
        BY <2>2, <2>4, <3>3, Appended
      <4>2. WaitingFrames' = Append(Tail(m_queue), finish + 1)
        BY <2>2, <2>4, <4>1
      <4>3. ~(Len(m_queue) < MaxQueueSize)
        BY <2>2, <3>3
      <4> QED
        BY <2>4, <3>1, <4>2, <4>3 DEF Fifo!Next, Fifo!Arrive
    <3> QED
      BY <2>2, <3>1, <3>2, <3>3
  <2>5. CASE /\ pcap = "trim" /\ Len(m_queue) > MaxQueueSize
             /\ m_queue' = Tail(m_queue) /\ UNCHANGED <<finish, delivered>>
    <3>1. Len(m_queue') <= MaxQueueSize
      BY <2>2, <2>3, <2>5, HeadTail
    <3>2. WaitingFrames' = WaitingFrames
      BY <2>2, <2>5, <3>1
    <3> QED
      BY <2>5, <3>2 DEF Fifo!vars
  <2>6. CASE /\ pcap = "idle" /\ m_queue # <<>>
             /\ delivered' = Append(delivered, Head(m_queue))
             /\ m_queue' = Tail(m_queue) /\ UNCHANGED finish
    <3>1. Len(m_queue') <= MaxQueueSize /\ Len(m_queue) <= MaxQueueSize
      BY <2>2, <2>3, <2>6, HeadTail
    <3>2. WaitingFrames = m_queue /\ WaitingFrames' = Tail(m_queue)
      BY <2>2, <2>6, <3>1
    <3> QED
      BY <2>6, <3>2 DEF Fifo!Next, Fifo!Deliver
  <2>7. CASE UNCHANGED <<m_queue, finish, delivered>>
    BY <2>7 DEF Fifo!vars
  <2> QED
    BY <2>1, <2>4, <2>5, <2>6, <2>7, FrameSteps
<1> QED
  BY <1>1, <1>2, Invariance, PTL DEF Spec, ImplementsLossyFifo, Fifo!Spec
=============================================================================
