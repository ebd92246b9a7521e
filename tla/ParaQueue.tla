------------------------------ MODULE ParaQueue ------------------------------
(***************************************************************************)
(* The frame queue between the capture thread and the filter threads       *)
(* (sources/paraqueue.cpp).  One thread pushes - a camera never has two    *)
(* capture threads, see WebCamera.tla - and any number of filter threads   *)
(* call has_enqueued, pop and get_fps, in any order and at any time.       *)
(*                                                                         *)
(* push and pop hold m_mutex.  has_enqueued does not: std::queue::empty    *)
(* compares the deque's two end positions, which a running push or pop     *)
(* moves, so the comparison is modelled as two loads, in the order the     *)
(* compiler picks, with other threads' steps in between.  update_times     *)
(* takes m_period_mutex while push holds m_mutex; get_fps takes            *)
(* m_period_mutex alone.                                                   *)
(*                                                                         *)
(* A frame is the number of its push.  A time stamp is the number of the   *)
(* frame it was taken for, so a period is the two frames between whose     *)
(* time stamps it spans, and the number that this span is divided by.      *)
(***************************************************************************)
EXTENDS Integers, Sequences

CONSTANTS
  Consumers,        \* the filter threads
  Capture,          \* the capture thread
  Free,             \* the owner of a mutex nobody holds
  MaxQueueSize,     \* m_max_queue_size, 16 in the code
  TimeQueueLength,  \* TIME_QUEUE_LENGTH, 30 in the code
  MinTimes,         \* time stamps a period needs, 4 in the code
  MaxFrames         \* bound of the model: how many frames are pushed

ASSUME ParaQueueAssumption ==
  /\ Capture \notin Consumers
  /\ Free \notin Consumers \cup {Capture}
  /\ MaxQueueSize \in Nat \ {0}
  /\ MinTimes \in Nat \ {0}
  /\ TimeQueueLength \in Nat
  /\ MinTimes <= TimeQueueLength
  /\ MaxFrames \in Nat

VARIABLES
  m_queue,         \* the waiting frames
  start, finish,   \* the positions of the deque's ends, counted from its creation
  m_time_queue,    \* time stamps of the last frames
  m_period,        \* what get_fps reports, as the frames it spans
  m_mutex,         \* the thread that holds m_mutex
  m_period_mutex,  \* the thread that holds m_period_mutex
  pcap,            \* where the capture thread is in push
  op,              \* which call each filter thread is in
  loaded,          \* the end position a has_enqueued call loaded first
  answer,          \* what each thread's last has_enqueued or pop returned
  image,           \* the frame each thread's last successful pop returned
  fps,             \* the period each thread's last get_fps was computed from
  delivered        \* history: the frames pop returned, in order

queueVars == <<m_queue, start, finish>>
timeVars  == <<m_time_queue, m_period>>
lockVars  == <<m_mutex, m_period_mutex>>
callVars  == <<op, loaded, answer, image, fps>>
vars == <<queueVars, timeVars, lockVars, pcap, callVars, delivered>>

NoFrame  == 0
NoPeriod == [oldest |-> NoFrame, newest |-> NoFrame, stamps |-> 0]   \* m_period(99999999)

Init ==
  /\ m_queue = <<>> /\ start = 0 /\ finish = 0
  /\ m_time_queue = <<>> /\ m_period = NoPeriod
  /\ m_mutex = Free /\ m_period_mutex = Free
  /\ pcap = "idle"
  /\ op = [c \in Consumers |-> "none"]
  /\ loaded = [c \in Consumers |-> 0]
  /\ answer = [c \in Consumers |-> FALSE]
  /\ image = [c \in Consumers |-> NoFrame]
  /\ fps = [c \in Consumers |-> NoPeriod]
  /\ delivered = <<>>

-----------------------------------------------------------------------------
(* push, by the capture thread.  The frequency test in front of the lock   *)
(* is "if (false && ...)": it never returns early.                         *)

PushLock ==
  /\ pcap = "idle"
  /\ finish < MaxFrames
  /\ m_mutex = Free
  /\ m_mutex' = Capture
  /\ pcap' = "times"
  /\ UNCHANGED <<queueVars, timeVars, m_period_mutex, callVars, delivered>>

(* Faulty: a full time queue drops the newest time stamp, not the oldest. *)
UpdateTimesDropsNewest ==
  LET times == Append(m_time_queue, finish + 1)
  IN /\ pcap = "times"
     /\ m_time_queue' = IF Len(times) > TimeQueueLength THEN m_time_queue ELSE times
     /\ pcap' = IF Len(times) < MinTimes THEN "enqueue" ELSE "periodLock"
     /\ UNCHANGED <<queueVars, m_period, lockVars, callVars, delivered>>

(* Faulty: a period is computed from the first time stamp on. *)
UpdateTimesNoMinimum ==
  LET times == Append(m_time_queue, finish + 1)
  IN /\ pcap = "times"
     /\ m_time_queue' = IF Len(times) > TimeQueueLength THEN Tail(times) ELSE times
     /\ pcap' = "periodLock"
     /\ UNCHANGED <<queueVars, m_period, lockVars, callVars, delivered>>

(* update_times up to the period lock.  Below MinTimes time stamps it      *)
(* returns before it trims the time queue and before it sets m_period.     *)
UpdateTimes ==
  LET times == Append(m_time_queue, finish + 1)
  IN /\ pcap = "times"
     /\ \/ /\ Len(times) < MinTimes
           /\ m_time_queue' = times
           /\ pcap' = "enqueue"
        \/ /\ Len(times) >= MinTimes
           /\ m_time_queue' = IF Len(times) > TimeQueueLength THEN Tail(times) ELSE times
           /\ pcap' = "periodLock"
     /\ UNCHANGED <<queueVars, m_period, lockVars, callVars, delivered>>

PeriodLock ==
  /\ pcap = "periodLock"
  /\ m_period_mutex = Free
  /\ m_period_mutex' = Capture
  /\ pcap' = "period"
  /\ UNCHANGED <<queueVars, timeVars, m_mutex, callVars, delivered>>

(* The mean divides the span by m_time_queue.size(). *)
SetPeriod ==
  /\ pcap = "period"
  /\ m_period' = [oldest |-> Head(m_time_queue),
                  newest |-> m_time_queue[Len(m_time_queue)],
                  stamps |-> Len(m_time_queue)]
  /\ m_period_mutex' = Free
  /\ pcap' = "enqueue"
  /\ UNCHANGED <<queueVars, m_time_queue, m_mutex, callVars, delivered>>

Enqueue ==
  /\ pcap = "enqueue"
  /\ m_queue' = Append(m_queue, finish + 1)
  /\ finish' = finish + 1
  /\ pcap' = "trim"
  /\ UNCHANGED <<start, timeVars, lockVars, callVars, delivered>>

(* Faulty: >= for >, and the newest frame dropped for the oldest. *)
TrimAtLimit ==
  /\ pcap = "trim"
  /\ Len(m_queue) >= MaxQueueSize
  /\ m_queue' = Tail(m_queue)
  /\ start' = start + 1
  /\ UNCHANGED <<finish, timeVars, lockVars, pcap, callVars, delivered>>

TrimDropsNewest ==
  /\ pcap = "trim"
  /\ Len(m_queue) > MaxQueueSize
  /\ m_queue' = SubSeq(m_queue, 1, Len(m_queue) - 1)
  /\ start' = start + 1
  /\ UNCHANGED <<finish, timeVars, lockVars, pcap, callVars, delivered>>

(* while (m_queue.size() > m_max_queue_size) m_queue.pop(); *)
Trim ==
  /\ pcap = "trim"
  /\ Len(m_queue) > MaxQueueSize
  /\ m_queue' = Tail(m_queue)
  /\ start' = start + 1
  /\ UNCHANGED <<finish, timeVars, lockVars, pcap, callVars, delivered>>

(* Faulty: the limit is not enforced. *)
PushUnlockUntrimmed ==
  /\ pcap = "trim"
  /\ m_mutex' = Free
  /\ pcap' = "idle"
  /\ UNCHANGED <<queueVars, timeVars, m_period_mutex, callVars, delivered>>

PushUnlock ==
  /\ pcap = "trim"
  /\ Len(m_queue) <= MaxQueueSize
  /\ m_mutex' = Free
  /\ pcap' = "idle"
  /\ UNCHANGED <<queueVars, timeVars, m_period_mutex, callVars, delivered>>

Push == PushLock \/ UpdateTimes \/ PeriodLock \/ SetPeriod \/ Enqueue \/ Trim \/ PushUnlock

-----------------------------------------------------------------------------
(* has_enqueued (and is_empty): two unlocked loads, then the comparison.   *)

LoadFinish(c) ==
  /\ op[c] = "none"
  /\ op' = [op EXCEPT ![c] = "sawFinish"]
  /\ loaded' = [loaded EXCEPT ![c] = finish]
  /\ UNCHANGED <<queueVars, timeVars, lockVars, pcap, answer, image, fps, delivered>>

LoadStart(c) ==
  /\ op[c] = "none"
  /\ op' = [op EXCEPT ![c] = "sawStart"]
  /\ loaded' = [loaded EXCEPT ![c] = start]
  /\ UNCHANGED <<queueVars, timeVars, lockVars, pcap, answer, image, fps, delivered>>

(* Faulty: empty() without the "!". *)
HasEnqueuedReturnEmpty(c) ==
  /\ \/ op[c] = "sawFinish" /\ answer' = [answer EXCEPT ![c] = (loaded[c] = start)]
     \/ op[c] = "sawStart" /\ answer' = [answer EXCEPT ![c] = (loaded[c] = finish)]
  /\ op' = [op EXCEPT ![c] = "none"]
  /\ loaded' = [loaded EXCEPT ![c] = 0]
  /\ UNCHANGED <<queueVars, timeVars, lockVars, pcap, image, fps, delivered>>

HasEnqueuedReturn(c) ==
  /\ \/ /\ op[c] = "sawFinish"
        /\ answer' = [answer EXCEPT ![c] = (loaded[c] # start)]
     \/ /\ op[c] = "sawStart"
        /\ answer' = [answer EXCEPT ![c] = (loaded[c] # finish)]
  /\ op' = [op EXCEPT ![c] = "none"]
  /\ loaded' = [loaded EXCEPT ![c] = 0]
  /\ UNCHANGED <<queueVars, timeVars, lockVars, pcap, image, fps, delivered>>

(* pop: the lock, then the whole critical section. *)
PopLock(c) ==
  /\ op[c] = "none"
  /\ m_mutex = Free
  /\ m_mutex' = c
  /\ op' = [op EXCEPT ![c] = "pop"]
  /\ UNCHANGED <<queueVars, timeVars, m_period_mutex, pcap, loaded, answer, image, fps, delivered>>

(* Faulty: the frame is copied out but stays at the front of the queue. *)
PopReturnKeeps(c) ==
  /\ op[c] = "pop"
  /\ IF m_queue = <<>>
       THEN answer' = [answer EXCEPT ![c] = FALSE] /\ UNCHANGED <<image, delivered>>
       ELSE /\ answer' = [answer EXCEPT ![c] = TRUE]
            /\ image' = [image EXCEPT ![c] = Head(m_queue)]
            /\ delivered' = Append(delivered, Head(m_queue))
  /\ m_mutex' = Free
  /\ op' = [op EXCEPT ![c] = "none"]
  /\ UNCHANGED <<queueVars, timeVars, m_period_mutex, pcap, loaded, fps>>

PopReturn(c) ==
  /\ op[c] = "pop"
  /\ \/ /\ m_queue = <<>>
        /\ answer' = [answer EXCEPT ![c] = FALSE]
        /\ UNCHANGED <<m_queue, start, image, delivered>>
     \/ /\ m_queue # <<>>
        /\ answer' = [answer EXCEPT ![c] = TRUE]
        /\ image' = [image EXCEPT ![c] = Head(m_queue)]
        /\ delivered' = Append(delivered, Head(m_queue))
        /\ m_queue' = Tail(m_queue)
        /\ start' = start + 1
  /\ m_mutex' = Free
  /\ op' = [op EXCEPT ![c] = "none"]
  /\ UNCHANGED <<finish, timeVars, m_period_mutex, pcap, loaded, fps>>

FpsLock(c) ==
  /\ op[c] = "none"
  /\ m_period_mutex = Free
  /\ m_period_mutex' = c
  /\ op' = [op EXCEPT ![c] = "fps"]
  /\ UNCHANGED <<queueVars, timeVars, m_mutex, pcap, loaded, answer, image, fps, delivered>>

(* Faulty: get_fps returns without letting go of m_period_mutex. *)
FpsReturnLocked(c) ==
  /\ op[c] = "fps"
  /\ fps' = [fps EXCEPT ![c] = m_period]
  /\ op' = [op EXCEPT ![c] = "none"]
  /\ UNCHANGED <<queueVars, timeVars, lockVars, pcap, loaded, answer, image, delivered>>

FpsReturn(c) ==
  /\ op[c] = "fps"
  /\ fps' = [fps EXCEPT ![c] = m_period]
  /\ m_period_mutex' = Free
  /\ op' = [op EXCEPT ![c] = "none"]
  /\ UNCHANGED <<queueVars, timeVars, m_mutex, pcap, loaded, answer, image, delivered>>

(* A filter thread makes any call. *)
Call(c) ==
  \/ LoadFinish(c) \/ LoadStart(c) \/ HasEnqueuedReturn(c)
  \/ PopLock(c) \/ PopReturn(c)
  \/ FpsLock(c) \/ FpsReturn(c)

Next == Push \/ \E c \in Consumers : Call(c)

Spec == Init /\ [][Next]_vars

(* Fairness: a thread that is running leaves the statement it is in, and a *)
(* thread blocked on a mutex that is released again and again gets it.     *)
(* Nothing makes the camera deliver or a filter call.                      *)
PushFairness ==
  /\ WF_vars(UpdateTimes) /\ WF_vars(SetPeriod) /\ WF_vars(Enqueue)
  /\ WF_vars(Trim) /\ WF_vars(PushUnlock)
  /\ SF_vars(PeriodLock)

CallFairness ==
  \A c \in Consumers :
    WF_vars(HasEnqueuedReturn(c)) /\ WF_vars(PopReturn(c)) /\ WF_vars(FpsReturn(c))

FairSpec == Spec /\ PushFairness /\ CallFairness

-----------------------------------------------------------------------------
(* Properties *)

CaptureLocations == {"idle", "times", "periodLock", "period", "enqueue", "trim"}
CallLocations    == {"none", "sawFinish", "sawStart", "pop", "fps"}
Period           == [oldest : Nat, newest : Nat, stamps : Nat]

(* The types of the variables. *)
TypeOK ==
  /\ m_queue \in Seq(Nat) /\ start \in Nat /\ finish \in Nat
  /\ m_time_queue \in Seq(Nat) /\ m_period \in Period
  /\ m_mutex \in Consumers \cup {Capture, Free}
  /\ m_period_mutex \in Consumers \cup {Capture, Free}
  /\ pcap \in CaptureLocations
  /\ op \in [Consumers -> CallLocations]
  /\ loaded \in [Consumers -> Nat]
  /\ answer \in [Consumers -> BOOLEAN]
  /\ image \in [Consumers -> Nat]
  /\ fps \in [Consumers -> Period]
  /\ delivered \in Seq(Nat)

(* Whenever the capture thread is outside push, and whenever a filter is   *)
(* inside pop, at most MaxQueueSize frames wait: the frame that push adds  *)
(* above the limit is never seen by a pop.                                 *)
PopSeesBoundedQueue ==
  (m_mutex # Capture) => (Len(m_queue) <= MaxQueueSize)

(* A frame is lost only to overflow: each of the last MaxQueueSize frames  *)
(* pushed is waiting or has been popped, whatever the threads interleave.  *)
LossOnlyByOverflow ==
  \A f \in 1..finish :
    f > finish - MaxQueueSize =>
      \/ \E i \in 1..Len(m_queue) : m_queue[i] = f
      \/ \E i \in 1..Len(delivered) : delivered[i] = f

(* Over all filter threads together, pop hands frames out in the order the *)
(* camera took them and hands out no frame twice.                          *)
DeliveredInOrder ==
  \A i, j \in 1..Len(delivered) : i < j => delivered[i] < delivered[j]

(* push stamps a frame before it queues it: by the time a frame can be     *)
(* popped, the period that get_fps reports already spans that frame (once  *)
(* there are enough time stamps for a period at all).                      *)
PeriodCoversDelivered ==
  \A i \in 1..Len(delivered) :
    delivered[i] >= MinTimes => m_period.newest >= delivered[i]

(* n stamps lie n - 1 intervals apart, and the mean divides by n.  So      *)
(* get_fps reports a steady camera too fast by n frames to n - 1: never    *)
(* too slow, and never worse than MinTimes stamps make it, whenever it is  *)
(* called and however the time queue is trimmed.                           *)
FpsNearlyRight ==
  \A c \in Consumers :
    LET intervals == fps[c].newest - fps[c].oldest
    IN fps[c] # NoPeriod =>
         /\ fps[c].stamps > intervals
         /\ fps[c].stamps * (MinTimes - 1) <= MinTimes * intervals

(* What the unlocked has_enqueued is good for, whatever runs between its   *)
(* two loads.  A yes: a frame waits, or one has been taken since the first *)
(* load.  A no overlooks only frames that arrived after the first load; it *)
(* does not mean that the queue was ever empty, since a frame may arrive   *)
(* and an older one leave between the loads.                               *)
HasEnqueuedMeans ==
  [][\A c \in Consumers :
       (op[c] \in {"sawFinish", "sawStart"} /\ op'[c] = "none") =>
         /\ answer'[c]  => m_queue # <<>> \/ start > loaded[c]
         /\ ~answer'[c] => \A i \in 1..Len(m_queue) : m_queue[i] > loaded[c]]_vars

(* A push that has begun ends, whatever the filters call: m_period_mutex   *)
(* is taken inside m_mutex by push and never the other way round.          *)
PushCompletes == (pcap # "idle") ~> (pcap = "idle")

(* The queue implements the lossy first-in first-out queue.  A push takes  *)
(* effect when it appends: the frame it is about to trim no longer counts. *)
WaitingFrames == IF Len(m_queue) > MaxQueueSize THEN Tail(m_queue) ELSE m_queue

Fifo == INSTANCE LossyFifo
          WITH Capacity <- MaxQueueSize, queue <- WaitingFrames, arrived <- finish

ImplementsLossyFifo == Fifo!Spec
=============================================================================
