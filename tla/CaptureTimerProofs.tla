-------------------------- MODULE CaptureTimerProofs --------------------------
(***************************************************************************)
(* Proofs about CaptureTimer, for any frame rates: how long the join of    *)
(* the capture thread can take.                                            *)
(***************************************************************************)
EXTENDS CaptureTimer, TLAPS

(* The timer in milliseconds: ten frame periods. *)
Period(rate) == 10000 \div rate

(* The time left never exceeds the timer; a caller in the join has waited  *)
(* no longer than the select that is running, and once that has returned   *)
(* no time passes any more.                                                *)
WaitInv ==
  /\ m_running => joining = 0
  /\ capture = "select" => joining <= waited
  /\ m_max_framerate > 0 =>
       tv \in 0..Period(m_max_framerate) /\ joining <= Period(m_max_framerate)

(* The strengthened invariant. *)
IInv == TypeOK /\ WaitInv

(* The timer of a rate is a natural number, and ten periods long at most. *)
LEMMA PeriodBounds ==
  ASSUME NEW rate \in Nat, rate > 0
  PROVE  Period(rate) \in Nat /\ Period(rate) * rate <= 10000
BY DEF Period

(* A longer time is longer in frames too. *)
LEMMA Scaled ==
  ASSUME NEW a \in Nat, NEW b \in Nat, NEW rate \in Nat, a <= b
  PROVE  a * rate <= b * rate
<1>1. PICK d \in Nat : b = a + d
  <2>1. b - a \in Nat /\ b = a + (b - a)
    OBVIOUS
  <2> QED
    BY <2>1
<1>2. d * rate \in Nat /\ a * rate \in Nat
  OBVIOUS
<1>3. b * rate = a * rate + d * rate
  BY <1>1
<1> QED
  BY <1>2, <1>3

(* What a timer is set to. *)
LEMMA TimerValues ==
  ASSUME NEW rate \in Nat, NEW t \in Timer(rate)
  PROVE  /\ t \in Int
         /\ rate > 0 => t \in 0..Period(rate)
<1>1. CASE rate > 0
  BY <1>1, PeriodBounds DEF Timer, Period
<1>2. CASE ~(rate > 0)
  BY <1>2, CaptureTimerAssumption DEF Timer
<1> QED
  BY <1>1, <1>2

(* The loop begins with a timer that has just been set. *)
LEMMA InitInv ==
  ASSUME Init
  PROVE  IInv
<1>1. m_max_framerate \in Nat
  BY CaptureTimerAssumption DEF Init
<1>2. tv \in Int /\ (m_max_framerate > 0 => tv \in 0..Period(m_max_framerate))
  BY <1>1, TimerValues DEF Init
<1>3. m_max_framerate > 0 => Period(m_max_framerate) \in Nat
  BY <1>1, PeriodBounds
<1>4. m_running \in BOOLEAN /\ ready \in BOOLEAN
  BY DEF Init
<1>5. {m_running, ready} \subseteq BOOLEAN
  BY <1>4
<1>6. m_max_framerate \in Rates /\ waited = 0 /\ capture = "test" /\ joining = 0
  BY DEF Init
<1> QED
  BY <1>1, <1>2, <1>3, <1>5, <1>6 DEF IInv, TypeOK, WaitInv

(* Each step keeps the invariant. *)
LEMMA StepInv ==
  ASSUME IInv, [Next]_vars
  PROVE  IInv'
<1>a. m_max_framerate \in Nat
  BY CaptureTimerAssumption DEF IInv, TypeOK
<1>b. m_max_framerate > 0 => Period(m_max_framerate) \in Nat
  BY <1>a, PeriodBounds
<1> USE DEF IInv, TypeOK, WaitInv
<1>1. CASE UNCHANGED vars
  BY <1>1 DEF vars
<1>2. CASE LoopTest
  BY <1>a, <1>2 DEF LoopTest
<1>3. CASE Frame
  <2>1. tv - waited \in 0..tv
    BY <1>3 DEF Frame
  <2>2. m_running' \in BOOLEAN /\ ready' \in BOOLEAN
    BY <1>3 DEF Frame
  <2>3. {m_running', ready'} \subseteq BOOLEAN
    BY <2>2
  <2>4. /\ tv' \in Int /\ waited' = 0 /\ capture' = "test"
        /\ UNCHANGED <<m_max_framerate, joining>>
    BY <1>3, <2>1 DEF Frame
  <2>5. TypeOK'
    BY <2>3, <2>4
  <2>6. WaitInv'
    BY <1>a, <1>b, <1>3, <2>1 DEF Frame
  <2> QED
    BY <2>5, <2>6
<1>4. CASE Timeout
  BY <1>a, <1>b, <1>4 DEF Timeout
<1>5. CASE SelectFails
  BY <1>a, <1>5 DEF SelectFails
<1>6. CASE Tick
  BY <1>a, <1>b, <1>6 DEF Tick
<1>7. CASE FrameArrives
  BY <1>7 DEF FrameArrives
<1>8. CASE Stop
  BY <1>8 DEF Stop
<1>9. CASE Restart
  <2>1. m_max_framerate' \in Nat
    BY <1>9, CaptureTimerAssumption DEF Restart
  <2>2. tv' \in Int /\ (m_max_framerate' > 0 => tv' \in 0..Period(m_max_framerate'))
    BY <1>9, <2>1, TimerValues DEF Restart
  <2>3. m_max_framerate' > 0 => Period(m_max_framerate') \in Nat
    BY <2>1, PeriodBounds
  <2>4. m_running' \in BOOLEAN /\ ready' \in BOOLEAN
    BY <1>9 DEF Restart
  <2>5. {m_running', ready'} \subseteq BOOLEAN
    BY <2>4
  <2>6. /\ m_max_framerate' \in Rates /\ waited' = 0 /\ capture' = "test"
        /\ joining' = 0
    BY <1>9 DEF Restart
  <2>7. TypeOK'
    BY <2>2, <2>5, <2>6
  <2>8. WaitInv'
    BY <1>9, <2>1, <2>2, <2>3 DEF Restart
  <2> QED
    BY <2>7, <2>8
<1> QED
  BY <1>1, <1>2, <1>3, <1>4, <1>5, <1>6, <1>7, <1>8, <1>9 DEF Next, Loop

(* The strengthened invariant holds in every reachable state. *)
THEOREM Invariance == Spec => []IInv
BY InitInv, StepInv, PTL DEF Spec

(* The types of the timer's variables. *)
THEOREM TypeCorrect == Spec => []TypeOK
<1>1. IInv => TypeOK
  BY DEF IInv
<1> QED
  BY <1>1, Invariance, PTL

(* At every frame rate but 0, a caller waits in the join for ten frame     *)
(* periods at most.                                                        *)
THEOREM JoinBounded == Spec => []JoinsSoon
<1>1. ASSUME IInv
      PROVE  JoinsSoon
  <2>1. m_max_framerate \in Nat /\ joining \in Nat
    BY <1>1, CaptureTimerAssumption DEF IInv, TypeOK
  <2>2. CASE m_max_framerate > 0
    <3>1. joining <= Period(m_max_framerate)
      BY <1>1, <2>2 DEF IInv, WaitInv
    <3>2. /\ Period(m_max_framerate) \in Nat
          /\ Period(m_max_framerate) * m_max_framerate <= 10000
      BY <2>1, <2>2, PeriodBounds
    <3>3. joining * m_max_framerate <= Period(m_max_framerate) * m_max_framerate
      BY <2>1, <3>1, <3>2, Scaled
    <3>4. joining * m_max_framerate \in Nat /\ Period(m_max_framerate) * m_max_framerate \in Nat
      BY <2>1, <3>2
    <3> QED
      BY <3>2, <3>3, <3>4 DEF JoinsSoon
  <2>3. CASE m_max_framerate = 0
    BY <2>1, <2>3 DEF JoinsSoon
  <2> QED
    BY <2>1, <2>2, <2>3
<1> QED
  BY <1>1, Invariance, PTL
(* A frame that the device has waits for two steps of the loop at most, at *)
(* every rate but 0: the loop goes to select, and select finds the frame,  *)
(* whether or not it has any time left to wait.  With the fairness of      *)
(* FairSpec this is why FramesTaken holds.                                 *)
THEOREM FrameFound ==
  Spec => [][ready /\ m_running /\ m_max_framerate > 0 =>
               \/ capture = "test" /\ capture' = "select" /\ ready'
               \/ capture = "select" /\ ~ready'
               \/ ~m_running']_vars
<1>1. ASSUME IInv, Next, ready, m_running, m_max_framerate > 0
      PROVE  \/ capture = "test" /\ capture' = "select" /\ ready'
             \/ capture = "select" /\ ~ready'
             \/ ~m_running'
  <2>1. tv \in Int /\ tv >= 0
    BY <1>1, CaptureTimerAssumption, PeriodBounds DEF IInv, TypeOK, WaitInv
  <2>2. CASE LoopTest
    BY <1>1, <2>2 DEF LoopTest
  <2>3. CASE Frame
    BY <2>3 DEF Frame
  <2>4. CASE Stop
    BY <2>4 DEF Stop
  <2>5. ~Timeout /\ ~SelectFails /\ ~Tick /\ ~FrameArrives /\ ~Restart
    <3>1. ~Timeout /\ ~Tick /\ ~FrameArrives /\ ~Restart
      BY <1>1, Zenon DEF Timeout, Tick, FrameArrives, Restart
    <3>2. ~SelectFails
      BY <2>1 DEF SelectFails
    <3> QED
      BY <3>1, <3>2
  <2> QED
    BY <1>1, <2>2, <2>3, <2>4, <2>5 DEF Next, Loop
<1>2. IInv /\ [Next]_vars =>
        [ready /\ m_running /\ m_max_framerate > 0 =>
           \/ capture = "test" /\ capture' = "select" /\ ready'
           \/ capture = "select" /\ ~ready'
           \/ ~m_running']_vars
  BY <1>1
<1> QED
  BY <1>2, Invariance, PTL DEF Spec
=============================================================================
