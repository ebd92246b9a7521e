--------------------------- MODULE ExposureProofs ---------------------------
(***************************************************************************)
(* Proofs about Exposure: for any number of threads that call set_exposure *)
(* at once, any times and any refusals, the remembered exposure is that of *)
(* the device from an automatic exposure that one call set on its own to   *)
(* the next refusal or the next overlap of two calls.                      *)
(***************************************************************************)
EXTENDS Exposure, TLAPS

(* What the device will be asked for, or has been, once a call is at store. *)
Asked(t) == IF t = Automatic THEN mode = "auto" ELSE mode = "manual" /\ time = 10 * t

(* What a call knows at each of its statements: what the tests before it   *)
(* told it, and that a synced device has followed it so far.               *)
CallerInv(c) ==
  /\ at[c] = "setAuto" => time_ms[c] = Automatic
  /\ at[c] \in {"wasAuto", "setManual", "setTime"} => time_ms[c] # Automatic
  /\ (synced /\ at[c] \in {"differs", "setAuto", "wasAuto"}) => DeviceAgrees
  /\ (synced /\ at[c] = "setTime") => mode = "manual"
  /\ (synced /\ at[c] = "store") => Asked(time_ms[c])

(* While the exposures are in step, one call at most is under way.         *)
AloneInv == synced => \A c, d \in Callers : at[c] = "idle" \/ at[d] = "idle" \/ c = d

(* The strengthened invariant. *)
IInv == TypeOK /\ AloneInv /\ ReportedOnceAuto /\ \A c \in Callers : CallerInv(c)

(* A camera that has just been opened. *)
LEMMA IInvInit ==
  ASSUME Init
  PROVE  IInv
<1>1. TypeOK
  BY ExposureAssumption DEF Init, TypeOK, NoTime
<1>2. ASSUME NEW c \in Callers
      PROVE  CallerInv(c)
  BY DEF Init, CallerInv
<1>3. AloneInv /\ ReportedOnceAuto
  BY DEF Init, AloneInv, ReportedOnceAuto, ExposureReported, DeviceAgrees
<1> QED
  BY <1>1, <1>2, <1>3 DEF IInv

(* A step leaves the types in order; that SetTime sends a time, and not    *)
(* Automatic, it owes to the tests before it.                              *)
LEMMA TypeStep ==
  ASSUME IInv, [Next]_vars
  PROVE  TypeOK'
<1>1. CASE UNCHANGED vars
  BY <1>1 DEF IInv, TypeOK, vars
<1>2. ASSUME NEW c \in Callers, NEW t \in Times \cup {Automatic}, SetExposure(c, t)
      PROVE  TypeOK'
  BY <1>2 DEF IInv, TypeOK, SetExposure, Goto, Alone
<1>3. ASSUME NEW c \in Callers, Differs(c)
      PROVE  TypeOK'
  BY <1>3 DEF IInv, TypeOK, Differs, Goto
<1>4. ASSUME NEW c \in Callers, SetAuto(c)
      PROVE  TypeOK'
  BY <1>4 DEF IInv, TypeOK, SetAuto, Goto, Alone
<1>5. ASSUME NEW c \in Callers, WasAuto(c)
      PROVE  TypeOK'
  BY <1>5 DEF IInv, TypeOK, WasAuto, Goto
<1>6. ASSUME NEW c \in Callers, SetManual(c)
      PROVE  TypeOK'
  BY <1>6 DEF IInv, TypeOK, SetManual, Goto
<1>7. ASSUME NEW c \in Callers, SetTime(c)
      PROVE  TypeOK'
  <2>1. at[c] = "setTime" /\ time_ms[c] \in Times
    BY <1>7 DEF IInv, TypeOK, CallerInv, SetTime, Goto
  <2>2. time' \in {NoTime} \cup {10 * t : t \in Times}
    BY <1>7, <2>1 DEF IInv, TypeOK, SetTime
  <2> QED
    BY <1>7, <2>2 DEF IInv, TypeOK, SetTime, Goto
<1>8. ASSUME NEW c \in Callers, Store(c)
      PROVE  TypeOK'
  BY <1>8 DEF IInv, TypeOK, Store, Goto
<1> QED
  BY <1>1, <1>2, <1>3, <1>4, <1>5, <1>6, <1>7, <1>8 DEF Next

(* What a step of one call may do to the others: nothing, unless they are  *)
(* out of step from now on.                                                *)
LEMMA OthersStep ==
  ASSUME IInv, NEW c \in Callers, NEW d \in Callers \ {c}, CallerInv(d),
         at'[d] = at[d], time_ms'[d] = time_ms[d],
         synced' => at[d] = "idle"
  PROVE  CallerInv(d)'
BY DEF CallerInv

(* A step of a call keeps what that call knows, ends with the device in    *)
(* agreement, and is out of step with the others if it is not alone.       *)
LEMMA CallerStep ==
  ASSUME IInv, NEW c \in Callers,
         \/ \E t \in Times \cup {Automatic} : SetExposure(c, t)
         \/ Differs(c) \/ SetAuto(c) \/ WasAuto(c) \/ SetManual(c) \/ SetTime(c) \/ Store(c)
  PROVE  /\ CallerInv(c)'
         /\ (synced' /\ at'[c] = "idle") => DeviceAgrees'
         /\ synced' => \A d \in Callers \ {c} : at[d] = "idle"
         /\ \A d \in Callers \ {c} : at'[d] = at[d] /\ time_ms'[d] = time_ms[d]
<1> USE DEF CallerInv, Goto
<1>0. CallerInv(c) /\ TypeOK
  BY DEF IInv
<1>a. (synced /\ at[c] # "idle") => \A d \in Callers \ {c} : at[d] = "idle"
  BY DEF IInv, AloneInv
<1>b. (synced /\ at[c] = "idle" /\ Alone(c)) => DeviceAgrees
  BY DEF IInv, Alone, ReportedOnceAuto, ExposureReported
<1>1. Automatic = -1 /\ Automatic \notin Times /\ Times \subseteq Nat
  BY ExposureAssumption DEF Automatic
<1>2. CASE \E t \in Times \cup {Automatic} : SetExposure(c, t)
  BY <1>0, <1>b, <1>2 DEF TypeOK, SetExposure, DeviceAgrees, Alone
<1>3. CASE Differs(c)
  BY <1>0, <1>a, <1>1, <1>3 DEF TypeOK, Differs, DeviceAgrees
<1>4. CASE SetAuto(c)
  BY <1>0, <1>a, <1>1, <1>4 DEF TypeOK, SetAuto, DeviceAgrees, Asked, Alone
<1>5. CASE WasAuto(c)
  BY <1>0, <1>a, <1>1, <1>5 DEF TypeOK, WasAuto, DeviceAgrees
<1>6. CASE SetManual(c)
  BY <1>0, <1>a, <1>1, <1>6 DEF TypeOK, SetManual, DeviceAgrees
<1>7. CASE SetTime(c)
  <2>1. at[c] = "setTime" /\ time_ms[c] \in Times
    BY <1>0, <1>7 DEF TypeOK, SetTime
  <2> QED
    BY <1>0, <1>a, <1>1, <1>7, <2>1 DEF TypeOK, SetTime, Asked
<1>8. CASE Store(c)
  BY <1>0, <1>a, <1>1, <1>8 DEF TypeOK, Store, DeviceAgrees, Asked
<1> QED
  BY <1>0, <1>2, <1>3, <1>4, <1>5, <1>6, <1>7, <1>8

(* Every step keeps the strengthened invariant. *)
LEMMA IInvStep ==
  ASSUME IInv, [Next]_vars
  PROVE  IInv'
<1>1. TypeOK'
  BY TypeStep
<1>2. ASSUME NEW c \in Callers,
             \/ \E t \in Times \cup {Automatic} : SetExposure(c, t)
             \/ Differs(c) \/ SetAuto(c) \/ WasAuto(c) \/ SetManual(c) \/ SetTime(c) \/ Store(c)
      PROVE  IInv'
  <2>1. /\ CallerInv(c)'
        /\ (synced' /\ at'[c] = "idle") => DeviceAgrees'
        /\ synced' => \A d \in Callers \ {c} : at[d] = "idle"
        /\ \A d \in Callers \ {c} : at'[d] = at[d] /\ time_ms'[d] = time_ms[d]
    BY <1>2, CallerStep
  <2>2. \A d \in Callers \ {c} : CallerInv(d)'
    BY <2>1, OthersStep DEF IInv
  <2>3. AloneInv'
    BY <2>1 DEF AloneInv
  <2>4. ReportedOnceAuto'
    BY <2>1 DEF ReportedOnceAuto, ExposureReported
  <2> QED
    BY <1>1, <2>1, <2>2, <2>3, <2>4 DEF IInv
<1>3. CASE UNCHANGED vars
  BY <1>1, <1>3 DEF IInv, vars, CallerInv, AloneInv, ReportedOnceAuto, ExposureReported,
                    DeviceAgrees, Asked
<1> QED
  BY <1>2, <1>3 DEF Next

(* The strengthened invariant holds in every reachable state, however many *)
(* threads set the exposure.                                               *)
THEOREM Invariance == Spec => []IInv
<1>1. Init => IInv
  BY IInvInit
<1>2. IInv /\ [Next]_vars => IInv'
  BY IInvStep
<1> QED
  BY <1>1, <1>2, PTL DEF Spec

(* The types of set_exposure's state: what m_exposure takes is what a      *)
(* filter asked for, and what the device is sent is always a time.         *)
THEOREM TypeCorrect == Spec => []TypeOK
<1>1. IInv => TypeOK
  BY DEF IInv
<1> QED
  BY <1>1, Invariance, PTL

(* While no call is under way GetExposure reports the exposure of the      *)
(* device, from an automatic exposure that a call set on its own to the    *)
(* next refusal or overlap, whatever the times.                            *)
THEOREM ReportedExposure == Spec => []ReportedOnceAuto
<1>1. IInv => ReportedOnceAuto
  BY DEF IInv
<1> QED
  BY <1>1, Invariance, PTL
=============================================================================
