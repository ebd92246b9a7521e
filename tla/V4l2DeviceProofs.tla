--------------------------- MODULE V4l2DeviceProofs ---------------------------
(***************************************************************************)
(* Proofs about V4l2Device, for any formats, lists, rates and drivers and  *)
(* whatever fails: opening a device is all or nothing.                     *)
(***************************************************************************)
EXTENDS V4l2Device, TLAPS

(* The steps of initdevice that have a descriptor. *)
Initialising == {"capabilities", "query", "format", "requery", "rate", "exposure"}

(* init has returned true and the descriptor is the one initdevice set up, *)
(* not the one that LOG's else opens.                                      *)
SetUp == pc \in {"start", "ready"} /\ m_fd = "device"

(* The descriptor at each step.  With errors logged nothing opens the      *)
(* device a second time.                                                   *)
DescriptorInv ==
  /\ opened = IF m_fd = "none" THEN 0 ELSE 1
  /\ pc \in {"idle", "open", "initFailed"} => m_fd = "none"
  /\ pc \in Initialising => m_fd = "device"
  /\ (pc \in {"start", "ready"} /\ errorsLogged) => m_fd = "device"

(* What has been set when a step is reached. *)
ConfiguredInv ==
  /\ pc \in Initialising \ {"capabilities"} \/ SetUp => Mandatory \subseteq capabilities
  /\ pc \in {"requery", "rate", "exposure"} \/ SetUp => "format" \in set
  /\ (pc = "exposure" \/ SetUp) /\ m_fps > 0 => "rate" \in set
  /\ SetUp => "exposure" \in set
  /\ pc = "ready" /\ mmap => "stream" \in set

(* From the second queryFormat on, the size is the driver's; a device      *)
(* without buffers may be given another format later.                      *)
SizeInv ==
  (pc \in {"rate", "exposure"} \/ (SetUp /\ (pc = "start" \/ mmap))) /\ queried
    => m_bufferSize = format

(* The strengthened invariant. *)
IInv == TypeOK /\ DescriptorInv /\ ConfiguredInv /\ SizeInv

(* Nothing is open before the first create. *)
LEMMA InitInv ==
  ASSUME Init
  PROVE  IInv
<1>1. <<>> \in Seq(Formats)
  OBVIOUS
<1> QED
  BY <1>1 DEF Init, IInv, TypeOK, NoSize, DescriptorInv, ConfiguredInv, SizeInv,
              SetUp, Initialising

(* queryFormat yields a format and its size. *)
LEMMA QueryTypes ==
  ASSUME TypeOK, QueryFormat
  PROVE  /\ m_format' \in Formats \cup {None}
         /\ m_bufferSize' \in Formats \cup {NoSize, BadSize}
         /\ queried' \in BOOLEAN
         /\ queried' => (queried /\ m_bufferSize' = format)
<1> USE DEF TypeOK, QueryFormat, image
<1>1. m_format' \in Formats \cup {None}
  OBVIOUS
<1>2. m_bufferSize' \in Formats \cup {NoSize, BadSize}
  OBVIOUS
<1>3. CASE UNCHANGED queried /\ m_bufferSize' = format
  <2>1. queried' \in BOOLEAN
    BY <1>3, Zenon
  <2> QED
    BY <1>1, <1>2, <1>3, <2>1
<1>4. CASE queried' = FALSE
  BY <1>1, <1>2, <1>4
<1> QED
  BY <1>3, <1>4

(* Each step keeps the invariant. *)
LEMMA StepInv ==
  ASSUME IInv, [Next]_vars
  PROVE  IInv'
<1> USE DEF IInv, TypeOK, DescriptorInv, ConfiguredInv, SizeInv, SetUp, Initialising,
            Mandatory, Goto, device, config, image
<1>1. CASE UNCHANGED vars
  BY <1>1 DEF vars
<1>2. CASE Create
  BY <1>2, V4l2DeviceAssumption DEF Create
<1>3. CASE Open
  BY <1>3 DEF Open
<1>4. ASSUME NEW from \in Initialising, LeaveInitDevice(from)
      PROVE  IInv'
  BY <1>4 DEF LeaveInitDevice
<1>5. CASE CheckCapabilities
  <2>1. CASE LeaveInitDevice("capabilities")
    BY <1>4, <2>1
  <2>2. CASE Goto("capabilities", "query") /\ UNCHANGED <<device, m_fd, opened, config, image, format, set, queried>> /\ Mandatory \subseteq capabilities
    BY <2>2
  <2> QED
    BY <1>5, <2>1, <2>2 DEF CheckCapabilities
<1>6. CASE QueryCurrent
  <2>1. m_formatList' \in Seq(Formats)
    BY <1>6, QueryTypes DEF QueryCurrent
  <2> QED
    BY <1>6, <2>1, QueryTypes DEF QueryCurrent
<1>7. CASE TryFormat
  <2> DEFINE f == Head(m_formatList)
  <2>1. f \in Formats /\ Tail(m_formatList) \in Seq(Formats)
    BY <1>7 DEF TryFormat
  <2>2. CASE FormatSet(f)
    BY <1>7, <2>1, <2>2 DEF TryFormat, FormatSet, FormatRefused, FormatSubstituted
  <2>3. CASE ~FormatSet(f)
    <3>1. Goto("format", "format") /\ format' \in Formats
      BY <1>7, <2>3 DEF TryFormat, FormatRefused, FormatSubstituted
    <3>2. m_formatList' = Tail(m_formatList) /\ UNCHANGED <<image, set>>
      BY <1>7, <2>3 DEF TryFormat
    <3>3. UNCHANGED <<device, m_fd, opened, type, mmap, errorsLogged, m_fps, queried>>
      BY <1>7 DEF TryFormat
    <3> QED
      BY <2>1, <3>1, <3>2, <3>3
  <2> QED
    BY <2>2, <2>3
<1>8. CASE NoFormatLeft
  BY <1>4, <1>8 DEF NoFormatLeft
<1>9. CASE QueryAgain
  BY <1>9, QueryTypes DEF QueryAgain
<1>10. CASE SetRate
  <2>1. CASE LeaveInitDevice("rate")
    BY <1>4, <2>1
  <2>2. CASE Goto("rate", "exposure") /\ set' = (IF m_fps > 0 THEN set \cup {"rate"} ELSE set) /\ UNCHANGED <<device, m_fd, opened, config, image, format, queried>>
    BY <2>2
  <2> QED
    BY <1>10, <2>1, <2>2 DEF SetRate
<1>11. CASE SetExposure
  <2>1. CASE LeaveInitDevice("exposure")
    BY <1>4, <2>1
  <2>2. CASE Goto("exposure", "start") /\ set' = set \cup {"exposure"} /\ UNCHANGED <<device, m_fd, opened, config, image, format, queried>>
    BY <2>2
  <2> QED
    BY <1>11, <2>1, <2>2 DEF SetExposure
<1>12. CASE InitFailed
  BY <1>12 DEF InitFailed
<1>13. CASE StartDevice
  BY <1>13, ZenonT(60) DEF StartDevice
<1>14. CASE Release
  BY <1>14 DEF Release
<1>15. CASE Refresh
  BY <1>15, QueryTypes DEF Refresh
<1>16. CASE Replug
  BY <1>16 DEF Replug
<1>17. ASSUME NEW f \in Formats, SetFormat(f)
       PROVE  IInv'
  BY <1>17 DEF SetFormat, FormatRefused, FormatSubstituted, FormatSet
<1> QED
  BY <1>1, <1>2, <1>3, <1>5, <1>6, <1>7, <1>8, <1>9, <1>10, <1>11, <1>12, <1>13,
     <1>14, <1>15, <1>16, <1>17 DEF Next

(* The strengthened invariant holds in every reachable state. *)
THEOREM Invariance == Spec => []IInv
BY InitInv, StepInv, PTL DEF Spec

(* The types of the device's variables. *)
THEOREM TypeCorrect == Spec => []TypeOK
<1>1. IInv => TypeOK
  BY DEF IInv
<1> QED
  BY <1>1, Invariance, PTL

(* A failed create leaves no descriptor open, whichever step failed. *)
THEOREM NothingLeaks == Spec => []NoDescriptorLeaked
<1>1. IInv => NoDescriptorLeaked
  BY DEF IInv, DescriptorInv, NoDescriptorLeaked
<1> QED
  BY <1>1, Invariance, PTL

(* With errors logged, a device that create hands out is configured from   *)
(* end to end.                                                             *)
THEOREM AllOrNothing == Spec => []ReadyIsConfigured
<1>1. IInv => ReadyIsConfigured
  BY DEF IInv, DescriptorInv, ConfiguredInv, SetUp, ReadyIsConfigured
<1> QED
  BY <1>1, Invariance, PTL

(* A device with buffers reports the size of the driver's images. *)
THEOREM SizeFollows == Spec => []BufferSizeRight
<1>1. IInv => BufferSizeRight
  BY DEF IInv, SizeInv, SetUp, BufferSizeRight
<1> QED
  BY <1>1, Invariance, PTL
-----------------------------------------------------------------------------
(* How long a create can take *)

(* The formats that may still be tried: an empty list gets the current     *)
(* format when the device is queried.                                      *)
FormatsLeft ==
  IF pc \in {"open", "capabilities", "query"} /\ m_formatList = <<>> THEN 1
  ELSE IF pc \in {"open", "capabilities", "query", "format"} THEN Len(m_formatList) ELSE 0

Position ==
  CASE pc = "open"         -> 10
    [] pc = "capabilities" -> 9
    [] pc = "query"        -> 8
    [] pc = "format"       -> 7
    [] pc = "requery"      -> 6
    [] pc = "rate"         -> 5
    [] pc = "exposure"     -> 4
    [] pc = "initFailed"   -> 3
    [] pc = "start"        -> 2
    [] pc = "release"      -> 1
    [] OTHER               -> 0

(* The steps that create may still take, at the most. *)
StepsLeft == Position + FormatsLeft

Creating == pc \notin {"idle", "ready"}

(* A step of create goes forward, with no more formats to try, or tries    *)
(* the next format.                                                        *)
LEMMA StepForward ==
  ASSUME TypeOK, Next, Creating
  PROVE  Position \in Nat /\ Position' \in Nat /\ FormatsLeft \in Nat /\ FormatsLeft' \in Nat
         /\ \/ Position' < Position /\ FormatsLeft' <= FormatsLeft
            \/ Position' = Position /\ FormatsLeft' < FormatsLeft
<1> USE DEF Goto, Creating, config
<1>1. /\ pc \in {"open", "capabilities", "query", "format", "requery", "rate",
                 "exposure", "start", "initFailed", "release"}
      /\ m_formatList \in Seq(Formats) /\ Len(m_formatList) \in Nat
      /\ (m_formatList # <<>> => Len(m_formatList) >= 1)
  BY DEF TypeOK
<1>2. FormatsLeft \in Nat /\ Position \in Nat
  BY <1>1 DEF FormatsLeft, Position
<1>3. ASSUME pc' \in {"requery", "rate", "exposure", "start", "initFailed", "release", "idle", "ready"},
             Position' < Position
      PROVE  Position' \in Nat /\ FormatsLeft' \in Nat /\ FormatsLeft' <= FormatsLeft
  BY <1>2, <1>3 DEF FormatsLeft, Position
<1>4. CASE Open
  <2>1. CASE pc' = "capabilities"
    BY <1>1, <1>4, <2>1 DEF Open, FormatsLeft, Position
  <2> QED
    BY <1>2, <1>3, <1>4, <2>1 DEF Open, Position
<1>5. ASSUME NEW from \in {"capabilities", "format", "rate", "exposure"}, LeaveInitDevice(from)
      PROVE  pc' = "initFailed" /\ Position' < Position
  BY <1>5 DEF LeaveInitDevice, Position
<1>6. CASE CheckCapabilities
  <2>1. CASE LeaveInitDevice("capabilities")
    BY <1>2, <1>3, <1>5, <2>1
  <2>2. CASE Goto("capabilities", "query") /\ UNCHANGED config
    BY <1>1, <2>2 DEF FormatsLeft, Position
  <2> QED
    BY <1>6, <2>1, <2>2 DEF CheckCapabilities
<1>7. CASE QueryCurrent
  <2>1. /\ pc = "query" /\ pc' = "format"
        /\ \/ m_formatList' = m_formatList
           \/ m_formatList = <<>> /\ Len(m_formatList') = 1
    BY <1>7 DEF QueryCurrent
  <2>2. Position = 8 /\ Position' = 7 /\ FormatsLeft' = Len(m_formatList')
    BY <2>1 DEF FormatsLeft, Position
  <2>3. FormatsLeft = IF m_formatList = <<>> THEN 1 ELSE Len(m_formatList)
    BY <2>1 DEF FormatsLeft
  <2>4. CASE m_formatList' = m_formatList
    <3>1. m_formatList = <<>> => Len(m_formatList) = 0
      OBVIOUS
    <3> QED
      BY <1>1, <2>2, <2>3, <2>4, <3>1
  <2>5. CASE m_formatList = <<>> /\ Len(m_formatList') = 1
    BY <1>2, <2>2, <2>3, <2>5
  <2> QED
    BY <2>1, <2>4, <2>5
<1>8. CASE TryFormat
  <2>1. CASE pc' = "format"
    <3>1. pc = "format" /\ m_formatList # <<>> /\ m_formatList' = Tail(m_formatList)
      BY <1>8, <2>1 DEF TryFormat
    <3>2. Len(m_formatList') = Len(m_formatList) - 1
      BY <1>1, <3>1
    <3> QED
      BY <1>1, <2>1, <3>1, <3>2 DEF FormatsLeft, Position
  <2>2. CASE pc = "format" /\ pc' = "requery"
    BY <1>2, <1>3, <2>2 DEF Position
  <2> QED
    BY <1>8, <2>1, <2>2 DEF TryFormat
<1>9. CASE NoFormatLeft
  BY <1>2, <1>3, <1>5, <1>9 DEF NoFormatLeft
<1>10. CASE QueryAgain
  BY <1>2, <1>3, <1>10 DEF QueryAgain, Position
<1>11. CASE SetRate
  <2>1. (pc = "rate" /\ pc' = "exposure") \/ LeaveInitDevice("rate")
    BY <1>11 DEF SetRate
  <2>2. CASE pc = "rate" /\ pc' = "exposure"
    BY <1>2, <1>3, <2>2 DEF Position
  <2> QED
    BY <1>2, <1>3, <1>5, <2>1, <2>2
<1>12. CASE SetExposure
  <2>1. (pc = "exposure" /\ pc' = "start") \/ LeaveInitDevice("exposure")
    BY <1>12 DEF SetExposure
  <2>2. CASE pc = "exposure" /\ pc' = "start"
    BY <1>2, <1>3, <2>2 DEF Position
  <2> QED
    BY <1>2, <1>3, <1>5, <2>1, <2>2
<1>13. CASE InitFailed
  BY <1>2, <1>3, <1>13 DEF InitFailed, Position
<1>14. CASE StartDevice
  <2>1. pc = "start" /\ pc' \in {"ready", "release"}
    BY <1>14 DEF StartDevice
  <2> QED
    BY <1>2, <1>3, <2>1 DEF Position
<1>15. CASE Release
  <2>1. pc = "release" /\ pc' = "idle"
    BY <1>14, <1>15 DEF Release
  <2> QED
    BY <1>2, <1>3, <2>1 DEF Position
<1>16. ~Create /\ ~Refresh /\ ~Replug /\ ~(\E f \in Formats : SetFormat(f))
  BY DEF Create, Refresh, Replug, SetFormat
<1> QED
  BY <1>4, <1>6, <1>7, <1>8, <1>9, <1>10, <1>11, <1>12, <1>13, <1>14, <1>15, <1>16 DEF Next

(* Every step of an unfinished create brings it nearer to its end, whatever *)
(* fails: no error path leads back, and the list of formats runs out.  A    *)
(* create takes ten steps and one for each format at the most, one format   *)
(* for an empty list.  With the fairness of FairSpec, and a step in every   *)
(* state, which TLC checks, this is why CreateReturns holds.                *)
THEOREM CreateAdvances ==
  Spec => [][Creating => StepsLeft \in Nat /\ StepsLeft' < StepsLeft]_vars
<1>1. IInv /\ [Next]_vars => [Creating => StepsLeft \in Nat /\ StepsLeft' < StepsLeft]_vars
  <2> SUFFICES ASSUME TypeOK, Next, Creating PROVE StepsLeft \in Nat /\ StepsLeft' < StepsLeft
    BY DEF IInv
  <2> QED
    BY StepForward DEF StepsLeft
<1> QED
  BY <1>1, Invariance, PTL DEF Spec
=============================================================================
