--------------------------- MODULE RegistryProofs ---------------------------
(***************************************************************************)
(* Proofs about Registry, for any number of filters, indices and cameras   *)
(* and any faults.                                                         *)
(***************************************************************************)
EXTENDS Registry, TLAPS

(* The statements of Init, and those at which it has registered a camera.  *)
InInit     == {"add", "assign", "init", "start", "open"}
Registered == {"init", "start", "open"}

(* A filter that is under way holds a camera of its index, one that is     *)
(* ready too, and the registry files each camera under its index.  Memory  *)
(* without a camera is as make_shared finds it.                            *)
HoldInv ==
  /\ \A f \in Filters :
       /\ f \in Inputs => at[f] \in InInit \cup {"idle"}
       /\ f \in Settings => at[f] \in {"use", "idle"}
       /\ f \in Closers => at[f] \in {"close", "remove", "idle"}
  /\ \A f \in Inputs : at[f] # "idle" \/ f \in ready =>
       m_camera[f] # None /\ index[m_camera[f]] = m_camera_index[f]
  /\ \A f \in ready : at[f] = "idle"
  /\ \A f \in Filters : cam[f] # None => index[cam[f]] = m_camera_index[f]
  /\ \A i \in Indices : devices[i] # None => index[devices[i]] = i
  /\ \A f \in Closers : m_camera_index[f] \in Indices
FreeInv ==
  \A k \in Cameras \ Existing : video_capture[k] = "unset" /\ k \notin m_running

(* The histories know of all calls that are under way together.            *)
CrossInv ==
  /\ \A f, g \in Filters :
       f # g /\ at[f] # "idle" /\ at[g] # "idle" /\ m_camera_index[f] = m_camera_index[g]
         => m_camera_index[f] \in overlapped
  /\ \A f \in Inputs, x \in Closers :
       at[f] # "idle" /\ at[x] # "idle" /\ m_camera_index[f] = m_camera_index[x]
         => m_camera_index[f] \in clashed

(* The indices of which the registry may have lost sight: a                *)
(* CloseAcquisition ran during an Init, or a device node was missing when  *)
(* calls overlapped.                                                       *)
Excused(i)     == i \in clashed \/ ("stat" \in faults /\ i \in overlapped)
ExcusedNext(i) == i \in clashed' \/ ("stat" \in faults' /\ i \in overlapped')

(* Until calls for its index overlap, a live camera and one whose start is *)
(* under way are the registered one.  When Inits have crossed, another may *)
(* have taken their place, but there is only one live camera of an index,  *)
(* and a close leaves none behind.                                         *)
RegisteredInv ==
  /\ \A k \in Cameras : video_capture[k] = "live" =>
       /\ devices[index[k]] = k \/ index[k] \in overlapped
       /\ devices[index[k]] # None \/ Excused(index[k])
  /\ \A j, k \in Cameras :
       video_capture[j] = "live" /\ video_capture[k] = "live" /\ index[j] = index[k] => j = k
  /\ \A f \in Inputs : at[f] \in Registered =>
       /\ devices[m_camera_index[f]] = m_camera[f] \/ m_camera_index[f] \in overlapped
       /\ devices[m_camera_index[f]] # None \/ m_camera_index[f] \in clashed
  /\ \A x \in Closers, k \in Cameras :
       at[x] # "idle" /\ video_capture[k] = "live" /\ index[k] = m_camera_index[x]
         => (at[x] = "close" /\ k = cam[x]) \/ Excused(index[k])

(* The cameras a start_acquisition is opening. *)
BeingOpened == {m_camera[g] : g \in {h \in Inputs : at[h] = "open"}}

(* m_running tells the truth unless a device node was missing. *)
RunningInv ==
  /\ \A k \in m_running : video_capture[k] = "live" \/ "stat" \in faults \/ k \in BeingOpened
  /\ \A f \in ready : \/ video_capture[m_camera[f]] # "unset"
                      \/ "stat" \in faults
                      \/ m_camera[f] \in BeingOpened

(* What holds of an index whose calls have not overlapped. *)
AloneInv ==
  /\ \A f \in Inputs : m_camera_index[f] \notin overlapped =>
       /\ at[f] \in {"add", "assign"} => devices[m_camera_index[f]] = None
       /\ at[f] \in {"start", "open"} =>
            \A k \in Cameras : ~(index[k] = m_camera_index[f] /\ video_capture[k] = "live")
       /\ at[f] = "open" => m_camera[f] \in m_running
  /\ \A k \in Cameras : video_capture[k] = "live" /\ index[k] \notin overlapped => k \in m_running

(* What holds if no device node is missing; whatever calls overlap, a      *)
(* registered camera is open, about to be opened, or about to be removed.  *)
SoundInv ==
  "stat" \notin faults =>
    /\ \A f \in Filters :
         at[f] \in {"use", "close"} /\ m_camera_index[f] \notin overlapped => video_capture[cam[f]] = "live"
    /\ \A i \in Indices : devices[i] # None =>
         \/ video_capture[devices[i]] = "live"
         \/ \E f \in Inputs : m_camera[f] = devices[i] /\ at[f] \in Registered
         \/ \E x \in Closers : m_camera_index[x] = i /\ at[x] = "remove"
    /\ \A k \in Existing : video_capture[k] = "unset" /\ index[k] \notin overlapped =>
         \E f \in Inputs : m_camera[f] = k /\ at[f] \in InInit

AliveInv ==
  HoldInv /\ CrossInv /\ RegisteredInv /\ RunningInv /\ AloneInv /\ SoundInv

(* The strengthened invariant. *)
IInv == TypeOK /\ MisuseExplained /\ FreeInv /\ (process = "alive" => AliveInv)

-----------------------------------------------------------------------------
(* Lemmas about the operators *)

(* No filter has been called yet. *)
LEMMA InitInv ==
  ASSUME Init
  PROVE  IInv
<1> USE RegistryAssumption DEF Init, Filters
<1>1. PICK left \in [Closers -> Indices] :
        m_camera_index = [f \in Filters |-> IF f \in Closers THEN left[f] ELSE None]
  OBVIOUS
<1>2. Existing = {}
  BY DEF Existing
<1>3. TypeOK
  BY <1>1, <1>2 DEF TypeOK
<1>4. MisuseExplained
  BY DEF MisuseExplained
<1>5. FreeInv
  BY DEF FreeInv
<1>6. HoldInv
  BY <1>1 DEF HoldInv
<1>7. CrossInv /\ RegisteredInv /\ RunningInv /\ AloneInv
  BY DEF CrossInv, RegisteredInv, RunningInv, AloneInv, Registered
<1>8. SoundInv
  BY <1>2 DEF SoundInv
<1> QED
  BY <1>3, <1>4, <1>5, <1>6, <1>7, <1>8 DEF IInv, AliveInv

(* What a step that lets pointers go does to the cameras. *)
Dropped(newIndex) ==
  /\ index' \in [Cameras -> Indices \cup {None}]
  /\ \A k \in Cameras : index'[k] # None <=> k \in Existing'
  /\ m_running' \subseteq Cameras
  /\ video_capture' \in [Cameras -> {"unset", "live", "deleted"}]
  /\ process' \in {"alive", "wild pointer", "freed pointer"}
  /\ process' = "wild pointer" =>
       \E k \in Existing \ Existing' : video_capture[k] = "unset"
  /\ FreeInv'
  /\ \A k \in Existing' : /\ index'[k] = newIndex[k]
                          /\ video_capture'[k] = video_capture[k]
                          /\ k \in m_running' <=> k \in m_running
  /\ \A k \in Cameras \ Existing' : video_capture'[k] = "unset" /\ k \notin m_running'

(* Letting pointers go leaves the cameras alone that are still referred    *)
(* to, makes memory of the others, and is a misuse only for one of those   *)
(* that was not live.                                                      *)
LEMMA LetGoFacts ==
  ASSUME TypeOK, FreeInv, process = "alive",
         NEW newIndex \in [Cameras -> Indices \cup {None}], LetGo(newIndex),
         \A k \in Existing' : newIndex[k] # None,
         \A k \in Cameras : k \notin Existing /\ k \notin Existing' => newIndex[k] = None
  PROVE  Dropped(newIndex)
<1> DEFINE lost == Existing \ Existing'
<1>1. /\ index' = [k \in Cameras |-> IF k \in lost THEN None ELSE newIndex[k]]
      /\ m_running' = m_running \ lost
      /\ video_capture' = [k \in Cameras |-> IF k \in lost THEN "unset" ELSE video_capture[k]]
      /\ IF lost = {} THEN UNCHANGED process ELSE \E k \in lost : Delete(k)
  BY DEF LetGo
<1>2. Existing \subseteq Cameras /\ Existing' \subseteq Cameras
  BY DEF Existing
<1>3. \A k \in Cameras \ Existing : video_capture[k] = "unset" /\ k \notin m_running
  BY DEF FreeInv
<1>4. m_running \subseteq Cameras /\ video_capture \in [Cameras -> {"unset", "live", "deleted"}]
  BY DEF TypeOK
<1>5. /\ process' \in {"alive", "wild pointer", "freed pointer"}
      /\ process' = "wild pointer" => \E k \in lost : video_capture[k] = "unset"
  <2>1. CASE lost = {}
    BY <1>1, <2>1
  <2>2. CASE lost # {}
    <3>1. PICK k \in lost : Delete(k)
      BY <1>1, <2>2
    <3> QED
      BY <1>2, <1>4, <3>1 DEF Delete, Misuse
  <2> QED
    BY <2>1, <2>2
<1>6. \A k \in Existing' : /\ index'[k] = newIndex[k]
                           /\ video_capture'[k] = video_capture[k]
                           /\ k \in m_running' <=> k \in m_running
  BY <1>1, <1>2
<1>7. \A k \in Cameras \ Existing' : video_capture'[k] = "unset" /\ k \notin m_running'
  BY <1>1, <1>2, <1>3
<1>8. \A k \in Cameras : index'[k] # None <=> k \in Existing'
  BY <1>1, <1>2
<1>9. /\ index' \in [Cameras -> Indices \cup {None}]
      /\ m_running' \subseteq Cameras
      /\ video_capture' \in [Cameras -> {"unset", "live", "deleted"}]
  BY <1>1, <1>4
<1>10. FreeInv'
  BY <1>7 DEF FreeInv
<1> QED
  BY <1>5, <1>6, <1>7, <1>8, <1>9, <1>10 DEF Dropped

(* What it means for the histories that a call begins. *)
Begun(f, i) ==
  /\ overlapped \subseteq overlapped' /\ overlapped' \subseteq overlapped \cup {i}
  /\ clashed \subseteq clashed' /\ clashed' \subseteq clashed \cup {i}
  /\ overlapped' \subseteq Indices /\ clashed' \subseteq overlapped'
  /\ \A g \in Filters \ {f} : at[g] # "idle" /\ m_camera_index[g] = i =>
       /\ i \in overlapped'
       /\ (f \in Inputs /\ g \in Closers) \/ (f \in Closers /\ g \in Inputs) => i \in clashed'

(* Begin only adds the index that the call is for.                         *)
LEMMA BeginFacts ==
  ASSUME TypeOK, NEW f \in Filters, NEW i \in Indices, Begin(f, i)
  PROVE  Begun(f, i)
<1> DEFINE others == {g \in Filters \ {f} : at[g] # "idle" /\ m_camera_index[g] = i}
<1>1. overlapped' = overlapped \cup {j \in {i} : others # {}}
  BY DEF Begin
<1>2. clashed' = clashed \cup {j \in {i} : \/ f \in Inputs /\ others \cap Closers # {}
                                           \/ f \in Closers /\ others \cap Inputs # {}}
  BY DEF Begin
<1>3. overlapped \subseteq Indices /\ clashed \subseteq overlapped
  BY DEF TypeOK
<1> QED
  BY <1>1, <1>2, <1>3 DEF Begun

(* A call goes on, or ends.                                                *)
LEMMA CrossStep ==
  ASSUME TypeOK, CrossInv, NEW f \in Filters, NEW to,
         at' = [at EXCEPT ![f] = to], to = "idle" \/ at[f] # "idle",
         UNCHANGED <<m_camera_index, historyVars>>
  PROVE  CrossInv'
<1>1. /\ \A g \in Filters : at'[g] = "idle" \/ at[g] # "idle"
      /\ UNCHANGED <<m_camera_index, overlapped, clashed>>
  BY DEF TypeOK, historyVars
<1>2. Inputs \subseteq Filters /\ Closers \subseteq Filters
  BY DEF Filters
<1> QED
  BY <1>1, <1>2 DEF CrossInv

(* A call begins.                                                          *)
LEMMA CrossBegin ==
  ASSUME TypeOK, CrossInv, NEW f \in Filters, NEW i \in Indices, NEW to,
         at[f] = "idle", at' = [at EXCEPT ![f] = to], Begin(f, i),
         m_camera_index' = [m_camera_index EXCEPT ![f] = i]
  PROVE  CrossInv'
<1>1. /\ \A g \in Filters \ {f} : at'[g] = at[g] /\ m_camera_index'[g] = m_camera_index[g]
      /\ m_camera_index'[f] = i
  BY DEF TypeOK
<1>2. \A g, h \in Filters :
        g # h /\ at'[g] # "idle" /\ at'[h] # "idle" /\ m_camera_index'[g] = m_camera_index'[h]
          => m_camera_index'[g] \in overlapped'
  BY <1>1, BeginFacts DEF Begun, CrossInv
<1>3. \A g \in Inputs, x \in Closers :
        at'[g] # "idle" /\ at'[x] # "idle" /\ m_camera_index'[g] = m_camera_index'[x]
          => m_camera_index'[g] \in clashed'
  <2>1. ASSUME NEW g \in Inputs, NEW x \in Closers,
               at'[g] # "idle", at'[x] # "idle", m_camera_index'[g] = m_camera_index'[x]
        PROVE  m_camera_index'[g] \in clashed'
    <3>1. g # x /\ g \in Filters /\ x \in Filters
      BY RegistryAssumption DEF Filters
    <3>2. CASE f # g /\ f # x
      BY <1>1, <2>1, <3>1, <3>2, BeginFacts DEF Begun, CrossInv
    <3>3. CASE f = g
      BY <1>1, <2>1, <3>1, <3>3, BeginFacts DEF Begun
    <3>4. CASE f = x
      BY <1>1, <2>1, <3>1, <3>4, BeginFacts DEF Begun
    <3> QED
      BY <3>2, <3>3, <3>4
  <2> QED
    BY <2>1
<1> QED
  BY <1>2, <1>3 DEF CrossInv

(* A step that lets go of a camera that was never opened explains itself.  *)
LEMMA DropExplained ==
  ASSUME SoundInv, process = "alive", NEW newIndex, Dropped(newIndex),
         NEW f \in Filters,
         f \in Inputs => at[f] \notin InInit \/ m_camera'[f] = m_camera[f],
         \A g \in Inputs \ {f} : m_camera'[g] = m_camera[g],
         overlapped \subseteq overlapped', UNCHANGED faults
  PROVE  MisuseExplained'
<1>1. process' # "null pointer"
  BY DEF Dropped
<1>2. ASSUME process' = "wild pointer", "stat" \notin faults, overlapped = {}
      PROVE  FALSE
  <2>1. PICK x \in Existing \ Existing' : video_capture[x] = "unset"
    BY <1>2 DEF Dropped
  <2>2. PICK g \in Inputs : m_camera[g] = x /\ at[g] \in InInit
    BY <1>2, <2>1 DEF SoundInv
  <2>3. x \in Cameras /\ m_camera'[g] = x
    BY <2>1, <2>2 DEF Existing
  <2>4. x \in Existing'
    BY <2>3 DEF Existing
  <2> QED
    BY <2>1, <2>4
<1> QED
  BY <1>1, <1>2 DEF MisuseExplained

(* Where the shared_ptrs are.                                              *)
Holders(d, m, c) ==
  /\ d \in [Indices -> Cameras \cup {None}]
  /\ m \in [Inputs -> Cameras \cup {None}]
  /\ c \in [Filters -> Cameras \cup {None}]

LEMMA HoldersTyped ==
  /\ TypeOK => /\ Holders(devices, m_camera, cam)
               /\ m_camera_index \in [Filters -> Indices \cup {None}]
               /\ index \in [Cameras -> Indices \cup {None}]
               /\ \A k \in Cameras : index[k] # None <=> k \in Existing
  /\ TypeOK' => Holders(devices', m_camera', cam')
  BY DEF TypeOK, Holders

(* What a shared_ptr refers to exists.                                     *)
LEMMA Held ==
  ASSUME TypeOK
  PROVE  /\ \A j \in Indices : devices[j] # None => devices[j] \in Existing
         /\ \A g \in Filters : cam[g] # None => cam[g] \in Existing
         /\ \A g \in Inputs : m_camera[g] # None => m_camera[g] \in Existing
<1>1. Holders(devices, m_camera, cam)
  BY HoldersTyped
<1>2. ASSUME NEW j \in Indices, devices[j] # None PROVE devices[j] \in Existing
  BY ONLY <1>1, <1>2 DEF Holders, Existing
<1>3. ASSUME NEW g \in Filters, cam[g] # None PROVE cam[g] \in Existing
  BY ONLY <1>1, <1>3 DEF Holders, Existing
<1>4. ASSUME NEW g \in Inputs, m_camera[g] # None PROVE m_camera[g] \in Existing
  BY ONLY <1>1, <1>4 DEF Holders, Existing
<1> QED
  BY <1>2, <1>3, <1>4

(* ... after a step, too.                                                  *)
LEMMA HeldExists ==
  ASSUME TypeOK'
  PROVE  /\ \A j \in Indices : devices'[j] # None => devices'[j] \in Existing'
         /\ \A g \in Filters : cam'[g] # None => cam'[g] \in Existing'
         /\ \A g \in Inputs : m_camera'[g] # None => m_camera'[g] \in Existing'
<1>1. Holders(devices', m_camera', cam')
  BY HoldersTyped
<1>2. ASSUME NEW j \in Indices, devices'[j] # None PROVE devices'[j] \in Existing'
  BY ONLY <1>1, <1>2 DEF Holders, Existing
<1>3. ASSUME NEW g \in Filters, cam'[g] # None PROVE cam'[g] \in Existing'
  BY ONLY <1>1, <1>3 DEF Holders, Existing
<1>4. ASSUME NEW g \in Inputs, m_camera'[g] # None PROVE m_camera'[g] \in Existing'
  BY ONLY <1>1, <1>4 DEF Holders, Existing
<1> QED
  BY <1>2, <1>3, <1>4

-----------------------------------------------------------------------------
(* What a step of one filter leaves alone *)

(* What every step of filter f does to the rest: the other filters stay    *)
(* where they are, the registry changes only where add_device and          *)
(* remove_device do it, and a camera only where it is started, opened,     *)
(* closed, made, or lost.                                                  *)
Untouched(k) ==
  /\ video_capture'[k] = video_capture[k]
  /\ k \in m_running => k \in m_running'
  /\ k \in m_running' /\ k \notin m_running => "stat" \in faults \/ k \in BeingOpened'
Opened(f, k) ==
  /\ at[f] = "open" /\ k = m_camera[f] /\ f \in Inputs
  /\ video_capture'[k] = "live" /\ (k \in m_running' <=> k \in m_running)
  /\ \A x \in Cameras : index[x] = index[k] => video_capture[x] # "live"
Closed(f, k) ==
  /\ at[f] = "close" /\ at'[f] = "remove" /\ k = cam[f] /\ f \in Closers
  /\ video_capture'[k] # "live" /\ k \notin m_running'
  /\ video_capture[k] # "unset" => video_capture'[k] # "unset"
Made(f, k) ==
  /\ f \in Inputs /\ k = m_camera'[f] /\ at'[f] = "add"
  /\ video_capture'[k] = "unset" /\ k \notin m_running'

Framed(f) ==
  /\ UNCHANGED faults
  /\ overlapped \subseteq overlapped' /\ clashed \subseteq clashed'
  /\ \A g \in Filters \ {f} :
       at'[g] = at[g] /\ m_camera_index'[g] = m_camera_index[g] /\ cam'[g] = cam[g]
  /\ \A g \in Inputs \ {f} : m_camera'[g] = m_camera[g]
  /\ at[f] # "idle" \/ f \in Closers => m_camera_index'[f] = m_camera_index[f]
  /\ ready' \subseteq ready \cup {f}
  /\ \A i \in Indices :
       \/ devices'[i] = devices[i]
       \/ /\ i = m_camera_index[f] /\ devices'[i] = m_camera[f] /\ m_camera'[f] = m_camera[f]
          /\ f \in Inputs /\ at[f] = "assign" /\ at'[f] = "init"
       \/ /\ i = m_camera_index[f] /\ devices'[i] = None
          /\ f \in Closers /\ at[f] = "remove"
  /\ FreeInv'
  /\ \A k \in Existing \cap Existing' :
       index'[k] = index[k] /\ (Untouched(k) \/ Opened(f, k) \/ Closed(f, k))
  /\ \A k \in Existing' \ Existing : Made(f, k)

(* What the step owes of the invariant for f itself.                       *)
OwnHold(f) ==
  /\ f \in Inputs => at'[f] \in InInit \cup {"idle"}
  /\ f \in Settings => at'[f] \in {"use", "idle"}
  /\ f \in Closers => at'[f] \in {"close", "remove", "idle"}
  /\ f \in Inputs /\ (at'[f] # "idle" \/ f \in ready') =>
       m_camera'[f] # None /\ index'[m_camera'[f]] = m_camera_index'[f]
  /\ f \in ready' => at'[f] = "idle"
  /\ cam'[f] # None => index'[cam'[f]] = m_camera_index'[f]
OwnRegistered(f) ==
  /\ f \in Inputs /\ at'[f] \in Registered =>
       /\ devices'[m_camera_index'[f]] = m_camera'[f] \/ m_camera_index'[f] \in overlapped'
       /\ devices'[m_camera_index'[f]] # None \/ m_camera_index'[f] \in clashed'
  /\ f \in Closers /\ at'[f] # "idle" => \A k \in Cameras :
       video_capture'[k] = "live" /\ index'[k] = m_camera_index'[f] =>
         (at'[f] = "close" /\ k = cam'[f]) \/ ExcusedNext(index'[k])
OwnRunning(f) ==
  /\ f \in ready' => \/ video_capture'[m_camera'[f]] # "unset"
                     \/ "stat" \in faults
                     \/ m_camera'[f] \in BeingOpened'
  /\ \A k \in BeingOpened : k \in BeingOpened' \/ video_capture'[k] = "live"
OwnAlone(f) ==
  f \in Inputs /\ m_camera_index'[f] \notin overlapped' =>
    /\ at'[f] \in {"add", "assign"} => devices'[m_camera_index'[f]] = None
    /\ at'[f] \in {"start", "open"} =>
         \A k \in Cameras : ~(index'[k] = m_camera_index'[f] /\ video_capture'[k] = "live")
    /\ at'[f] = "open" => m_camera'[f] \in m_running'
OwnSound(f) ==
  "stat" \notin faults =>
    /\ at'[f] \in {"use", "close"} /\ m_camera_index'[f] \notin overlapped'
         => video_capture'[cam'[f]] = "live"
    /\ f \in Inputs /\ at[f] \in Registered
         => \/ m_camera'[f] = m_camera[f] /\ at'[f] \in Registered
            \/ video_capture'[m_camera[f]] = "live"
            \/ \E g \in Inputs \ {f} : m_camera[g] = m_camera[f] /\ at[g] \in Registered
    /\ f \in Closers /\ at[f] = "remove"
         => \A i \in Indices : i = m_camera_index[f] => devices'[i] = None
    /\ f \in Inputs /\ at[f] \in InInit /\ m_camera_index[f] \notin overlapped'
         => \/ m_camera'[f] = m_camera[f] /\ at'[f] \in InInit
            \/ video_capture'[m_camera[f]] # "unset"

(* A camera that has the device after a step had it before, or is the one  *)
(* that the step has opened.                                               *)
LEMMA LiveBefore ==
  ASSUME TypeOK, NEW f \in Filters, Framed(f), NEW k \in Cameras, video_capture'[k] = "live"
  PROVE  /\ k \in Existing /\ k \in Existing' /\ index'[k] = index[k]
         /\ \/ video_capture[k] = "live" /\ (k \in m_running => k \in m_running')
            \/ Opened(f, k)
<1>1. k \in Existing'
  BY DEF Framed, FreeInv
<1>2. k \in Existing
  BY <1>1 DEF Framed, Made
<1> QED
  BY <1>1, <1>2 DEF Framed, Untouched, Closed

(* A camera that is running after a step was so before, or is accounted    *)
(* for.                                                                    *)
LEMMA RunningBefore ==
  ASSUME TypeOK, NEW f \in Filters, Framed(f), NEW k \in Cameras, k \in m_running'
  PROVE  \/ k \in m_running /\ (video_capture[k] = "live" => video_capture'[k] = "live")
         \/ "stat" \in faults \/ k \in BeingOpened' \/ video_capture'[k] = "live"
<1>1. k \in Existing'
  BY DEF Framed, FreeInv
<1>2. k \in Existing
  BY <1>1 DEF Framed, Made
<1> QED
  BY <1>1, <1>2 DEF Framed, Untouched, Closed, Opened

(* Every step keeps what filters hold.                                     *)
LEMMA HoldStep ==
  ASSUME TypeOK, TypeOK', HoldInv, NEW f \in Filters, Framed(f), OwnHold(f)
  PROVE  HoldInv'
<1> USE RegistryAssumption
<1>0. /\ \A g \in Filters \ {f} :
           at'[g] = at[g] /\ m_camera_index'[g] = m_camera_index[g] /\ cam'[g] = cam[g]
      /\ \A g \in Inputs \ {f} : m_camera'[g] = m_camera[g]
      /\ ready' \subseteq ready \cup {f}
      /\ \A k \in Existing \cap Existing' : index'[k] = index[k]
  BY DEF Framed
<1>a. \A k \in Existing' : k \in Cameras
  BY DEF Existing
<1>b. /\ \A j \in Indices : devices[j] # None => devices[j] \in Existing
      /\ \A g \in Filters : cam[g] # None => cam[g] \in Existing
      /\ \A g \in Inputs : m_camera[g] # None => m_camera[g] \in Existing
  BY Held
<1>c. /\ \A j \in Indices : devices'[j] # None => devices'[j] \in Existing'
      /\ \A g \in Filters : cam'[g] # None => cam'[g] \in Existing'
      /\ \A g \in Inputs : m_camera'[g] # None => m_camera'[g] \in Existing'
  BY HeldExists
<1>1. \A g \in Filters :
        /\ g \in Inputs => at'[g] \in InInit \cup {"idle"}
        /\ g \in Settings => at'[g] \in {"use", "idle"}
        /\ g \in Closers => at'[g] \in {"close", "remove", "idle"}
  BY <1>0 DEF HoldInv, OwnHold
<1>2. ASSUME NEW g \in Inputs, at'[g] # "idle" \/ g \in ready'
      PROVE  m_camera'[g] # None /\ index'[m_camera'[g]] = m_camera_index'[g]
  <2>1. CASE g = f
    BY <1>2, <2>1 DEF OwnHold
  <2>2. CASE g # f
    <3>1. m_camera[g] # None /\ index[m_camera[g]] = m_camera_index[g]
      BY <1>0, <1>2, <2>2 DEF HoldInv, Filters
    <3> QED
      BY <1>0, <1>b, <1>c, <2>2, <3>1 DEF Filters
  <2> QED
    BY <2>1, <2>2
<1>3. ASSUME NEW g \in ready'
      PROVE  at'[g] = "idle"
  <2>1. CASE g = f
    BY <1>3, <2>1 DEF OwnHold
  <2>2. CASE g # f
    BY <1>0, <1>3, <2>2 DEF HoldInv, TypeOK, Filters
  <2> QED
    BY <2>1, <2>2
<1>4. ASSUME NEW g \in Filters, cam'[g] # None
      PROVE  index'[cam'[g]] = m_camera_index'[g]
  BY <1>0, <1>b, <1>c, <1>4 DEF HoldInv, OwnHold
<1>5. ASSUME NEW i \in Indices, devices'[i] # None
      PROVE  index'[devices'[i]] = i
  <2>1. CASE devices'[i] = devices[i]
    BY <1>0, <1>b, <1>c, <1>5, <2>1 DEF HoldInv
  <2>2. CASE devices'[i] # devices[i]
    <3>1. /\ i = m_camera_index[f] /\ devices'[i] = m_camera[f]
          /\ f \in Inputs /\ at[f] = "assign"
      BY <1>5, <2>2 DEF Framed
    <3>2. index[m_camera[f]] = i /\ m_camera[f] # None
      BY <3>1 DEF HoldInv
    <3> QED
      BY <1>0, <1>b, <1>c, <1>5, <3>1, <3>2
  <2> QED
    BY <2>1, <2>2
<1>6. \A g \in Closers : m_camera_index'[g] \in Indices
  BY DEF HoldInv, Framed, Filters
<1> QED
  BY <1>1, <1>2, <1>3, <1>4, <1>5, <1>6 DEF HoldInv

(* Every step keeps what the registry knows.                               *)
LEMMA RegisteredStep ==
  ASSUME TypeOK, TypeOK', HoldInv, CrossInv, RegisteredInv, AloneInv,
         NEW f \in Filters, Framed(f), OwnRegistered(f)
  PROVE  RegisteredInv'
<1> USE RegistryAssumption
<1>0. /\ \A g \in Filters \ {f} :
           at'[g] = at[g] /\ m_camera_index'[g] = m_camera_index[g] /\ cam'[g] = cam[g]
      /\ \A g \in Inputs \ {f} : m_camera'[g] = m_camera[g]
      /\ overlapped \subseteq overlapped' /\ clashed \subseteq clashed' /\ clashed \subseteq overlapped
      /\ \A i : Excused(i) => ExcusedNext(i) /\ i \in overlapped
  BY DEF Framed, Excused, ExcusedNext, TypeOK
<1>1. ASSUME NEW k \in Cameras, video_capture'[k] = "live"
      PROVE  /\ devices'[index'[k]] = k \/ index'[k] \in overlapped'
             /\ devices'[index'[k]] # None \/ ExcusedNext(index'[k])
  <2> DEFINE i == index[k]
  <2>1. k \in Existing /\ index'[k] = i /\ i \in Indices
    BY <1>1, LiveBefore DEF TypeOK
  <2>2. (devices[i] = k \/ i \in overlapped) /\ (devices[i] # None \/ Excused(i))
    <3>1. CASE video_capture[k] = "live"
      BY <3>1 DEF RegisteredInv
    <3>2. CASE Opened(f, k)
      BY <3>2 DEF Opened, RegisteredInv, HoldInv, Registered, Excused
    <3> QED
      BY <1>1, <3>1, <3>2, LiveBefore
  <2>3. CASE devices'[i] = devices[i]
    BY <1>0, <2>1, <2>2, <2>3
  <2>4. CASE i = m_camera_index[f] /\ devices'[i] = m_camera[f] /\ f \in Inputs /\ at[f] = "assign"
    <3>1. m_camera[f] # None
      BY <2>4 DEF HoldInv
    <3>2. i \in overlapped
      BY <2>2, <2>4 DEF AloneInv
    <3> QED
      BY <1>0, <2>1, <2>4, <3>1, <3>2
  <2>5. CASE i = m_camera_index[f] /\ f \in Closers /\ at[f] = "remove"
    <3>1. video_capture[k] = "live"
      BY <1>1, <2>5, LiveBefore DEF Opened
    <3>2. Excused(i)
      BY <2>5, <3>1 DEF RegisteredInv
    <3> QED
      BY <1>0, <2>1, <3>2
  <2> QED
    BY <2>1, <2>3, <2>4, <2>5 DEF Framed
<1>2. ASSUME NEW j \in Cameras, NEW k \in Cameras, video_capture'[j] = "live",
             video_capture'[k] = "live", index'[j] = index'[k]
      PROVE  j = k
  <2>1. /\ index[j] = index[k]
        /\ video_capture[j] = "live" \/ Opened(f, j)
        /\ video_capture[k] = "live" \/ Opened(f, k)
    BY <1>2, LiveBefore
  <2>2. CASE video_capture[j] = "live" /\ video_capture[k] = "live"
    BY <2>1, <2>2 DEF RegisteredInv
  <2> QED
    BY <2>1, <2>2 DEF Opened
<1>3. ASSUME NEW g \in Inputs, at'[g] \in Registered
      PROVE  /\ devices'[m_camera_index'[g]] = m_camera'[g] \/ m_camera_index'[g] \in overlapped'
             /\ devices'[m_camera_index'[g]] # None \/ m_camera_index'[g] \in clashed'
  <2>1. CASE g = f
    BY <1>3, <2>1 DEF OwnRegistered
  <2>2. CASE g # f
    <3> DEFINE i == m_camera_index[g]
    <3>1. /\ at[g] \in Registered /\ m_camera'[g] = m_camera[g] /\ m_camera_index'[g] = i
          /\ m_camera[g] # None /\ i \in Indices
      <4>1. at[g] \in Registered /\ m_camera'[g] = m_camera[g] /\ m_camera_index'[g] = i
        BY <1>0, <1>3, <2>2 DEF Filters
      <4>2. m_camera[g] # None /\ index[m_camera[g]] = i
        BY <4>1 DEF HoldInv, Registered
      <4>3. m_camera[g] \in Cameras
        BY <4>2, HoldersTyped DEF Holders
      <4>4. i \in Indices
        BY <4>2, <4>3, Held, HoldersTyped
      <4> QED
        BY <4>1, <4>2, <4>4
    <3>2. /\ devices[i] = m_camera[g] \/ i \in overlapped
          /\ devices[i] # None \/ i \in clashed
      BY <3>1 DEF RegisteredInv
    <3>3. CASE devices'[i] = devices[i]
      BY <1>0, <3>1, <3>2, <3>3
    <3>4. CASE i = m_camera_index[f] /\ devices'[i] = m_camera[f] /\ f \in Inputs /\ at[f] = "assign"
      <4>1. m_camera[f] # None
        BY <3>4 DEF HoldInv
      <4>2. i \in overlapped
        BY <2>2, <3>1, <3>4 DEF CrossInv, Registered, Filters
      <4> QED
        BY <1>0, <3>1, <3>4, <4>1, <4>2
    <3>5. CASE i = m_camera_index[f] /\ f \in Closers /\ at[f] = "remove"
      BY <1>0, <3>1, <3>5 DEF CrossInv, Registered
    <3> QED
      BY <3>1, <3>3, <3>4, <3>5 DEF Framed
  <2> QED
    BY <2>1, <2>2
<1>4. ASSUME NEW x \in Closers, NEW k \in Cameras,
             at'[x] # "idle", video_capture'[k] = "live", index'[k] = m_camera_index'[x]
      PROVE  (at'[x] = "close" /\ k = cam'[x]) \/ ExcusedNext(index'[k])
  <2>1. CASE x = f
    BY <1>4, <2>1 DEF OwnRegistered
  <2>2. CASE x # f
    <3>1. /\ at[x] # "idle" /\ at'[x] = at[x] /\ cam'[x] = cam[x]
          /\ index'[k] = index[k] /\ index[k] = m_camera_index[x]
      BY <1>0, <1>4, <2>2, LiveBefore DEF Filters
    <3>2. CASE video_capture[k] = "live"
      BY <1>0, <3>1, <3>2 DEF RegisteredInv
    <3>3. CASE Opened(f, k)
      <4>1. index[k] \in clashed
        BY <3>1, <3>3 DEF Opened, CrossInv, HoldInv
      <4> QED
        BY <1>0, <3>1, <4>1 DEF ExcusedNext
    <3> QED
      BY <1>4, <3>2, <3>3, LiveBefore
  <2> QED
    BY <2>1, <2>2
<1>5. \A k \in Cameras : ExcusedNext(index'[k]) <=> Excused(index[k])'
  BY DEF Excused, ExcusedNext
<1> QED
  BY <1>1, <1>2, <1>3, <1>4, <1>5 DEF RegisteredInv

(* Every step keeps m_running truthful.                                    *)
LEMMA RunningStep ==
  ASSUME TypeOK, TypeOK', HoldInv, HoldInv', RunningInv,
         NEW f \in Filters, Framed(f), OwnRunning(f)
  PROVE  RunningInv'
<1>1. ASSUME NEW k \in m_running'
      PROVE  video_capture'[k] = "live" \/ "stat" \in faults' \/ k \in BeingOpened'
  <2>1. k \in Cameras /\ faults' = faults
    BY <1>1 DEF TypeOK, Framed
  <2>2. CASE k \in m_running /\ (video_capture[k] = "live" => video_capture'[k] = "live")
    <3>1. video_capture[k] = "live" \/ "stat" \in faults \/ k \in BeingOpened
      BY <2>2 DEF RunningInv
    <3> QED
      BY <2>1, <2>2, <3>1 DEF OwnRunning
  <2> QED
    BY <1>1, <2>1, <2>2, RunningBefore
<1>2. ASSUME NEW g \in ready'
      PROVE  \/ video_capture'[m_camera'[g]] # "unset"
             \/ "stat" \in faults' \/ m_camera'[g] \in BeingOpened'
  <2>1. CASE g = f
    BY <1>2, <2>1 DEF OwnRunning, Framed
  <2>2. CASE g # f
    <3>1. /\ g \in ready /\ g \in Inputs /\ m_camera'[g] = m_camera[g] /\ m_camera[g] # None
          /\ faults' = faults
      <4>1. g \in ready /\ g \in Inputs /\ faults' = faults
        BY <1>2, <2>2 DEF Framed, TypeOK
      <4> QED
        BY <2>2, <4>1 DEF Framed, HoldInv
    <3>2. m_camera[g] \in Existing /\ m_camera[g] \in Existing'
      BY <3>1, Held, HeldExists
    <3>3. video_capture[m_camera[g]] # "unset" => video_capture'[m_camera[g]] # "unset"
      BY <3>2 DEF Framed, Untouched, Opened, Closed
    <3>4. \/ video_capture[m_camera[g]] # "unset"
          \/ "stat" \in faults \/ m_camera[g] \in BeingOpened
      BY <3>1 DEF RunningInv
    <3> QED
      BY <3>1, <3>3, <3>4 DEF OwnRunning
  <2> QED
    BY <2>1, <2>2
<1> QED
  BY <1>1, <1>2 DEF RunningInv

(* Every step keeps what holds of indices without overlapping calls.       *)
LEMMA AloneStep ==
  ASSUME TypeOK, TypeOK', HoldInv, CrossInv, AloneInv,
         NEW f \in Filters, Framed(f), OwnAlone(f)
  PROVE  AloneInv'
<1> USE RegistryAssumption
<1>1. ASSUME NEW g \in Inputs, m_camera_index'[g] \notin overlapped'
      PROVE  /\ at'[g] \in {"add", "assign"} => devices'[m_camera_index'[g]] = None
             /\ at'[g] \in {"start", "open"} => \A k \in Cameras :
                  ~(index'[k] = m_camera_index'[g] /\ video_capture'[k] = "live")
             /\ at'[g] = "open" => m_camera'[g] \in m_running'
  <2>1. CASE g = f
    BY <1>1, <2>1 DEF OwnAlone
  <2>2. CASE g # f
    <3> DEFINE i == m_camera_index[g]
    <3>1. /\ at'[g] = at[g] /\ m_camera_index'[g] = i /\ m_camera'[g] = m_camera[g]
          /\ i \notin overlapped
      BY <1>1, <2>2 DEF Framed, Filters
    <3>2. at[g] # "idle" /\ at[f] # "idle" => m_camera_index[f] # i
      BY <2>2, <3>1 DEF CrossInv, Filters
    <3>3. ASSUME at[g] # "idle"
          PROVE  i \in Indices /\ m_camera[g] # None /\ index[m_camera[g]] = i
      <4>1. m_camera[g] # None /\ index[m_camera[g]] = i
        BY <3>3 DEF HoldInv
      <4>2. m_camera[g] \in Cameras
        BY <4>1, HoldersTyped DEF Holders
      <4>3. i \in Indices
        BY <4>1, <4>2, Held, HoldersTyped
      <4> QED
        BY <4>1, <4>3
    <3>4. at[g] \in {"add", "assign"} => devices'[i] = None
      BY <3>1, <3>2, <3>3 DEF AloneInv, Framed
    <3>5. ASSUME at[g] \in {"start", "open"}, NEW k \in Cameras,
                 index'[k] = i, video_capture'[k] = "live"
          PROVE  FALSE
      <4>1. index[k] = i /\ video_capture[k] # "live"
        BY <3>1, <3>5, LiveBefore DEF AloneInv
      <4>2. Opened(f, k)
        BY <3>5, <4>1, LiveBefore
      <4> QED
        BY <3>2, <3>5, <4>1, <4>2 DEF Opened, HoldInv
    <3>6. ASSUME at[g] = "open"
          PROVE  m_camera[g] \in m_running'
      <4>1. m_camera[g] \in m_running /\ m_camera[g] \in Existing /\ m_camera[g] \in Existing'
        BY <3>1, <3>3, <3>6, Held, HeldExists DEF AloneInv
      <4>2. CASE Closed(f, m_camera[g])
        BY <3>2, <3>3, <3>6, <4>2 DEF Closed, HoldInv
      <4> QED
        BY <4>1, <4>2 DEF Framed, Untouched, Opened
    <3> QED
      BY <3>1, <3>4, <3>5, <3>6
  <2> QED
    BY <2>1, <2>2
<1>2. ASSUME NEW k \in Cameras, video_capture'[k] = "live", index'[k] \notin overlapped'
      PROVE  k \in m_running'
  <2>1. /\ index[k] \notin overlapped
        /\ \/ video_capture[k] = "live" /\ (k \in m_running => k \in m_running')
           \/ Opened(f, k)
    BY <1>2, LiveBefore DEF Framed
  <2>2. CASE Opened(f, k)
    BY <2>1, <2>2 DEF Opened, AloneInv, HoldInv
  <2> QED
    BY <2>1, <2>2 DEF AloneInv
<1> QED
  BY <1>1, <1>2 DEF AloneInv

(* Every step keeps registered cameras sound.                              *)
LEMMA SoundStep ==
  ASSUME TypeOK, TypeOK', HoldInv, CrossInv, SoundInv, process = "alive",
         NEW f \in Filters, Framed(f), OwnSound(f)
  PROVE  SoundInv'
<1> USE RegistryAssumption
<1> SUFFICES ASSUME "stat" \notin faults'
             PROVE  SoundInv'
  BY DEF SoundInv
<1>0. /\ "stat" \notin faults /\ overlapped \subseteq overlapped'
      /\ \A g \in Filters \ {f} :
           at'[g] = at[g] /\ m_camera_index'[g] = m_camera_index[g] /\ cam'[g] = cam[g]
      /\ \A g \in Inputs \ {f} : m_camera'[g] = m_camera[g]
  BY DEF Framed
<1>1. ASSUME NEW g \in Filters, at'[g] \in {"use", "close"}, m_camera_index'[g] \notin overlapped'
      PROVE  video_capture'[cam'[g]] = "live"
  <2>1. CASE g = f
    BY <1>0, <1>1, <2>1 DEF OwnSound
  <2>2. CASE g # f
    <3>1. /\ at[g] \in {"use", "close"} /\ m_camera_index[g] \notin overlapped
          /\ cam[g] # None /\ cam'[g] = cam[g]
      BY <1>0, <1>1, <2>2 DEF TypeOK
    <3>2. video_capture[cam[g]] = "live"
      BY <1>0, <3>1 DEF SoundInv
    <3>3. cam[g] \in Existing /\ cam[g] \in Existing'
      BY <3>1, Held, HeldExists
    <3>4. ~Closed(f, cam[g])
      BY <2>2, <3>1 DEF Closed, CrossInv, HoldInv
    <3> QED
      BY <3>1, <3>2, <3>3, <3>4 DEF Framed, Untouched, Opened
  <2> QED
    BY <2>1, <2>2
<1>2. ASSUME NEW i \in Indices, devices'[i] # None
      PROVE  \/ video_capture'[devices'[i]] = "live"
             \/ \E g \in Inputs : m_camera'[g] = devices'[i] /\ at'[g] \in Registered
             \/ \E x \in Closers : m_camera_index'[x] = i /\ at'[x] = "remove"
  <2>1. CASE devices'[i] # devices[i]
    BY <1>2, <2>1 DEF Framed, Registered
  <2>2. CASE devices'[i] = devices[i]
    <3>1. \/ video_capture[devices[i]] = "live"
          \/ \E g \in Inputs : m_camera[g] = devices[i] /\ at[g] \in Registered
          \/ \E x \in Closers : m_camera_index[x] = i /\ at[x] = "remove"
      BY <1>0, <1>2, <2>2 DEF SoundInv
    <3>2. CASE video_capture[devices[i]] = "live"
      <4>1. devices[i] \in Existing /\ devices[i] \in Existing' /\ index[devices[i]] = i
        BY <1>2, <2>2, Held, HeldExists DEF HoldInv
      <4>2. CASE Closed(f, devices[i])
        <5>1. /\ m_camera_index[f] = i /\ m_camera_index'[f] = m_camera_index[f]
              /\ at'[f] = "remove" /\ f \in Closers
          BY <1>2, <2>2, <4>1, <4>2 DEF Closed, HoldInv, Framed
        <5> QED
          BY <5>1
      <4>3. CASE ~Closed(f, devices[i])
        BY <2>2, <3>2, <4>1, <4>3 DEF Framed, Untouched, Opened
      <4> QED
        BY <4>2, <4>3
    <3>3. ASSUME NEW g \in Inputs, m_camera[g] = devices[i], at[g] \in Registered
          PROVE  \/ video_capture'[devices'[i]] = "live"
                 \/ \E h \in Inputs : m_camera'[h] = devices'[i] /\ at'[h] \in Registered
      <4>1. \A h \in Inputs \ {f} : m_camera'[h] = m_camera[h] /\ at'[h] = at[h]
        BY <1>0 DEF Filters
      <4>2. CASE g = f
        BY <1>0, <2>2, <3>3, <4>1, <4>2 DEF OwnSound
      <4>3. CASE g # f
        BY <2>2, <3>3, <4>1, <4>3
      <4> QED
        BY <4>2, <4>3
    <3>4. ASSUME NEW x \in Closers, m_camera_index[x] = i, at[x] = "remove"
          PROVE  m_camera_index'[x] = i /\ at'[x] = "remove"
      <4>1. x # f
        BY <1>0, <1>2, <3>4 DEF OwnSound
      <4> QED
        BY <1>0, <3>4, <4>1 DEF Filters
    <3> QED
      BY <3>1, <3>2, <3>3, <3>4
  <2> QED
    BY <2>1, <2>2
<1>3. ASSUME NEW k \in Existing', video_capture'[k] = "unset", index'[k] \notin overlapped'
      PROVE  \E g \in Inputs : m_camera'[g] = k /\ at'[g] \in InInit
  <2>1. CASE k \notin Existing
    BY <1>3, <2>1 DEF Framed, Made, InInit
  <2>2. CASE k \in Existing
    <3>1. /\ video_capture[k] = "unset" /\ index[k] \notin overlapped /\ index'[k] = index[k]
      <4>1. k \in Existing \cap Existing'
        BY <1>3, <2>2
      <4>2. /\ index'[k] = index[k]
            /\ Untouched(k) \/ Opened(f, k) \/ Closed(f, k)
        BY <4>1 DEF Framed
      <4> QED
        BY <1>0, <1>3, <4>2 DEF Untouched, Opened, Closed
    <3>2. PICK g \in Inputs : m_camera[g] = k /\ at[g] \in InInit
      BY <1>0, <2>2, <3>1 DEF SoundInv
    <3>3. CASE g = f
      <4>1. m_camera_index[f] = index[k]
        BY <2>2, <3>2, <3>3 DEF HoldInv, InInit, Existing
      <4> QED
        BY <1>0, <1>3, <3>1, <3>2, <3>3, <4>1 DEF OwnSound
    <3>4. CASE g # f
      BY <1>0, <3>2, <3>4 DEF Filters
    <3> QED
      BY <3>3, <3>4
  <2> QED
    BY <2>1, <2>2
<1> QED
  BY <1>1, <1>2, <1>3 DEF SoundInv

Own(f) == OwnHold(f) /\ OwnRegistered(f) /\ OwnRunning(f) /\ OwnAlone(f) /\ OwnSound(f)

(* A step that does what it owes keeps the invariant.                      *)
LEMMA StepKeeps ==
  ASSUME IInv, process = "alive", TypeOK', MisuseExplained',
         NEW f \in Filters, Framed(f), process' = "alive" => CrossInv' /\ Own(f)
  PROVE  IInv'
<1>1. TypeOK /\ HoldInv /\ CrossInv /\ RegisteredInv /\ RunningInv /\ AloneInv /\ SoundInv
  BY DEF IInv, AliveInv
<1>2. FreeInv'
  BY DEF Framed
<1>3. ASSUME process' = "alive" PROVE AliveInv'
  <2>1. CrossInv' /\ OwnHold(f) /\ OwnRegistered(f) /\ OwnRunning(f) /\ OwnAlone(f) /\ OwnSound(f)
    BY <1>3 DEF Own
  <2>2. HoldInv'
    BY <1>1, <2>1, HoldStep
  <2>3. RegisteredInv'
    BY <1>1, <2>1, RegisteredStep
  <2>4. RunningInv'
    BY <1>1, <2>1, <2>2, RunningStep
  <2>5. AloneInv'
    BY <1>1, <2>1, AloneStep
  <2>6. SoundInv'
    BY <1>1, <2>1, SoundStep
  <2> QED
    BY <2>1, <2>2, <2>3, <2>4, <2>5, <2>6 DEF AliveInv
<1> QED
  BY <1>2, <1>3 DEF IInv

(* A step that moves no pointer loses no camera.                           *)
LEMMA SameExisting ==
  ASSUME UNCHANGED pointers
  PROVE  Existing' = Existing
BY DEF Existing, pointers

(* While f does not leave "open", the cameras being opened stay.           *)
LEMMA SameOpened ==
  ASSUME TypeOK, NEW f \in Filters, NEW to, at[f] # "open", at' = [at EXCEPT ![f] = to],
         \A g \in Inputs \ {f} : m_camera'[g] = m_camera[g]
  PROVE  \A k \in BeingOpened : k \in BeingOpened'
<1> SUFFICES ASSUME NEW k \in BeingOpened
             PROVE  k \in BeingOpened'
  OBVIOUS
<1>1. PICK g \in Inputs : at[g] = "open" /\ m_camera[g] = k
  BY DEF BeingOpened
<1>2. at'[g] = "open" /\ m_camera'[g] = k
  BY <1>1 DEF TypeOK, Filters
<1> QED
  BY <1>2 DEF BeingOpened

-----------------------------------------------------------------------------
(* Steps that let a pointer go *)

(* Such a step leaves the cameras alone that remain.                       *)
LEMMA DropUntouched ==
  ASSUME Dropped(index)
  PROVE  \A k \in Existing \cap Existing' : index'[k] = index[k] /\ Untouched(k)
BY DEF Dropped, Untouched

(* ... for a step that refers to no camera more than before.               *)
LEMMA DropFacts ==
  ASSUME TypeOK, FreeInv, process = "alive", LetGo(index), Existing' \subseteq Existing
  PROVE  Dropped(index)
<1>1. /\ index \in [Cameras -> Indices \cup {None}]
      /\ \A x \in Existing' : index[x] # None
      /\ \A x \in Cameras : x \notin Existing /\ x \notin Existing' => index[x] = None
  BY DEF TypeOK, Existing
<1> QED
  BY <1>1, LetGoFacts

(* FindDevice keeps the invariant. *)
LEMMA FindStep ==
  ASSUME IInv, process = "alive", UNCHANGED faults,
         NEW f \in Inputs, NEW i \in Indices, FindDevice(f, i)
  PROVE  IInv'
<1> DEFINE k == devices[i]
<1> USE RegistryAssumption
<1>1. TypeOK /\ FreeInv /\ AliveInv /\ HoldInv /\ CrossInv /\ SoundInv /\ f \in Filters /\ f \notin Closers
  BY DEF IInv, AliveInv, Filters
<1>2. /\ at[f] = "idle" /\ at' = [at EXCEPT ![f] = "init"]
      /\ m_camera_index' = [m_camera_index EXCEPT ![f] = i]
      /\ m_camera' = [m_camera EXCEPT ![f] = k]
      /\ ready' = ready \ {f} /\ devices' = devices /\ cam' = cam
      /\ Begin(f, i) /\ LetGo(index) /\ k # None
  BY DEF FindDevice, Goto
<1>3. k \in Existing /\ k \in Existing' /\ index[k] = i
  BY <1>1, <1>2 DEF TypeOK, Existing, HoldInv
<1>4. Existing' \subseteq Existing
  BY <1>1, <1>2, <1>3 DEF TypeOK, Existing
<1>5. Dropped(index)
  BY <1>1, <1>2, <1>4, DropFacts
<1>6. Begun(f, i)
  BY <1>1, <1>2, BeginFacts
<1>7. /\ at'[f] = "init" /\ m_camera_index'[f] = i /\ m_camera'[f] = k /\ cam'[f] = None
      /\ \A g \in Filters \ {f} : at'[g] = at[g] /\ m_camera_index'[g] = m_camera_index[g]
      /\ \A g \in Inputs \ {f} : m_camera'[g] = m_camera[g]
  BY <1>1, <1>2 DEF TypeOK
<1>8. TypeOK'
  <2>1. /\ devices' \in [Indices -> Cameras \cup {None}] /\ cam' \in [Filters -> Cameras \cup {None}]
        /\ m_camera_index' \in [Filters -> Indices \cup {None}]
        /\ ready' \subseteq Inputs /\ faults' \in FaultModes
    BY <1>1, <1>2 DEF TypeOK
  <2>2. m_camera' \in [Inputs -> Cameras \cup {None}]
    BY <1>1, <1>2 DEF TypeOK
  <2>3. at' \in [Filters -> {"idle", "add", "assign", "init", "start", "open", "use", "close", "remove"}]
    BY <1>1, <1>2 DEF TypeOK
  <2>4. process' = "alive" =>
          \A g \in Filters : cam'[g] # None <=> at'[g] \in {"use", "close", "remove"}
    BY <1>1, <1>2 DEF TypeOK
  <2> QED
    BY <1>5, <1>6, <2>1, <2>2, <2>3, <2>4 DEF TypeOK, Dropped, Begun
<1>9. MisuseExplained'
  BY <1>1, <1>2, <1>5, <1>6, <1>7, DropExplained DEF Begun, InInit
<1>10. CrossInv'
  BY <1>1, <1>2, CrossBegin
<1>11. Framed(f)
  BY <1>1, <1>2, <1>4, <1>5, <1>6, <1>7, DropUntouched DEF Framed, Begun, Dropped
<1>12. Own(f)
  <2>1. OwnHold(f)
    <3>1. index'[k] = i /\ f \notin Settings /\ f \notin ready'
      BY <1>1, <1>2, <1>3, <1>5 DEF Dropped
    <3> QED
      BY <1>1, <1>2, <1>7, <3>1 DEF OwnHold, InInit
  <2>2. OwnRegistered(f) /\ OwnAlone(f) /\ OwnSound(f)
    BY <1>1, <1>2, <1>7 DEF OwnRegistered, OwnAlone, OwnSound, InInit, Registered
  <2>3. OwnRunning(f)
    BY <1>1, <1>2, <1>7, SameOpened DEF OwnRunning
  <2> QED
    BY <2>1, <2>2, <2>3 DEF Own
<1> QED
  BY <1>1, <1>8, <1>9, <1>10, <1>11, <1>12, StepKeeps

(* Drop keeps the invariant.                                               *)
LEMMA DropStep ==
  ASSUME IInv, process = "alive", UNCHANGED faults, NEW f \in Inputs, Drop(f)
  PROVE  IInv'
<1> USE RegistryAssumption
<1>1. TypeOK /\ FreeInv /\ AliveInv /\ HoldInv /\ CrossInv /\ SoundInv /\ f \in Filters /\ f \notin Closers
  BY DEF IInv, AliveInv, Filters
<1>2. /\ at[f] = "idle" /\ at' = [at EXCEPT ![f] = "idle"]
      /\ UNCHANGED <<m_camera_index, historyVars>>
      /\ m_camera' = [m_camera EXCEPT ![f] = None]
      /\ ready' = ready \ {f} /\ devices' = devices /\ cam' = cam
      /\ LetGo(index)
  BY DEF Drop, Goto
<1>3. Existing' \subseteq Existing
  BY <1>1, <1>2 DEF TypeOK, Existing
<1>4. Dropped(index)
  BY <1>1, <1>2, <1>3, DropFacts
<1>5. /\ at' = at /\ cam'[f] = None
      /\ \A g \in Inputs \ {f} : m_camera'[g] = m_camera[g]
  BY <1>1, <1>2 DEF TypeOK
<1>6. TypeOK'
  <2>1. /\ devices' \in [Indices -> Cameras \cup {None}] /\ cam' \in [Filters -> Cameras \cup {None}]
        /\ m_camera_index' \in [Filters -> Indices \cup {None}]
        /\ ready' \subseteq Inputs /\ faults' \in FaultModes
        /\ overlapped' \subseteq Indices /\ clashed' \subseteq overlapped'
    BY <1>1, <1>2 DEF TypeOK, historyVars
  <2>2. m_camera' \in [Inputs -> Cameras \cup {None}]
    BY <1>1, <1>2 DEF TypeOK
  <2>3. /\ at' \in [Filters -> {"idle", "add", "assign", "init", "start", "open", "use", "close", "remove"}]
        /\ process' = "alive" =>
             \A g \in Filters : cam'[g] # None <=> at'[g] \in {"use", "close", "remove"}
    BY <1>1, <1>2, <1>5 DEF TypeOK
  <2> QED
    BY <1>4, <2>1, <2>2, <2>3 DEF TypeOK, Dropped
<1>7. MisuseExplained'
  BY <1>1, <1>2, <1>4, <1>5, DropExplained DEF InInit, historyVars
<1>8. CrossInv'
  BY <1>1, <1>2, CrossStep
<1>9. Framed(f)
  BY <1>1, <1>2, <1>3, <1>4, <1>5, DropUntouched DEF Framed, Dropped, historyVars
<1>10. Own(f)
  <2>1. OwnHold(f)
    BY <1>1, <1>2, <1>5 DEF OwnHold, InInit, Filters
  <2>2. OwnRegistered(f) /\ OwnAlone(f) /\ OwnSound(f)
    BY <1>1, <1>2, <1>5 DEF OwnRegistered, OwnAlone, OwnSound, InInit, Registered
  <2>3. OwnRunning(f)
    BY <1>1, <1>2, <1>5, SameOpened DEF OwnRunning
  <2> QED
    BY <2>1, <2>2, <2>3 DEF Own
<1> QED
  BY <1>1, <1>6, <1>7, <1>8, <1>9, <1>10, StepKeeps

(* Use keeps the invariant.                                                *)
LEMMA UseStep ==
  ASSUME IInv, process = "alive", UNCHANGED faults, NEW f \in Settings, Use(f)
  PROVE  IInv'
<1> USE RegistryAssumption
<1>1. /\ TypeOK /\ FreeInv /\ AliveInv /\ HoldInv /\ CrossInv /\ SoundInv
      /\ f \in Filters /\ f \notin Closers /\ f \notin Inputs
  BY DEF IInv, AliveInv, Filters
<1>2. /\ at[f] = "use" /\ at' = [at EXCEPT ![f] = "idle"]
      /\ UNCHANGED <<m_camera_index, historyVars, devices, m_camera, ready>>
  BY DEF Use, Goto
<1>3. at'[f] = "idle" /\ \A g \in Filters \ {f} : at'[g] = at[g]
  BY <1>1, <1>2 DEF TypeOK
<1>4. CrossInv'
  BY <1>1, <1>2, CrossStep
<1>5. f \notin ready' /\ \A k \in BeingOpened : k \in BeingOpened'
  BY <1>1, <1>2, SameOpened DEF TypeOK
<1>6. /\ devices' \in [Indices -> Cameras \cup {None}] /\ m_camera' \in [Inputs -> Cameras \cup {None}]
      /\ m_camera_index' \in [Filters -> Indices \cup {None}]
      /\ ready' \subseteq Inputs /\ faults' \in FaultModes
      /\ overlapped' \subseteq Indices /\ clashed' \subseteq overlapped'
      /\ at' \in [Filters -> {"idle", "add", "assign", "init", "start", "open", "use", "close", "remove"}]
  BY <1>1, <1>2 DEF TypeOK, historyVars
<1>7. CASE cam' = [cam EXCEPT ![f] = None] /\ LetGo(index)
  <2>1. Existing' \subseteq Existing
    BY <1>1, <1>2, <1>7 DEF TypeOK, Existing
  <2>2. Dropped(index)
    BY <1>1, <1>7, <2>1, DropFacts
  <2>3. cam'[f] = None /\ \A g \in Filters \ {f} : cam'[g] = cam[g]
    BY <1>1, <1>7 DEF TypeOK
  <2>4. TypeOK'
    <3>1. cam' \in [Filters -> Cameras \cup {None}]
      BY <1>1, <1>7 DEF TypeOK
    <3>2. \A g \in Filters : cam'[g] # None <=> at'[g] \in {"use", "close", "remove"}
      BY <1>1, <1>3, <2>3 DEF TypeOK
    <3> QED
      BY <1>6, <2>2, <3>1, <3>2 DEF TypeOK, Dropped
  <2>5. MisuseExplained'
    BY <1>1, <1>2, <2>2, DropExplained DEF historyVars
  <2>6. Framed(f)
    BY <1>1, <1>2, <1>3, <2>1, <2>2, <2>3, DropUntouched DEF Framed, Dropped, historyVars
  <2>7. Own(f)
    BY <1>1, <1>2, <1>3, <1>5, <2>3
    DEF Own, OwnHold, OwnRegistered, OwnRunning, OwnAlone, OwnSound, InInit, Registered
  <2> QED
    BY <1>1, <1>4, <2>4, <2>5, <2>6, <2>7, StepKeeps
<1>8. CASE /\ video_capture[cam[f]] # "live"
           /\ process' = Misuse(cam[f])
           /\ UNCHANGED <<cam, cameraVars>>
  <2>1. Existing' = Existing
    BY <1>2, <1>8, SameExisting DEF pointers
  <2>2. process' \in {"wild pointer", "freed pointer"}
    BY <1>8 DEF Misuse
  <2>3. TypeOK' /\ FreeInv'
    BY <1>1, <1>6, <1>8, <2>1, <2>2 DEF TypeOK, cameraVars, FreeInv
  <2>4. MisuseExplained'
    <3>1. ASSUME process' = "wild pointer", "stat" \notin faults, overlapped = {}
          PROVE  FALSE
      BY <1>1, <1>2, <1>8, <3>1 DEF SoundInv
    <3> QED
      BY <1>2, <2>2, <3>1 DEF MisuseExplained, historyVars
  <2> QED
    BY <2>2, <2>3, <2>4 DEF IInv
<1> QED
  BY <1>7, <1>8 DEF Use

(* RemoveDevice keeps the invariant.                                       *)
LEMMA RemoveStep ==
  ASSUME IInv, process = "alive", UNCHANGED faults, NEW f \in Closers, RemoveDevice(f)
  PROVE  IInv'
<1> USE RegistryAssumption
<1>1. /\ TypeOK /\ FreeInv /\ AliveInv /\ HoldInv /\ CrossInv /\ SoundInv
      /\ f \in Filters /\ f \notin Settings /\ f \notin Inputs
  BY DEF IInv, AliveInv, Filters
<1>2. /\ at[f] = "remove" /\ at' = [at EXCEPT ![f] = "idle"]
      /\ devices' = [devices EXCEPT ![m_camera_index[f]] = None]
      /\ cam' = [cam EXCEPT ![f] = None]
      /\ UNCHANGED <<m_camera_index, historyVars, m_camera, ready>>
      /\ LetGo(index)
  BY DEF RemoveDevice, Goto
<1>3. /\ at'[f] = "idle" /\ cam'[f] = None
      /\ \A g \in Filters \ {f} : at'[g] = at[g] /\ cam'[g] = cam[g]
      /\ \A i \in Indices : devices'[i] = IF i = m_camera_index[f] THEN None ELSE devices[i]
  BY <1>1, <1>2 DEF TypeOK
<1>4. CrossInv'
  BY <1>1, <1>2, CrossStep
<1>5. f \notin ready' /\ \A k \in BeingOpened : k \in BeingOpened'
  BY <1>1, <1>2, SameOpened DEF TypeOK
<1>6. Existing' \subseteq Existing
  BY <1>1, <1>2 DEF TypeOK, Existing
<1>7. Dropped(index)
  BY <1>1, <1>2, <1>6, DropFacts
<1>8. TypeOK'
  <2>1. /\ m_camera' \in [Inputs -> Cameras \cup {None}]
        /\ m_camera_index' \in [Filters -> Indices \cup {None}]
        /\ ready' \subseteq Inputs /\ faults' \in FaultModes
        /\ overlapped' \subseteq Indices /\ clashed' \subseteq overlapped'
        /\ at' \in [Filters -> {"idle", "add", "assign", "init", "start", "open", "use", "close", "remove"}]
    BY <1>1, <1>2 DEF TypeOK, historyVars
  <2>2. devices' \in [Indices -> Cameras \cup {None}] /\ cam' \in [Filters -> Cameras \cup {None}]
    BY <1>1, <1>2 DEF TypeOK
  <2>3. \A g \in Filters : cam'[g] # None <=> at'[g] \in {"use", "close", "remove"}
    BY <1>1, <1>3 DEF TypeOK
  <2> QED
    BY <1>7, <2>1, <2>2, <2>3 DEF TypeOK, Dropped
<1>9. MisuseExplained'
  BY <1>1, <1>2, <1>7, DropExplained DEF historyVars
<1>10. Framed(f)
  <2>1. \A x \in Existing \cap Existing' : index'[x] = index[x] /\ Untouched(x)
    BY <1>7, DropUntouched
  <2>2. FreeInv' /\ Existing' \ Existing = {}
    BY <1>6, <1>7 DEF Dropped
  <2> QED
    BY <1>1, <1>2, <1>3, <2>1, <2>2 DEF Framed, historyVars
<1>11. Own(f)
  BY <1>1, <1>2, <1>3, <1>5
  DEF Own, OwnHold, OwnRegistered, OwnRunning, OwnAlone, OwnSound, InInit, Registered
<1> QED
  BY <1>1, <1>4, <1>8, <1>9, <1>10, <1>11, StepKeeps

(* MakeDevice keeps the invariant.                                         *)
LEMMA MakeStep ==
  ASSUME IInv, process = "alive", UNCHANGED faults,
         NEW f \in Inputs, NEW i \in Indices, MakeDevice(f, i)
  PROVE  IInv'
<1> USE RegistryAssumption
<1>1. /\ TypeOK /\ FreeInv /\ AliveInv /\ HoldInv /\ CrossInv /\ SoundInv
      /\ f \in Filters /\ f \notin Closers /\ f \notin Settings
  BY DEF IInv, AliveInv, Filters
<1>2. /\ at[f] = "idle" /\ at' = [at EXCEPT ![f] = "add"]
      /\ m_camera_index' = [m_camera_index EXCEPT ![f] = i]
      /\ ready' = ready \ {f} /\ devices' = devices /\ cam' = cam
      /\ devices[i] = None /\ Begin(f, i)
  BY DEF MakeDevice, Goto
<1>3. PICK k \in Cameras \ Existing :
        m_camera' = [m_camera EXCEPT ![f] = k] /\ LetGo([index EXCEPT ![k] = i])
  BY DEF MakeDevice
<1> DEFINE newIndex == [index EXCEPT ![k] = i]
<1>4. Begun(f, i)
  BY <1>1, <1>2, BeginFacts
<1>5. /\ at'[f] = "add" /\ m_camera_index'[f] = i /\ m_camera'[f] = k /\ cam'[f] = None
      /\ \A g \in Filters \ {f} : at'[g] = at[g] /\ m_camera_index'[g] = m_camera_index[g]
      /\ \A g \in Inputs \ {f} : m_camera'[g] = m_camera[g]
  BY <1>1, <1>2, <1>3 DEF TypeOK
<1>6. k \in Existing' /\ Existing' \subseteq Existing \cup {k}
  BY <1>1, <1>2, <1>3 DEF TypeOK, Existing
<1>7. /\ newIndex \in [Cameras -> Indices \cup {None}] /\ newIndex[k] = i
      /\ \A x \in Cameras \ {k} : newIndex[x] = index[x]
  BY <1>1 DEF TypeOK
<1>8. Dropped(newIndex)
  <2>1. \A x \in Existing' : newIndex[x] # None
    BY <1>1, <1>6, <1>7 DEF TypeOK, Existing
  <2>2. \A x \in Cameras : x \notin Existing /\ x \notin Existing' => newIndex[x] = None
    BY <1>1, <1>6, <1>7 DEF TypeOK
  <2>3. LetGo(newIndex)
    BY <1>3
  <2> HIDE DEF newIndex
  <2> QED
    BY <1>1, <1>7, <2>1, <2>2, <2>3, LetGoFacts
<1> HIDE DEF newIndex
<1>9. TypeOK'
  <2>1. /\ devices' \in [Indices -> Cameras \cup {None}] /\ cam' \in [Filters -> Cameras \cup {None}]
        /\ m_camera_index' \in [Filters -> Indices \cup {None}]
        /\ ready' \subseteq Inputs /\ faults' \in FaultModes
    BY <1>1, <1>2 DEF TypeOK
  <2>2. m_camera' \in [Inputs -> Cameras \cup {None}]
    BY <1>1, <1>3 DEF TypeOK
  <2>3. at' \in [Filters -> {"idle", "add", "assign", "init", "start", "open", "use", "close", "remove"}]
    BY <1>1, <1>2 DEF TypeOK
  <2>4. process' = "alive" =>
          \A g \in Filters : cam'[g] # None <=> at'[g] \in {"use", "close", "remove"}
    BY <1>1, <1>2 DEF TypeOK
  <2> QED
    BY <1>4, <1>8, <2>1, <2>2, <2>3, <2>4 DEF TypeOK, Dropped, Begun
<1>10. MisuseExplained'
  BY <1>1, <1>2, <1>4, <1>5, <1>8, DropExplained DEF Begun, InInit
<1>11. CrossInv'
  BY <1>1, <1>2, CrossBegin
<1>12. index'[k] = i /\ video_capture'[k] = "unset" /\ k \notin m_running'
  BY <1>1, <1>3, <1>6, <1>7, <1>8 DEF Dropped, FreeInv
<1>13. ASSUME NEW x \in Existing \cap Existing' PROVE index'[x] = index[x] /\ Untouched(x)
  <2>1. x \in Cameras /\ x # k
    BY <1>3, <1>13 DEF Existing
  <2> QED
    BY <1>7, <1>8, <1>13, <2>1 DEF Dropped, Untouched
<1>14. Framed(f)
  <2>1. overlapped \subseteq overlapped' /\ clashed \subseteq clashed'
    BY <1>4 DEF Begun
  <2>2. FreeInv'
    BY <1>8 DEF Dropped
  <2>3. \A x \in Existing' \ Existing : Made(f, x)
    BY <1>1, <1>5, <1>6, <1>12 DEF Made
  <2> QED
    BY <1>1, <1>2, <1>5, <1>13, <2>1, <2>2, <2>3 DEF Framed
<1>15. Own(f)
  <2>1. OwnHold(f)
    BY <1>1, <1>2, <1>3, <1>5, <1>12 DEF OwnHold, InInit
  <2>2. OwnRegistered(f) /\ OwnAlone(f) /\ OwnSound(f)
    BY <1>1, <1>2, <1>5 DEF OwnRegistered, OwnAlone, OwnSound, InInit, Registered
  <2>3. OwnRunning(f)
    BY <1>1, <1>2, <1>5, SameOpened DEF OwnRunning
  <2> QED
    BY <2>1, <2>2, <2>3 DEF Own
<1> QED
  BY <1>1, <1>9, <1>10, <1>11, <1>14, <1>15, StepKeeps

-----------------------------------------------------------------------------
(* Steps that keep all pointers to cameras *)

(* What such a step leaves for its frame and for the types.                *)
LEMMA QuietTypes ==
  ASSUME TypeOK, UNCHANGED <<faults, m_camera, m_camera_index, historyVars>>,
         Existing' = Existing, index' = index, process' = "alive",
         NEW f \in Filters, NEW to \in InInit \cup {"idle", "remove"},
         at[f] \in InInit \/ (at[f] = "close" /\ to = "remove"),
         process = "alive", to = "remove" => at[f] = "close",
         at' = [at EXCEPT ![f] = to], cam' = cam,
         devices' \in [Indices -> Cameras \cup {None}], ready' \subseteq Inputs,
         m_running' \subseteq Cameras,
         video_capture' \in [Cameras -> {"unset", "live", "deleted"}]
  PROVE  TypeOK'
<1>1. /\ m_camera' \in [Inputs -> Cameras \cup {None}] /\ cam' \in [Filters -> Cameras \cup {None}]
      /\ m_camera_index' \in [Filters -> Indices \cup {None}]
      /\ faults' \in FaultModes /\ index' \in [Cameras -> Indices \cup {None}]
      /\ overlapped' \subseteq Indices /\ clashed' \subseteq overlapped'
      /\ \A k \in Cameras : index'[k] # None <=> k \in Existing'
  BY DEF TypeOK, historyVars
<1>2. at' \in [Filters -> {"idle", "add", "assign", "init", "start", "open", "use", "close", "remove"}]
  BY DEF TypeOK, InInit
<1>3. \A g \in Filters : cam'[g] # None <=> at'[g] \in {"use", "close", "remove"}
  BY DEF TypeOK, InInit
<1> QED
  BY <1>1, <1>2, <1>3 DEF TypeOK

(* A filter in its Init has a camera of its index.                         *)
LEMMA InitHolds ==
  ASSUME TypeOK, HoldInv, NEW f \in Inputs, at[f] # "idle"
  PROVE  /\ m_camera[f] \in Cameras /\ m_camera[f] \in Existing /\ f \notin ready
         /\ m_camera_index[f] \in Indices /\ index[m_camera[f]] = m_camera_index[f]
<1>1. m_camera[f] # None /\ index[m_camera[f]] = m_camera_index[f] /\ f \notin ready
  BY DEF HoldInv
<1> QED
  BY <1>1, Held DEF TypeOK

(* AddDeviceTest keeps the invariant.                                      *)
LEMMA AddTestStep ==
  ASSUME IInv, process = "alive", UNCHANGED faults, NEW f \in Inputs, AddDeviceTest(f)
  PROVE  IInv'
<1> DEFINE i == m_camera_index[f]
<1> USE RegistryAssumption
<1>1. /\ TypeOK /\ FreeInv /\ AliveInv /\ HoldInv /\ CrossInv /\ AloneInv /\ SoundInv
      /\ MisuseExplained /\ f \in Filters /\ f \notin Closers /\ f \notin Settings
  BY DEF IInv, AliveInv, Filters
<1>2. PICK to \in {"assign", "idle"} :
        /\ at[f] = "add" /\ at' = [at EXCEPT ![f] = to]
        /\ UNCHANGED <<pointers, m_camera_index, ready, cameraVars, process, historyVars>>
        /\ to = "assign" <=> devices[i] = None
  BY DEF AddDeviceTest, Goto
<1>3. /\ at'[f] = to /\ cam' = cam /\ m_camera' = m_camera /\ m_camera_index' = m_camera_index
      /\ devices' = devices /\ ready' = ready /\ process' = "alive" /\ cam[f] = None
      /\ video_capture' = video_capture /\ index' = index /\ m_running' = m_running
      /\ overlapped' = overlapped /\ clashed' = clashed
      /\ \A g \in Filters \ {f} : at'[g] = at[g]
  BY <1>1, <1>2 DEF TypeOK, cameraVars, historyVars, pointers
<1>4. /\ m_camera[f] \in Cameras /\ m_camera[f] \in Existing /\ f \notin ready
      /\ index[m_camera[f]] = i /\ i \in Indices
  BY <1>1, <1>2, InitHolds
<1>5. Existing' = Existing
  BY <1>2, SameExisting
<1>6. TypeOK'
  <2>1. /\ devices' \in [Indices -> Cameras \cup {None}] /\ m_running' \subseteq Cameras
        /\ video_capture' \in [Cameras -> {"unset", "live", "deleted"}] /\ ready' \subseteq Inputs
    BY <1>1, <1>3 DEF TypeOK
  <2>2. to \in InInit \cup {"idle", "remove"} /\ to # "remove" /\ at[f] \in InInit
    BY <1>2 DEF InInit
  <2> QED
    BY <1>1, <1>2, <1>3, <1>5, <2>1, <2>2, QuietTypes
<1>7. MisuseExplained' /\ FreeInv'
  BY <1>1, <1>3, <1>5 DEF MisuseExplained, FreeInv
<1>8. CrossInv'
  BY <1>1, <1>2, CrossStep
<1>9. Framed(f)
  BY <1>1, <1>2, <1>3, <1>5, <1>7 DEF Framed, Untouched
<1>10. Own(f)
  <2>1. OwnHold(f)
    BY <1>1, <1>2, <1>3, <1>4 DEF OwnHold, InInit
  <2>2. OwnRegistered(f)
    BY <1>1, <1>2, <1>3 DEF OwnRegistered, Registered
  <2>3. OwnRunning(f)
    BY <1>1, <1>2, <1>3, <1>4, SameOpened DEF OwnRunning
  <2>4. OwnAlone(f)
    BY <1>1, <1>2, <1>3 DEF OwnAlone
  <2>5. OwnSound(f)
    BY <1>1, <1>2, <1>3 DEF OwnSound, AloneInv, InInit, Registered
  <2> QED
    BY <2>1, <2>2, <2>3, <2>4, <2>5 DEF Own
<1> QED
  BY <1>1, <1>6, <1>7, <1>8, <1>9, <1>10, StepKeeps

(* AddDevice keeps the invariant: the camera that it replaces, if any,     *)
(* belongs to an index whose calls have overlapped.                        *)
LEMMA AddStep ==
  ASSUME IInv, process = "alive", UNCHANGED faults, NEW f \in Inputs, AddDevice(f)
  PROVE  IInv'
<1> DEFINE i == m_camera_index[f]
           k == m_camera[f]
<1> USE RegistryAssumption
<1>1. /\ TypeOK /\ FreeInv /\ AliveInv /\ HoldInv /\ CrossInv /\ AloneInv /\ SoundInv
      /\ f \in Filters /\ f \notin Closers /\ f \notin Settings
  BY DEF IInv, AliveInv, Filters
<1>2. /\ at[f] = "assign" /\ at' = [at EXCEPT ![f] = "init"]
      /\ devices' = [devices EXCEPT ![i] = k] /\ LetGo(index)
      /\ UNCHANGED <<m_camera, cam, m_camera_index, ready, historyVars>>
  BY DEF AddDevice, Goto
<1>3. k \in Cameras /\ k \in Existing /\ f \notin ready /\ index[k] = i /\ i \in Indices
  BY <1>1, <1>2, InitHolds
<1>4. /\ at'[f] = "init" /\ cam' = cam /\ m_camera' = m_camera /\ m_camera_index' = m_camera_index
      /\ ready' = ready /\ overlapped' = overlapped /\ clashed' = clashed /\ cam[f] = None
      /\ \A g \in Filters \ {f} : at'[g] = at[g]
  BY <1>1, <1>2 DEF TypeOK, historyVars
<1>5. /\ devices' \in [Indices -> Cameras \cup {None}] /\ devices'[i] = k
      /\ \A j \in Indices \ {i} : devices'[j] = devices[j]
  BY <1>1, <1>2, <1>3 DEF TypeOK
<1>6. Existing' \subseteq Existing
  BY <1>1, <1>3, <1>4, <1>5 DEF TypeOK, Existing
<1>7. Dropped(index)
  BY <1>1, <1>2, <1>6, DropFacts
<1>8. k \in Existing' /\ index'[k] = i
  <2>1. k \in Existing'
    BY <1>3, <1>4 DEF Existing
  <2> QED
    BY <1>3, <1>7, <2>1 DEF Dropped
<1>9. TypeOK'
  <2>1. /\ m_camera' \in [Inputs -> Cameras \cup {None}] /\ cam' \in [Filters -> Cameras \cup {None}]
        /\ m_camera_index' \in [Filters -> Indices \cup {None}]
        /\ ready' \subseteq Inputs /\ faults' \in FaultModes
        /\ overlapped' \subseteq Indices /\ clashed' \subseteq overlapped'
    BY <1>1, <1>4 DEF TypeOK
  <2>2. at' \in [Filters -> {"idle", "add", "assign", "init", "start", "open", "use", "close", "remove"}]
    BY <1>1, <1>2 DEF TypeOK
  <2>3. process' = "alive" =>
          \A g \in Filters : cam'[g] # None <=> at'[g] \in {"use", "close", "remove"}
    BY <1>1, <1>4 DEF TypeOK
  <2> QED
    BY <1>5, <1>7, <2>1, <2>2, <2>3 DEF TypeOK, Dropped
<1>10. MisuseExplained'
  BY <1>1, <1>4, <1>7, DropExplained
<1>11. CrossInv'
  BY <1>1, <1>2, CrossStep
<1>12. Framed(f)
  <2>1. \A x \in Existing \cap Existing' : index'[x] = index[x] /\ Untouched(x)
    BY <1>7, DropUntouched
  <2>2. FreeInv' /\ Existing' \ Existing = {}
    BY <1>6, <1>7 DEF Dropped
  <2> QED
    BY <1>1, <1>2, <1>4, <1>5, <2>1, <2>2 DEF Framed
<1>13. Own(f)
  <2>1. OwnHold(f)
    BY <1>1, <1>3, <1>4, <1>8 DEF OwnHold, InInit
  <2>2. OwnRegistered(f) /\ OwnAlone(f)
    BY <1>1, <1>3, <1>4, <1>5 DEF OwnRegistered, OwnAlone, Registered
  <2>3. OwnRunning(f)
    BY <1>1, <1>2, <1>3, <1>4, SameOpened DEF OwnRunning
  <2>4. OwnSound(f)
    BY <1>1, <1>2, <1>4 DEF OwnSound, InInit, Registered
  <2> QED
    BY <2>1, <2>2, <2>3, <2>4 DEF Own
<1> QED
  BY <1>1, <1>9, <1>10, <1>11, <1>12, <1>13, StepKeeps

(* FilterInit keeps the invariant.                                         *)
LEMMA FilterInitStep ==
  ASSUME IInv, process = "alive", UNCHANGED faults, NEW f \in Inputs, FilterInit(f)
  PROVE  IInv'
<1> DEFINE i == m_camera_index[f]
           k == m_camera[f]
<1> USE RegistryAssumption
<1>1. /\ TypeOK /\ FreeInv /\ AliveInv /\ HoldInv /\ CrossInv /\ RegisteredInv /\ RunningInv
      /\ AloneInv /\ SoundInv /\ MisuseExplained
      /\ f \in Filters /\ f \notin Closers /\ f \notin Settings
  BY DEF IInv, AliveInv, Filters
<1>2. PICK to \in {"start", "idle"} :
        /\ at[f] = "init" /\ at' = [at EXCEPT ![f] = to]
        /\ UNCHANGED <<pointers, m_camera_index, cameraVars, process, historyVars>>
        /\ \/ to = "start" /\ k \notin m_running /\ UNCHANGED ready
           \/ to = "idle" /\ k \in m_running /\ ready' = ready \cup {f}
  BY DEF FilterInit, Goto
<1>3. /\ at'[f] = to /\ cam' = cam /\ m_camera' = m_camera /\ m_camera_index' = m_camera_index
      /\ devices' = devices /\ video_capture' = video_capture /\ index' = index /\ m_running' = m_running
      /\ overlapped' = overlapped /\ clashed' = clashed /\ process' = "alive" /\ cam[f] = None
      /\ \A g \in Filters \ {f} : at'[g] = at[g]
  <2>1. UNCHANGED <<cam, m_camera, m_camera_index, devices, video_capture, index, m_running,
                    overlapped, clashed>> /\ process' = "alive"
    BY <1>1, <1>2 DEF cameraVars, historyVars, pointers
  <2>2. at'[f] = to /\ cam[f] = None /\ \A g \in Filters \ {f} : at'[g] = at[g]
    BY <1>1, <1>2 DEF TypeOK
  <2> QED
    BY <2>1, <2>2
<1>4. k \in Cameras /\ k \in Existing /\ index[k] = i /\ i \in Indices /\ f \notin ready
  BY <1>1, <1>2, InitHolds
<1>5. Existing' = Existing
  BY <1>2, SameExisting
<1>6. TypeOK'
  <2>1. /\ UNCHANGED <<m_camera, m_camera_index, historyVars>> /\ index' = index /\ cam' = cam
        /\ process' = "alive" /\ to \in InInit \cup {"idle", "remove"} /\ at[f] \in InInit
        /\ to # "remove"
    BY <1>2, <1>3 DEF InInit
  <2>2. /\ devices' \in [Indices -> Cameras \cup {None}] /\ m_running' \subseteq Cameras
        /\ video_capture' \in [Cameras -> {"unset", "live", "deleted"}]
    BY <1>1, <1>3 DEF TypeOK
  <2>3. ready' \subseteq Inputs
    BY <1>1, <1>2 DEF TypeOK
  <2> QED
    BY <1>1, <1>2, <1>5, <2>1, <2>2, <2>3, QuietTypes
<1>7. MisuseExplained' /\ FreeInv'
  BY <1>1, <1>3, <1>5 DEF MisuseExplained, FreeInv
<1>8. CrossInv'
  BY <1>1, <1>2, CrossStep
<1>9. Framed(f)
  BY <1>1, <1>2, <1>3, <1>5, <1>7 DEF Framed, Untouched
<1>10. /\ devices[i] = k \/ i \in overlapped
       /\ devices[i] # None \/ i \in clashed
  BY <1>1, <1>2 DEF RegisteredInv, Registered
<1>11. ASSUME k \in BeingOpened
       PROVE  \E g \in Inputs \ {f} : m_camera[g] = k /\ at[g] = "open"
  BY <1>2, <1>11 DEF BeingOpened
<1>12. Own(f)
  <2>1. OwnHold(f)
    BY <1>1, <1>2, <1>3, <1>4 DEF OwnHold, InInit
  <2>2. OwnRegistered(f)
    BY <1>1, <1>3, <1>10 DEF OwnRegistered
  <2>3. \A x \in BeingOpened : x \in BeingOpened'
    BY <1>1, <1>2, <1>3, SameOpened
  <2>4. k \in m_running => video_capture[k] = "live" \/ "stat" \in faults \/ k \in BeingOpened
    BY <1>1 DEF RunningInv
  <2>5. OwnRunning(f)
    BY <1>2, <1>3, <1>4, <2>3, <2>4 DEF OwnRunning
  <2>6. OwnAlone(f)
    <3>1. ASSUME i \notin overlapped, k \notin m_running, NEW x \in Cameras,
                 index[x] = i, video_capture[x] = "live"
          PROVE  FALSE
      BY <1>1, <1>10, <3>1 DEF RegisteredInv, AloneInv
    <3> QED
      BY <1>2, <1>3, <3>1 DEF OwnAlone
  <2>7. OwnSound(f)
    <3>1. ASSUME to = "idle", "stat" \notin faults
          PROVE  \/ video_capture[k] = "live"
                 \/ \E g \in Inputs \ {f} : m_camera[g] = k /\ at[g] \in Registered
      BY <1>2, <1>11, <2>4, <3>1 DEF Registered
    <3>2. ASSUME to = "idle", "stat" \notin faults, i \notin overlapped
          PROVE  video_capture[k] = "live"
      <4>1. ASSUME NEW g \in Inputs \ {f}, m_camera[g] = k, at[g] = "open"
            PROVE  FALSE
        <5>1. m_camera_index[g] = i
          BY <1>1, <1>4, <4>1 DEF HoldInv
        <5> QED
          BY <1>1, <1>2, <3>2, <4>1, <5>1 DEF CrossInv, Filters
      <4> QED
        BY <1>2, <1>11, <2>4, <3>2, <4>1
    <3> QED
      BY <1>1, <1>2, <1>3, <3>1, <3>2 DEF OwnSound, InInit, Registered
  <2> QED
    BY <2>1, <2>2, <2>5, <2>6, <2>7 DEF Own
<1> QED
  BY <1>1, <1>6, <1>7, <1>8, <1>9, <1>12, StepKeeps

(* MarkRunning keeps the invariant.                                        *)
LEMMA MarkRunningStep ==
  ASSUME IInv, process = "alive", UNCHANGED faults, NEW f \in Inputs, MarkRunning(f)
  PROVE  IInv'
<1> DEFINE i == m_camera_index[f]
           k == m_camera[f]
<1> USE RegistryAssumption
<1>1. /\ TypeOK /\ FreeInv /\ AliveInv /\ HoldInv /\ CrossInv /\ RegisteredInv /\ RunningInv
      /\ AloneInv /\ SoundInv /\ MisuseExplained
      /\ f \in Filters /\ f \notin Closers /\ f \notin Settings
  BY DEF IInv, AliveInv, Filters
<1>2. PICK to \in {"open", "idle"} :
        /\ at[f] = "start" /\ at' = [at EXCEPT ![f] = to]
        /\ m_running' = m_running \cup {k}
        /\ UNCHANGED <<pointers, m_camera_index, ready, index, video_capture, process, historyVars>>
        /\ to = "idle" => "stat" \in faults
  BY DEF MarkRunning, Goto
<1>3. /\ at'[f] = to /\ cam' = cam /\ m_camera' = m_camera /\ m_camera_index' = m_camera_index
      /\ devices' = devices /\ video_capture' = video_capture /\ index' = index /\ ready' = ready
      /\ overlapped' = overlapped /\ clashed' = clashed /\ process' = "alive" /\ cam[f] = None
      /\ \A g \in Filters \ {f} : at'[g] = at[g]
  BY <1>1, <1>2 DEF TypeOK, historyVars, pointers
<1>4. k \in Cameras /\ k \in Existing /\ index[k] = i /\ i \in Indices /\ f \notin ready
  BY <1>1, <1>2, InitHolds
<1>5. Existing' = Existing
  BY <1>2, SameExisting
<1>6. TypeOK'
  <2>1. /\ devices' \in [Indices -> Cameras \cup {None}] /\ ready' \subseteq Inputs
        /\ m_running' \subseteq Cameras
        /\ video_capture' \in [Cameras -> {"unset", "live", "deleted"}]
    BY <1>1, <1>2, <1>3, <1>4 DEF TypeOK
  <2>2. at[f] \in InInit /\ to \in InInit \cup {"idle"}
    BY <1>2 DEF InInit
  <2> QED
    BY <1>1, <1>2, <1>3, <1>5, <2>1, <2>2, QuietTypes
<1>7. MisuseExplained' /\ FreeInv'
  BY <1>1, <1>2, <1>3, <1>4, <1>5 DEF MisuseExplained, FreeInv
<1>8. CrossInv'
  BY <1>1, <1>2, CrossStep
<1>9. \A x \in Existing : Untouched(x)
  BY <1>2, <1>3 DEF Untouched, BeingOpened
<1>10. Framed(f)
  BY <1>1, <1>2, <1>3, <1>5, <1>7, <1>9 DEF Framed
<1>11. Own(f)
  <2>1. OwnHold(f)
    BY <1>1, <1>2, <1>3, <1>4 DEF OwnHold, InInit
  <2>2. OwnRegistered(f)
    BY <1>1, <1>2, <1>3 DEF OwnRegistered, RegisteredInv, Registered
  <2>3. OwnRunning(f)
    BY <1>1, <1>2, <1>3, <1>4, SameOpened DEF OwnRunning
  <2>4. OwnAlone(f)
    BY <1>1, <1>2, <1>3 DEF OwnAlone, AloneInv
  <2>5. OwnSound(f)
    BY <1>1, <1>2, <1>3 DEF OwnSound, InInit, Registered
  <2> QED
    BY <2>1, <2>2, <2>3, <2>4, <2>5 DEF Own
<1> QED
  BY <1>1, <1>6, <1>7, <1>8, <1>10, <1>11, StepKeeps

(* Open keeps the invariant.                                               *)
LEMMA OpenStep ==
  ASSUME IInv, process = "alive", UNCHANGED faults, NEW f \in Inputs, Open(f)
  PROVE  IInv'
<1> DEFINE i == m_camera_index[f]
           k == m_camera[f]
           busy == \E x \in Cameras : index[x] = index[k] /\ video_capture[x] = "live"
<1> USE RegistryAssumption
<1>1. /\ TypeOK /\ FreeInv /\ AliveInv /\ HoldInv /\ CrossInv /\ RegisteredInv /\ RunningInv
      /\ AloneInv /\ SoundInv /\ MisuseExplained
      /\ f \in Filters /\ f \notin Closers /\ f \notin Settings
  BY DEF IInv, AliveInv, Filters
<1>2. /\ at[f] = "open" /\ at' = [at EXCEPT ![f] = "idle"]
      /\ UNCHANGED <<pointers, m_camera_index, index, m_running, historyVars>>
  BY DEF Open, Goto
<1>3. /\ at'[f] = "idle" /\ cam' = cam /\ m_camera' = m_camera /\ m_camera_index' = m_camera_index
      /\ devices' = devices /\ index' = index /\ m_running' = m_running
      /\ overlapped' = overlapped /\ clashed' = clashed /\ cam[f] = None
      /\ \A g \in Filters \ {f} : at'[g] = at[g]
  BY <1>1, <1>2 DEF TypeOK, historyVars, pointers
<1>4. k \in Cameras /\ k \in Existing /\ index[k] = i /\ i \in Indices /\ f \notin ready
  BY <1>1, <1>2, InitHolds
<1>5. Existing' = Existing
  BY <1>2, SameExisting
<1>6. CrossInv'
  BY <1>1, <1>2, CrossStep
<1>7. CASE /\ ~busy /\ video_capture' = [video_capture EXCEPT ![k] = "live"]
           /\ ready' = ready \cup {f} /\ UNCHANGED process
  <2>1. /\ video_capture' \in [Cameras -> {"unset", "live", "deleted"}]
        /\ video_capture'[k] = "live"
        /\ \A x \in Cameras \ {k} : video_capture'[x] = video_capture[x]
    BY <1>1, <1>4, <1>7 DEF TypeOK
  <2>2. TypeOK'
    <3>1. devices' \in [Indices -> Cameras \cup {None}] /\ ready' \subseteq Inputs
          /\ m_running' \subseteq Cameras
      BY <1>1, <1>3, <1>7 DEF TypeOK
    <3>2. at[f] \in InInit /\ "idle" \in InInit \cup {"idle", "remove"}
      BY <1>2 DEF InInit
    <3> QED
      BY <1>1, <1>2, <1>3, <1>5, <1>7, <2>1, <3>1, <3>2, QuietTypes
  <2>3. MisuseExplained' /\ FreeInv'
    BY <1>1, <1>3, <1>4, <1>5, <1>7, <2>1 DEF MisuseExplained, FreeInv
  <2>4. \A x \in Existing : Untouched(x) \/ Opened(f, x)
    BY <1>2, <1>3, <1>7, <2>1 DEF Untouched, Opened, Existing
  <2>5. Framed(f)
    BY <1>1, <1>2, <1>3, <1>5, <1>7, <2>3, <2>4 DEF Framed
  <2>6. \A x \in BeingOpened : x \in BeingOpened' \/ video_capture'[x] = "live"
    <3>1. ASSUME NEW g \in Inputs, at[g] = "open", g # f
          PROVE  m_camera[g] \in BeingOpened'
      BY <1>1, <1>3, <3>1 DEF BeingOpened, Filters
    <3> QED
      BY <2>1, <3>1 DEF BeingOpened
  <2>7. OwnHold(f)
    BY <1>1, <1>3, <1>4 DEF OwnHold, InInit
  <2>8. OwnRegistered(f) /\ OwnAlone(f)
    BY <1>1, <1>3 DEF OwnRegistered, OwnAlone, Registered
  <2>9. OwnRunning(f)
    BY <1>3, <2>1, <2>6 DEF OwnRunning
  <2>10. OwnSound(f)
    BY <1>1, <1>2, <1>3, <2>1 DEF OwnSound, Registered, InInit
  <2> QED
    BY <1>1, <1>6, <2>2, <2>3, <2>5, <2>7, <2>8, <2>9, <2>10, StepKeeps DEF Own
<1>8. CASE /\ busy \/ "create" \in faults
           /\ process' = "null pointer" /\ UNCHANGED <<video_capture, ready>>
  <2>1. busy => overlapped # {}
    BY <1>1, <1>2, <1>4 DEF AloneInv
  <2>2. MisuseExplained'
    BY <1>3, <1>8, <2>1 DEF MisuseExplained
  <2>3. at' \in [Filters -> {"idle", "add", "assign", "init", "start", "open", "use", "close", "remove"}]
    BY <1>1, <1>2 DEF TypeOK
  <2>4. TypeOK'
    BY <1>1, <1>3, <1>5, <1>8, <2>3 DEF TypeOK
  <2>5. FreeInv'
    BY <1>1, <1>3, <1>5, <1>8 DEF FreeInv
  <2> QED
    BY <1>8, <2>2, <2>4, <2>5 DEF IInv
<1> QED
  BY <1>7, <1>8 DEF Open

(* CloseAcquisition keeps the invariant.                                   *)
LEMMA CloseStep ==
  ASSUME IInv, process = "alive", UNCHANGED faults, NEW f \in Closers, CloseAcquisition(f)
  PROVE  IInv'
<1> DEFINE i == m_camera_index[f]
           k == cam[f]
<1> USE RegistryAssumption
<1>1. /\ TypeOK /\ FreeInv /\ AliveInv /\ HoldInv /\ CrossInv /\ RegisteredInv /\ RunningInv
      /\ SoundInv /\ MisuseExplained
      /\ f \in Filters /\ f \notin Inputs /\ f \notin Settings
  BY DEF IInv, AliveInv, Filters
<1>2. /\ at[f] = "close" /\ at' = [at EXCEPT ![f] = "remove"]
      /\ m_running' = m_running \ {k}
      /\ video_capture' = [video_capture EXCEPT ![k] = IF @ = "live" THEN "deleted" ELSE @]
      /\ Delete(k)
      /\ UNCHANGED <<pointers, m_camera_index, ready, index, historyVars>>
  BY DEF CloseAcquisition, Goto
<1>3. /\ at'[f] = "remove" /\ cam' = cam /\ m_camera' = m_camera /\ m_camera_index' = m_camera_index
      /\ devices' = devices /\ index' = index /\ ready' = ready
      /\ overlapped' = overlapped /\ clashed' = clashed
      /\ \A g \in Filters \ {f} : at'[g] = at[g]
  BY <1>1, <1>2 DEF TypeOK, historyVars, pointers
<1>4. k \in Cameras /\ k \in Existing /\ index[k] = i /\ i \in Indices /\ f \notin ready
  <2>1. k # None
    BY <1>1, <1>2 DEF TypeOK
  <2> QED
    BY <1>1, <2>1, Held DEF TypeOK, HoldInv
<1>5. Existing' = Existing
  BY <1>2, SameExisting
<1>6. /\ video_capture' \in [Cameras -> {"unset", "live", "deleted"}]
      /\ video_capture'[k] # "live" /\ (video_capture[k] # "unset" => video_capture'[k] # "unset")
      /\ \A x \in Cameras \ {k} : video_capture'[x] = video_capture[x]
      /\ \A x \in Cameras \ {k} : x \in m_running' <=> x \in m_running
      /\ k \notin m_running'
  BY <1>1, <1>2, <1>4 DEF TypeOK
<1>7. /\ process' \in {"alive", "wild pointer", "freed pointer"}
      /\ process' = "wild pointer" => video_capture[k] = "unset"
  BY <1>1, <1>2, <1>4 DEF Delete, Misuse, TypeOK
<1>8. FreeInv'
  BY <1>1, <1>4, <1>5, <1>6 DEF FreeInv, Existing
<1>9. MisuseExplained'
  <2>1. ASSUME process' = "wild pointer", "stat" \notin faults, overlapped = {}
        PROVE  FALSE
    BY <1>1, <1>2, <1>7, <2>1 DEF SoundInv
  <2> QED
    BY <1>3, <1>7, <2>1 DEF MisuseExplained
<1>10. TypeOK'
  <2>1. at' \in [Filters -> {"idle", "add", "assign", "init", "start", "open", "use", "close", "remove"}]
    BY <1>1, <1>2 DEF TypeOK
  <2>2. \A g \in Filters : cam'[g] # None <=> at'[g] \in {"use", "close", "remove"}
    BY <1>1, <1>2, <1>3 DEF TypeOK
  <2>3. m_running' \subseteq Cameras
    BY <1>1, <1>2 DEF TypeOK
  <2> QED
    BY <1>1, <1>3, <1>5, <1>6, <1>7, <2>1, <2>2, <2>3 DEF TypeOK
<1>11. CrossInv'
  BY <1>1, <1>2, CrossStep
<1>12. Framed(f)
  <2>1. \A x \in Existing : Untouched(x) \/ Closed(f, x)
    BY <1>2, <1>3, <1>6 DEF Untouched, Closed, Existing
  <2> QED
    BY <1>1, <1>3, <1>5, <1>8, <2>1 DEF Framed
<1>13. Own(f)
  <2>1. OwnHold(f)
    BY <1>1, <1>3, <1>4 DEF OwnHold
  <2>2. OwnRegistered(f)
    <3>1. ASSUME NEW x \in Cameras, video_capture'[x] = "live", index'[x] = i
          PROVE  ExcusedNext(i)
      <4>1. x # k /\ video_capture[x] = "live" /\ index[x] = i
        BY <1>3, <1>6, <3>1
      <4>2. Excused(i)
        BY <1>1, <1>2, <4>1 DEF RegisteredInv
      <4> QED
        BY <1>3, <4>2 DEF Excused, ExcusedNext
    <3> QED
      BY <1>1, <1>3, <3>1 DEF OwnRegistered
  <2>3. OwnRunning(f) /\ OwnAlone(f)
    BY <1>1, <1>2, <1>3, <1>4, SameOpened DEF OwnRunning, OwnAlone
  <2>4. OwnSound(f)
    BY <1>1, <1>2, <1>3 DEF OwnSound
  <2> QED
    BY <2>1, <2>2, <2>3, <2>4 DEF Own
<1> QED
  BY <1>1, <1>9, <1>10, <1>11, <1>12, <1>13, StepKeeps

-----------------------------------------------------------------------------
(* Steps that take a camera from the registry *)

(* What a filter that takes the camera of index i finds.                   *)
LEMMA TakeFacts ==
  ASSUME TypeOK, FreeInv, NEW f \in Filters, at[f] = "idle", process = "alive", NEW i \in Indices,
         devices[i] # None, UNCHANGED <<devices, m_camera>>,
         cam' = [cam EXCEPT ![f] = devices[i]]
  PROVE  /\ devices[i] \in Cameras /\ devices[i] \in Existing /\ cam[f] = None
         /\ cam'[f] = devices[i] /\ \A g \in Filters \ {f} : cam'[g] = cam[g]
         /\ cam' \in [Filters -> Cameras \cup {None}] /\ Existing' = Existing
<1>1. /\ devices[i] \in Cameras /\ devices[i] \in Existing /\ cam[f] = None
      /\ cam'[f] = devices[i] /\ \A g \in Filters \ {f} : cam'[g] = cam[g]
      /\ cam' \in [Filters -> Cameras \cup {None}]
  BY Held DEF TypeOK
<1>2. Existing \subseteq Existing'
  BY <1>1, RegistryAssumption DEF Existing
<1>3. Existing' \subseteq Existing
  BY <1>1 DEF Existing
<1> QED
  BY <1>1, <1>2, <1>3

(* Where no Init and no CloseAcquisition is under way, a registered camera *)
(* is open.                                                                *)
LEMMA QuietIsLive ==
  ASSUME TypeOK, HoldInv, SoundInv, "stat" \notin faults, NEW i \in Indices, devices[i] # None,
         \A f \in Inputs : m_camera_index[f] = i => at[f] \notin Registered,
         \A x \in Closers : m_camera_index[x] = i => at[x] # "remove"
  PROVE  video_capture[devices[i]] = "live"
<1>1. ASSUME NEW f \in Inputs, m_camera[f] = devices[i], at[f] \in Registered
      PROVE  FALSE
  <2>1. index[m_camera[f]] = m_camera_index[f] /\ index[devices[i]] = i
    BY <1>1 DEF HoldInv, Registered
  <2> QED
    BY <1>1, <2>1
<1> QED
  BY <1>1 DEF SoundInv

(* GetDevice keeps the invariant.                                          *)
LEMMA GetDeviceStep ==
  ASSUME IInv, process = "alive", UNCHANGED faults,
         NEW f \in Settings, NEW i \in Indices, GetDevice(f, i)
  PROVE  IInv'
<1> USE RegistryAssumption
<1>1. /\ TypeOK /\ FreeInv /\ AliveInv /\ HoldInv /\ CrossInv /\ RegisteredInv /\ RunningInv
      /\ SoundInv /\ MisuseExplained
      /\ f \in Filters /\ f \notin Inputs /\ f \notin Closers
  BY DEF IInv, AliveInv, Filters
<1>2. /\ at[f] = "idle" /\ m_camera_index' = [m_camera_index EXCEPT ![f] = i]
      /\ devices' = devices /\ m_camera' = m_camera /\ ready' = ready /\ process' = "alive"
      /\ UNCHANGED <<index, m_running, video_capture>>
  BY DEF GetDevice, Goto, cameraVars
<1>3. /\ m_camera_index'[f] = i /\ m_camera_index' \in [Filters -> Indices \cup {None}]
      /\ \A g \in Filters \ {f} : m_camera_index'[g] = m_camera_index[g]
      /\ f \notin ready /\ cam[f] = None
  BY <1>1, <1>2 DEF TypeOK
<1>4. CASE /\ devices[i] # None /\ at' = [at EXCEPT ![f] = "use"]
           /\ cam' = [cam EXCEPT ![f] = devices[i]]
           /\ Begin(f, i)
  <2>1. Begun(f, i)
    BY <1>1, <1>4, BeginFacts
  <2>2. /\ devices[i] \in Cameras /\ devices[i] \in Existing
        /\ cam'[f] = devices[i] /\ \A g \in Filters \ {f} : cam'[g] = cam[g]
        /\ cam' \in [Filters -> Cameras \cup {None}] /\ Existing' = Existing
    BY <1>1, <1>2, <1>4, TakeFacts
  <2>3. at'[f] = "use" /\ \A g \in Filters \ {f} : at'[g] = at[g]
    BY <1>1, <1>4 DEF TypeOK
  <2>4. TypeOK'
    <3>1. at' \in [Filters -> {"idle", "add", "assign", "init", "start", "open", "use", "close", "remove"}]
      BY <1>1, <1>4 DEF TypeOK
    <3>2. \A g \in Filters : cam'[g] # None <=> at'[g] \in {"use", "close", "remove"}
      BY <1>1, <1>4, <2>2, <2>3 DEF TypeOK
    <3> QED
      BY <1>1, <1>2, <1>3, <2>1, <2>2, <3>1, <3>2 DEF TypeOK, Begun
  <2>5. MisuseExplained' /\ FreeInv'
    BY <1>1, <1>2, <2>2 DEF MisuseExplained, FreeInv
  <2>6. CrossInv'
    BY <1>1, <1>2, <1>4, CrossBegin
  <2>7. Framed(f)
    BY <1>1, <1>2, <1>3, <2>1, <2>2, <2>3, <2>5 DEF Framed, Begun, Untouched
  <2>8. Own(f)
    <3>1. OwnHold(f) /\ OwnRegistered(f) /\ OwnAlone(f)
      BY <1>1, <1>2, <1>3, <1>4, <2>2, <2>3 DEF OwnHold, OwnRegistered, OwnAlone, HoldInv
    <3>2. OwnRunning(f)
      BY <1>1, <1>2, <1>3, <1>4, SameOpened DEF OwnRunning
    <3>3. ASSUME "stat" \notin faults, i \notin overlapped'
          PROVE  video_capture[devices[i]] = "live"
      <4>1. ASSUME NEW g \in Filters, m_camera_index[g] = i PROVE at[g] = "idle"
        BY <1>2, <2>1, <3>3, <4>1 DEF Begun
      <4> QED
        BY <1>1, <1>4, <3>3, <4>1, QuietIsLive DEF Registered, Filters
    <3>4. OwnSound(f)
      BY <1>1, <1>2, <1>3, <2>2, <2>3, <3>3 DEF OwnSound, Registered
    <3> QED
      BY <3>1, <3>2, <3>4 DEF Own
  <2> QED
    BY <1>1, <2>4, <2>5, <2>6, <2>7, <2>8, StepKeeps
<1>5. CASE at' = [at EXCEPT ![f] = "idle"] /\ UNCHANGED <<cam, historyVars>>
  <2>1. at' = at /\ cam' = cam /\ overlapped' = overlapped /\ clashed' = clashed
    BY <1>1, <1>2, <1>5 DEF TypeOK, historyVars
  <2>2. Existing' = Existing
    BY <1>2, <2>1, SameExisting DEF pointers
  <2>3. TypeOK'
    BY <1>1, <1>2, <1>3, <2>1, <2>2 DEF TypeOK
  <2>4. MisuseExplained' /\ FreeInv'
    BY <1>1, <1>2, <2>1, <2>2 DEF MisuseExplained, FreeInv
  <2>5. CrossInv'
    BY <1>1, <1>2, <1>3, <2>1 DEF CrossInv, Filters
  <2>6. Framed(f)
    BY <1>1, <1>2, <1>3, <2>1, <2>2, <2>4 DEF Framed, Untouched
  <2>7. Own(f)
    <3>1. OwnHold(f) /\ OwnRegistered(f) /\ OwnAlone(f)
      BY <1>1, <1>2, <1>3, <2>1 DEF OwnHold, OwnRegistered, OwnAlone
    <3>2. OwnRunning(f)
      BY <1>1, <1>2, <1>3, <2>1 DEF OwnRunning, BeingOpened
    <3>3. OwnSound(f)
      BY <1>1, <1>2, <2>1 DEF OwnSound, Registered
    <3> QED
      BY <3>1, <3>2, <3>3 DEF Own
  <2> QED
    BY <1>1, <2>3, <2>4, <2>5, <2>6, <2>7, StepKeeps
<1> QED
  BY <1>4, <1>5 DEF GetDevice, Goto

(* GetDeviceToClose keeps the invariant.                                   *)
LEMMA GetDeviceToCloseStep ==
  ASSUME IInv, process = "alive", UNCHANGED faults, NEW f \in Closers, GetDeviceToClose(f)
  PROVE  IInv'
<1> DEFINE i == m_camera_index[f]
<1> USE RegistryAssumption
<1>1. /\ TypeOK /\ FreeInv /\ AliveInv /\ HoldInv /\ CrossInv /\ RegisteredInv /\ RunningInv
      /\ SoundInv /\ MisuseExplained
      /\ f \in Filters /\ f \notin Inputs /\ f \notin Settings
  BY DEF IInv, AliveInv, Filters
<1>2. /\ at[f] = "idle" /\ at' = [at EXCEPT ![f] = "close"] /\ i \in Indices
      /\ devices[i] # None /\ cam' = [cam EXCEPT ![f] = devices[i]] /\ Begin(f, i)
      /\ devices' = devices /\ m_camera' = m_camera /\ ready' = ready /\ process' = "alive"
      /\ m_camera_index' = m_camera_index
      /\ UNCHANGED <<index, m_running, video_capture>>
  BY <1>1 DEF GetDeviceToClose, Goto, cameraVars, HoldInv
<1>3. f \notin ready
  BY <1>1 DEF TypeOK
<1>4. Begun(f, i)
  BY <1>1, <1>2, BeginFacts
<1>5. /\ devices[i] \in Cameras /\ devices[i] \in Existing
      /\ cam'[f] = devices[i] /\ \A g \in Filters \ {f} : cam'[g] = cam[g]
      /\ cam' \in [Filters -> Cameras \cup {None}] /\ Existing' = Existing
  BY <1>1, <1>2, TakeFacts
<1>6. at'[f] = "close" /\ \A g \in Filters \ {f} : at'[g] = at[g]
  BY <1>1, <1>2 DEF TypeOK
<1>7. TypeOK'
  <2>1. at' \in [Filters -> {"idle", "add", "assign", "init", "start", "open", "use", "close", "remove"}]
    BY <1>1, <1>2 DEF TypeOK
  <2>2. \A g \in Filters : cam'[g] # None <=> at'[g] \in {"use", "close", "remove"}
    BY <1>1, <1>2, <1>5, <1>6 DEF TypeOK
  <2> QED
    BY <1>1, <1>2, <1>4, <1>5, <2>1, <2>2 DEF TypeOK, Begun
<1>8. MisuseExplained' /\ FreeInv'
  BY <1>1, <1>2, <1>5 DEF MisuseExplained, FreeInv
<1>9. CrossInv'
  <2>1. m_camera_index' = [m_camera_index EXCEPT ![f] = i]
    BY <1>1, <1>2 DEF TypeOK
  <2> QED
    BY <1>1, <1>2, <2>1, CrossBegin
<1>10. Framed(f)
  BY <1>1, <1>2, <1>4, <1>5, <1>6, <1>8 DEF Framed, Begun, Untouched
<1>11. Own(f)
  <2>1. OwnHold(f) /\ OwnAlone(f)
    BY <1>1, <1>2, <1>3, <1>5, <1>6 DEF OwnHold, OwnAlone, HoldInv
  <2>2. OwnRegistered(f)
    <3>1. ASSUME NEW x \in Cameras, video_capture[x] = "live", index[x] = i, ~ExcusedNext(i)
          PROVE  x = devices[i]
      <4>1. ~Excused(i)
        BY <1>4, <3>1 DEF Excused, ExcusedNext, Begun
      <4>2. CASE "stat" \in faults
        BY <1>1, <3>1, <4>1, <4>2 DEF Excused, RegisteredInv
      <4>3. CASE "stat" \notin faults
        <5>1. ASSUME NEW g \in Inputs, m_camera_index[g] = i PROVE at[g] = "idle"
          BY <1>1, <1>4, <3>1, <5>1 DEF Begun, ExcusedNext, Filters
        <5>2. ASSUME NEW y \in Closers, m_camera_index[y] = i, at[y] = "remove" PROVE FALSE
          BY <1>1, <3>1, <4>1, <5>2 DEF RegisteredInv
        <5>3. video_capture[devices[i]] = "live"
          BY <1>1, <1>2, <4>3, <5>1, <5>2, QuietIsLive DEF Registered
        <5>4. index[devices[i]] = i
          BY <1>1, <1>2 DEF HoldInv
        <5> QED
          BY <1>1, <1>5, <3>1, <5>3, <5>4 DEF RegisteredInv
      <4> QED
        BY <4>2, <4>3
    <3> QED
      BY <1>1, <1>2, <1>5, <1>6, <3>1 DEF OwnRegistered
  <2>3. OwnRunning(f)
    BY <1>1, <1>2, <1>3, SameOpened DEF OwnRunning
  <2>4. ASSUME "stat" \notin faults, i \notin overlapped'
        PROVE  video_capture[devices[i]] = "live"
    <3>1. ASSUME NEW g \in Filters, m_camera_index[g] = i PROVE at[g] = "idle"
      BY <1>2, <1>4, <2>4, <3>1 DEF Begun
    <3> QED
      BY <1>1, <1>2, <2>4, <3>1, QuietIsLive DEF Registered, Filters
  <2>5. OwnSound(f)
    BY <1>1, <1>2, <1>5, <1>6, <2>4 DEF OwnSound, Registered
  <2> QED
    BY <2>1, <2>2, <2>3, <2>5 DEF Own
<1> QED
  BY <1>1, <1>7, <1>8, <1>9, <1>10, <1>11, StepKeeps

-----------------------------------------------------------------------------
(* Theorems *)

(* Every step keeps the invariant.                                         *)
LEMMA StepInv ==
  ASSUME IInv, [Next]_vars
  PROVE  IInv'
<1>1. CASE UNCHANGED vars
  <2>1. UNCHANGED <<faults, devices, m_camera, cam, m_camera_index, at, ready, index, m_running,
                    video_capture, process, overlapped, clashed>>
    BY <1>1 DEF vars, pointers, cameraVars, historyVars
  <2>2. Existing' = Existing /\ BeingOpened' = BeingOpened
    BY <2>1 DEF Existing, BeingOpened
  <2>3. TypeOK' /\ MisuseExplained' /\ FreeInv'
    BY <2>1, <2>2 DEF IInv, TypeOK, MisuseExplained, FreeInv
  <2>4. ASSUME process = "alive" PROVE HoldInv' /\ CrossInv' /\ RegisteredInv'
    BY <2>1, <2>4 DEF IInv, AliveInv, HoldInv, CrossInv, RegisteredInv, Excused
  <2>5. ASSUME process = "alive" PROVE RunningInv' /\ AloneInv' /\ SoundInv'
    BY <2>1, <2>2, <2>5 DEF IInv, AliveInv, RunningInv, AloneInv, SoundInv
  <2> QED
    BY <2>1, <2>3, <2>4, <2>5 DEF IInv, AliveInv
<1>2. CASE Next
  <2>1. UNCHANGED faults
    BY <1>2 DEF Next
  <2>2. ASSUME NEW f \in Inputs, InputStep(f) PROVE IInv'
    <3>1. process = "alive"
      BY <2>2 DEF InputStep, FindDevice, MakeDevice, AddDeviceTest, AddDevice, FilterInit, MarkRunning,
                  Open, Drop, Goto
    <3> QED
      BY <2>1, <2>2, <3>1, FindStep, MakeStep, AddTestStep, AddStep, FilterInitStep,
         MarkRunningStep, OpenStep, DropStep DEF InputStep
  <2>3. ASSUME NEW f \in Settings, (\E i \in Indices : GetDevice(f, i)) \/ Use(f) PROVE IInv'
    <3>1. process = "alive"
      BY <2>3 DEF GetDevice, Use, Goto
    <3> QED
      BY <2>1, <2>3, <3>1, GetDeviceStep, UseStep
  <2>4. ASSUME NEW f \in Closers, GetDeviceToClose(f) \/ CloseAcquisition(f) \/ RemoveDevice(f)
        PROVE  IInv'
    <3>1. process = "alive"
      BY <2>4 DEF GetDeviceToClose, CloseAcquisition, RemoveDevice, Goto
    <3> QED
      BY <2>1, <2>4, <3>1, GetDeviceToCloseStep, CloseStep, RemoveStep
  <2> QED
    BY <1>2, <2>2, <2>3, <2>4 DEF Next
<1> QED
  BY <1>1, <1>2

(* IInv holds in every state: what the statements of the filters of        *)
(* sources/main.cpp do to the shared cameras between them.                 *)
THEOREM Invariance == Spec => []IInv
<1>1. Init => IInv
  BY InitInv
<1>2. IInv /\ [Next]_vars => IInv'
  BY StepInv
<1> QED
  BY <1>1, <1>2, PTL DEF Spec

(* Type correctness: a camera has an index as long as a shared_ptr refers  *)
(* to it, and an Invoke holds one only while it runs.                      *)
THEOREM TypeCorrect == Spec => []TypeOK
<1>1. IInv => TypeOK
  BY DEF IInv
<1> QED
  BY <1>1, Invariance, PTL

(* However many filters of however many indices run at once, and however   *)
(* their Inits cross in get_or_make_device and add_device: a camera that   *)
(* has the device is registered, or the start of the registered one is     *)
(* still under way; unless a CloseAcquisition ran during an Init of its    *)
(* index, or a device node was missing while calls overlapped.             *)
THEOREM LiveRegistered == Spec => []LiveIsRegistered
<1>1. ASSUME IInv PROVE LiveIsRegistered
  <2>1. SUFFICES ASSUME NEW k \in Cameras, process = "alive", video_capture[k] = "live",
                        devices[index[k]] # k, ~Excused(index[k]),
                        \A f \in Inputs : m_camera[f] = devices[index[k]] => at[f] \notin Registered
                 PROVE  FALSE
    BY DEF LiveIsRegistered, Excused, Registered
  <2> DEFINE i == index[k]
  <2>2. TypeOK /\ FreeInv /\ HoldInv /\ RegisteredInv /\ SoundInv
    BY <1>1, <2>1 DEF IInv, AliveInv
  <2>3. i \in Indices
    BY <2>1, <2>2 DEF FreeInv, TypeOK
  <2>4. devices[i] # None /\ "stat" \notin faults
    BY <2>1, <2>2 DEF RegisteredInv, Excused
  <2>5. ASSUME NEW x \in Closers, m_camera_index[x] = i, at[x] = "remove" PROVE FALSE
    BY <2>1, <2>2, <2>5 DEF RegisteredInv
  <2>6. video_capture[devices[i]] = "live"
    BY <2>1, <2>2, <2>3, <2>4, <2>5 DEF SoundInv
  <2>7. devices[i] \in Cameras /\ index[devices[i]] = i
    <3>1. devices[i] \in Cameras
      BY <2>2, <2>3, <2>4, HoldersTyped DEF Holders
    <3> QED
      BY <2>2, <2>3, <2>4, <3>1 DEF HoldInv
  <2> QED
    BY <2>1, <2>2, <2>6, <2>7 DEF RegisteredInv
<1> QED
  BY <1>1, Invariance, PTL

(* A filter whose Init returned INIT_OK has a camera of its index that has *)
(* been opened, or is being opened by another filter's Init.               *)
THEOREM ReadyCamera == Spec => []ReadyHasCamera
<1>1. ASSUME IInv PROVE ReadyHasCamera
  <2>1. SUFFICES ASSUME NEW f \in ready, process = "alive"
                 PROVE  /\ m_camera[f] # None /\ index[m_camera[f]] = m_camera_index[f]
                        /\ \/ video_capture[m_camera[f]] # "unset" \/ "stat" \in faults
                           \/ \E g \in Inputs \ {f} : m_camera[g] = m_camera[f] /\ at[g] = "open"
    BY DEF ReadyHasCamera
  <2>2. TypeOK /\ HoldInv /\ RunningInv
    BY <1>1, <2>1 DEF IInv, AliveInv
  <2>3. f \in Inputs /\ m_camera[f] # None /\ index[m_camera[f]] = m_camera_index[f] /\ at[f] = "idle"
    BY <2>1, <2>2 DEF TypeOK, HoldInv
  <2> QED
    BY <2>1, <2>2, <2>3 DEF RunningInv, BeingOpened
<1> QED
  BY <1>1, Invariance, PTL

(* What the Set and Get filters find is open when no call for its index is *)
(* under way, whatever calls have crossed, if no device node was missing.  *)
THEOREM FoundOpen == Spec => []FoundIsOpen
<1>1. ASSUME IInv PROVE FoundIsOpen
  <2>1. SUFFICES ASSUME NEW i \in Indices, process = "alive", "stat" \notin faults,
                        \A f \in Filters : m_camera_index[f] = i => at[f] = "idle",
                        devices[i] # None
                 PROVE  video_capture[devices[i]] = "live"
    BY DEF FoundIsOpen
  <2>2. TypeOK /\ HoldInv /\ SoundInv
    BY <1>1, <2>1 DEF IInv, AliveInv
  <2> QED
    BY <2>1, <2>2, QuietIsLive DEF Registered, Filters
<1> QED
  BY <1>1, Invariance, PTL

(* No order of the filters makes the program use a pointer that was never  *)
(* set, or a null one, as long as devices can be opened and calls for one  *)
(* index do not overlap.                                                   *)
THEOREM MisusesExplained == Spec => []MisuseExplained
<1>1. IInv => MisuseExplained
  BY DEF IInv
<1> QED
  BY <1>1, Invariance, PTL

-----------------------------------------------------------------------------
(* Closed cameras *)

(* On an index whose calls have not overlapped, nobody but the             *)
(* CloseAcquisition that closed it can reach a closed camera through the   *)
(* registry, and no filter is about to register one.                       *)
ClosedInv ==
  process = "alive" =>
    /\ \A f \in Inputs :
         at[f] \in {"add", "assign"} /\ m_camera_index[f] \notin overlapped
           => video_capture[m_camera[f]] # "deleted"
    /\ \A f \in Filters :
         at[f] \in {"use", "close"} /\ m_camera_index[f] \notin overlapped
           => video_capture[cam[f]] # "deleted"
    /\ \A i \in Indices \ overlapped :
         devices[i] # None /\ video_capture[devices[i]] = "deleted" =>
           \E x \in Closers : at[x] = "remove" /\ m_camera_index[x] = i

(* What the filter that takes a step has to show for it to be kept.        *)
OwnClosed(f) ==
  /\ f \in Inputs /\ at'[f] \in {"add", "assign"} /\ m_camera_index'[f] \notin overlapped'
       => video_capture'[m_camera'[f]] # "deleted"
  /\ at'[f] \in {"use", "close"} /\ m_camera_index'[f] \notin overlapped'
       => video_capture'[cam'[f]] # "deleted"
  /\ \A i \in Indices \ overlapped' :
       devices'[i] # None /\ video_capture'[devices'[i]] = "deleted" =>
         \/ at'[f] = "remove" /\ m_camera_index'[f] = i /\ f \in Closers
         \/ /\ devices'[i] = devices[i] /\ video_capture[devices[i]] = "deleted"
            /\ at[f] # "remove" \/ m_camera_index[f] # i

(* What a step leaves alone that closes no camera of another filter.       *)
Undisturbed(f) ==
  /\ overlapped \subseteq overlapped'
  /\ \A g \in Filters \ {f} :
       at'[g] = at[g] /\ cam'[g] = cam[g] /\ m_camera_index'[g] = m_camera_index[g]
  /\ \A g \in Inputs \ {f} : m_camera'[g] = m_camera[g]
  /\ \A k \in Cameras :
       video_capture'[k] = "deleted" =>
         video_capture[k] = "deleted" \/ (cam[f] = k /\ at[f] = "close")

LEMMA ClosedKept ==
  ASSUME TypeOK, AliveInv, ClosedInv, process = "alive", NEW f \in Filters,
         Undisturbed(f), OwnClosed(f)
  PROVE  ClosedInv'
<1>1. HoldInv /\ CrossInv
  BY DEF AliveInv
<1>2. Inputs \subseteq Filters /\ Closers \subseteq Filters
  BY DEF Filters
<1>3. ASSUME NEW g \in Filters \ {f}, NEW k \in Cameras, index[k] = m_camera_index[g],
             at[g] # "idle", m_camera_index[g] \notin overlapped, video_capture[k] # "deleted"
      PROVE  video_capture'[k] # "deleted"
  <2>1. ASSUME cam[f] = k, at[f] = "close" PROVE FALSE
    <3>1. cam[f] # None
      BY <2>1, RegistryAssumption
    <3>2. index[k] = m_camera_index[f]
      BY <1>1, <2>1, <3>1 DEF HoldInv
    <3> QED
      BY <1>1, <1>3, <2>1, <3>2 DEF CrossInv
  <2> QED
    BY <1>3, <2>1 DEF Undisturbed
<1>4. ASSUME NEW g \in Inputs, at'[g] \in {"add", "assign"}, m_camera_index'[g] \notin overlapped'
      PROVE  video_capture'[m_camera'[g]] # "deleted"
  <2>1. CASE g = f
    BY <1>4, <2>1 DEF OwnClosed
  <2>2. CASE g # f
    <3>1. /\ at[g] \in {"add", "assign"} /\ m_camera'[g] = m_camera[g]
          /\ m_camera_index[g] \notin overlapped /\ g \in Filters \ {f}
      BY <1>2, <1>4, <2>2 DEF Undisturbed
    <3>2. m_camera[g] \in Cameras /\ index[m_camera[g]] = m_camera_index[g]
      BY <1>1, <3>1 DEF HoldInv, TypeOK
    <3>3. video_capture[m_camera[g]] # "deleted"
      BY <3>1 DEF ClosedInv
    <3> QED
      BY <1>3, <3>1, <3>2, <3>3
  <2> QED
    BY <2>1, <2>2
<1>5. ASSUME NEW g \in Filters, at'[g] \in {"use", "close"}, m_camera_index'[g] \notin overlapped'
      PROVE  video_capture'[cam'[g]] # "deleted"
  <2>1. CASE g = f
    BY <1>5, <2>1 DEF OwnClosed
  <2>2. CASE g # f
    <3>1. /\ at[g] \in {"use", "close"} /\ cam'[g] = cam[g]
          /\ m_camera_index[g] \notin overlapped /\ g \in Filters \ {f}
      BY <1>5, <2>2 DEF Undisturbed
    <3>2. cam[g] \in Cameras /\ cam[g] # None
      <4>1. cam[g] # None
        BY <3>1 DEF TypeOK
      <4> QED
        BY <3>1, <4>1, HoldersTyped DEF Holders
    <3>3. index[cam[g]] = m_camera_index[g]
      BY <1>1, <3>1, <3>2 DEF HoldInv
    <3>4. video_capture[cam[g]] # "deleted"
      BY <3>1 DEF ClosedInv
    <3> QED
      BY <1>3, <3>1, <3>2, <3>3, <3>4
  <2> QED
    BY <2>1, <2>2
<1>6. ASSUME NEW i \in Indices \ overlapped', devices'[i] # None,
             video_capture'[devices'[i]] = "deleted"
      PROVE  \E x \in Closers : at'[x] = "remove" /\ m_camera_index'[x] = i
  <2>1. CASE at'[f] = "remove" /\ m_camera_index'[f] = i /\ f \in Closers
    BY <2>1
  <2>2. CASE devices'[i] = devices[i] /\ (at[f] # "remove" \/ m_camera_index[f] # i)
            /\ video_capture[devices[i]] = "deleted"
    <3>1. i \notin overlapped
      BY <1>6 DEF Undisturbed
    <3>2. PICK x \in Closers : at[x] = "remove" /\ m_camera_index[x] = i
      BY <1>6, <2>2, <3>1 DEF ClosedInv
    <3>3. x \in Filters \ {f}
      BY <1>2, <2>2, <3>2
    <3> QED
      BY <3>2, <3>3 DEF Undisturbed
  <2> QED
    BY <1>6, <2>1, <2>2 DEF OwnClosed
<1> QED
  BY <1>4, <1>5, <1>6 DEF ClosedInv

(* Letting pointers go closes nothing that stays.                          *)
LEMMA LetGoCloses ==
  ASSUME TypeOK, NEW newIndex, LetGo(newIndex)
  PROVE  \A k \in Cameras : video_capture'[k] = "deleted" => video_capture[k] = "deleted"
  BY DEF TypeOK, LetGo

(* A step that leaves the registry alone, and all that is in it open.      *)
LEMMA SameDevices ==
  ASSUME TypeOK, NEW f \in Filters, at[f] # "remove", UNCHANGED devices,
         \A k \in Cameras : video_capture'[k] = "deleted" => video_capture[k] = "deleted",
         NEW i \in Indices, devices'[i] # None, video_capture'[devices'[i]] = "deleted"
  PROVE  /\ devices'[i] = devices[i] /\ video_capture[devices[i]] = "deleted"
         /\ at[f] # "remove" \/ m_camera_index[f] # i
<1>1. devices[i] \in Cameras
  BY DEF TypeOK
<1> QED
  BY <1>1

(* The steps of an Init, or the end of an input filter.                    *)
LEMMA ClosedInput ==
  ASSUME TypeOK, FreeInv, AliveInv, ClosedInv, process = "alive", process' = "alive",
         NEW f \in Inputs, InputStep(f)
  PROVE  ClosedInv'
<1>1. f \in Filters /\ f \notin Closers /\ at[f] \notin {"use", "close", "remove"} /\ HoldInv
  BY RegistryAssumption DEF Filters, AliveInv, HoldInv, InInit
<1>2. ASSUME NEW i \in Indices, FindDevice(f, i)
      PROVE  Undisturbed(f) /\ OwnClosed(f)
  <2>1. /\ at' = [at EXCEPT ![f] = "init"] /\ m_camera_index' = [m_camera_index EXCEPT ![f] = i]
        /\ m_camera' = [m_camera EXCEPT ![f] = devices[i]] /\ Begin(f, i)
        /\ UNCHANGED <<devices, cam>> /\ LetGo(index)
    BY <1>2 DEF FindDevice, Goto
  <2>2. at'[f] = "init" /\ overlapped \subseteq overlapped'
    BY <1>1, <2>1, BeginFacts DEF TypeOK, Begun
  <2>3. Undisturbed(f)
    BY <2>1, <2>2, LetGoCloses DEF Undisturbed, TypeOK
  <2> QED
    BY <1>1, <2>1, <2>2, <2>3, LetGoCloses, SameDevices DEF OwnClosed
<1>3. ASSUME NEW i \in Indices, MakeDevice(f, i)
      PROVE  Undisturbed(f) /\ OwnClosed(f)
  <2>1. PICK k \in Cameras \ Existing :
          m_camera' = [m_camera EXCEPT ![f] = k] /\ LetGo([index EXCEPT ![k] = i])
    BY <1>3 DEF MakeDevice
  <2>2. /\ at' = [at EXCEPT ![f] = "add"] /\ m_camera_index' = [m_camera_index EXCEPT ![f] = i]
        /\ Begin(f, i) /\ UNCHANGED <<devices, cam>>
    BY <1>3 DEF MakeDevice, Goto
  <2>3. at'[f] = "add" /\ m_camera'[f] = k /\ overlapped \subseteq overlapped'
    BY <1>1, <2>1, <2>2, BeginFacts DEF TypeOK, Begun
  <2>4. Undisturbed(f)
    BY <2>1, <2>2, <2>3, LetGoCloses DEF Undisturbed, TypeOK
  <2>5. video_capture'[k] # "deleted"
    BY <2>1, LetGoCloses DEF FreeInv
  <2> QED
    BY <1>1, <2>1, <2>2, <2>3, <2>4, <2>5, LetGoCloses, SameDevices DEF OwnClosed
<1>4. ASSUME AddDevice(f)
      PROVE  Undisturbed(f) /\ OwnClosed(f)
  <2> DEFINE i == m_camera_index[f]
  <2>1. /\ at[f] = "assign" /\ at' = [at EXCEPT ![f] = "init"]
        /\ devices' = [devices EXCEPT ![i] = m_camera[f]] /\ LetGo(index)
        /\ UNCHANGED <<m_camera, cam, m_camera_index, overlapped>>
    BY <1>4 DEF AddDevice, Goto, historyVars
  <2>2. at'[f] = "init"
    BY <1>1, <2>1 DEF TypeOK
  <2>3. Undisturbed(f)
    BY <2>1, LetGoCloses DEF Undisturbed, TypeOK
  <2>4. ASSUME NEW j \in Indices \ overlapped', devices'[j] # None,
               video_capture'[devices'[j]] = "deleted"
        PROVE  devices'[j] = devices[j] /\ video_capture[devices[j]] = "deleted"
    <3>1. devices'[j] \in Cameras /\ m_camera[f] \in Cameras
      <4>1. m_camera[f] # None
        BY <1>1, <2>1 DEF HoldInv
      <4> QED
        BY <2>1, <2>4, <4>1 DEF TypeOK
    <3>2. video_capture[devices'[j]] = "deleted"
      BY <2>1, <2>4, <3>1, LetGoCloses
    <3>3. CASE j = i
      BY <2>1, <2>4, <3>2, <3>3 DEF ClosedInv, TypeOK
    <3>4. CASE j # i
      BY <2>1, <3>2, <3>4 DEF TypeOK
    <3> QED
      BY <3>3, <3>4
  <2> QED
    BY <1>1, <2>1, <2>2, <2>3, <2>4 DEF OwnClosed
<1>7. ASSUME AddDeviceTest(f)
      PROVE  Undisturbed(f) /\ OwnClosed(f)
  <2>1. /\ at[f] = "add" /\ at' = [at EXCEPT ![f] = at'[f]] /\ at'[f] \in {"assign", "idle"}
        /\ UNCHANGED <<devices, m_camera, cam, m_camera_index, video_capture, overlapped>>
    BY <1>1, <1>7 DEF AddDeviceTest, Goto, TypeOK, pointers, cameraVars, historyVars
  <2>2. Undisturbed(f)
    BY <2>1 DEF Undisturbed, TypeOK
  <2>3. m_camera_index[f] \notin overlapped => video_capture[m_camera[f]] # "deleted"
    BY <2>1 DEF ClosedInv
  <2> QED
    BY <1>1, <2>1, <2>2, <2>3, SameDevices DEF OwnClosed
<1>5. ASSUME FilterInit(f) \/ MarkRunning(f) \/ Open(f)
      PROVE  Undisturbed(f) /\ OwnClosed(f)
  <2>1. /\ at' = [at EXCEPT ![f] = at'[f]] /\ at'[f] \in {"start", "open", "idle"}
        /\ UNCHANGED <<devices, m_camera, cam, m_camera_index, overlapped>>
        /\ \A k \in Cameras : video_capture'[k] = "deleted" => video_capture[k] = "deleted"
    <3>1. CASE FilterInit(f)
      BY <1>1, <3>1 DEF FilterInit, Goto, TypeOK, pointers, cameraVars, historyVars
    <3>2. CASE MarkRunning(f)
      BY <1>1, <3>2 DEF MarkRunning, Goto, TypeOK, pointers, historyVars
    <3>3. CASE Open(f)
      BY <1>1, <3>3 DEF Open, Goto, TypeOK, pointers, historyVars
    <3> QED
      BY <1>5, <3>1, <3>2, <3>3
  <2> QED
    BY <1>1, <2>1, SameDevices DEF Undisturbed, OwnClosed, TypeOK
<1>6. ASSUME Drop(f)
      PROVE  Undisturbed(f) /\ OwnClosed(f)
  <2>1. /\ at[f] = "idle" /\ at' = [at EXCEPT ![f] = "idle"]
        /\ m_camera' = [m_camera EXCEPT ![f] = None]
        /\ UNCHANGED <<devices, cam, m_camera_index, overlapped>> /\ LetGo(index)
    BY <1>6 DEF Drop, Goto, historyVars
  <2>2. at'[f] = "idle"
    BY <1>1, <2>1 DEF TypeOK
  <2>3. Undisturbed(f)
    BY <2>1, LetGoCloses DEF Undisturbed, TypeOK
  <2> QED
    BY <1>1, <2>1, <2>2, <2>3, LetGoCloses, SameDevices DEF OwnClosed
<1> QED
  BY <1>1, <1>2, <1>3, <1>4, <1>5, <1>6, <1>7, ClosedKept DEF InputStep

(* The steps of a Set or Get filter.                                       *)
LEMMA ClosedSetting ==
  ASSUME TypeOK, AliveInv, ClosedInv, process = "alive", process' = "alive",
         NEW f \in Settings, (\E i \in Indices : GetDevice(f, i)) \/ Use(f)
  PROVE  ClosedInv'
<1>1. /\ f \in Filters /\ f \notin Closers /\ f \notin Inputs
      /\ at[f] \notin {"close", "remove"} /\ Closers \subseteq Filters
  BY RegistryAssumption DEF Filters, AliveInv, HoldInv
<1>2. ASSUME NEW i \in Indices, GetDevice(f, i), cam' = [cam EXCEPT ![f] = devices[i]],
             devices[i] # None, Goto(f, "idle", "use"), Begin(f, i)
      PROVE  Undisturbed(f) /\ OwnClosed(f)
  <2>1. /\ at' = [at EXCEPT ![f] = "use"] /\ m_camera_index' = [m_camera_index EXCEPT ![f] = i]
        /\ UNCHANGED <<devices, m_camera, video_capture>>
    BY <1>2 DEF GetDevice, Goto, cameraVars
  <2>2. Begun(f, i)
    BY <1>1, <1>2, BeginFacts
  <2>3. Undisturbed(f)
    BY <1>2, <2>1, <2>2 DEF Undisturbed, TypeOK, Begun
  <2>4. i \notin overlapped' => video_capture[devices[i]] # "deleted"
    BY <1>1, <1>2, <2>2 DEF ClosedInv, Begun
  <2>5. cam'[f] = devices[i] /\ m_camera_index'[f] = i
    BY <1>1, <1>2, <2>1 DEF TypeOK
  <2> QED
    BY <1>1, <2>1, <2>3, <2>4, <2>5, SameDevices DEF OwnClosed
<1>3. ASSUME NEW i \in Indices, GetDevice(f, i), UNCHANGED <<cam, historyVars>>,
             Goto(f, "idle", "idle")
      PROVE  Undisturbed(f) /\ OwnClosed(f)
  <2>1. /\ at' = [at EXCEPT ![f] = "idle"] /\ m_camera_index' = [m_camera_index EXCEPT ![f] = i]
        /\ UNCHANGED <<devices, m_camera, cam, video_capture, overlapped>>
    BY <1>3 DEF GetDevice, Goto, cameraVars, historyVars
  <2>2. at'[f] = "idle"
    BY <1>1, <2>1 DEF TypeOK
  <2>3. Undisturbed(f)
    BY <2>1 DEF Undisturbed, TypeOK
  <2> QED
    BY <1>1, <2>1, <2>2, <2>3, SameDevices DEF OwnClosed
<1>4. ASSUME Use(f)
      PROVE  Undisturbed(f) /\ OwnClosed(f)
  <2>1. /\ at' = [at EXCEPT ![f] = "idle"] /\ cam' = [cam EXCEPT ![f] = None] /\ LetGo(index)
        /\ UNCHANGED <<devices, m_camera, m_camera_index, overlapped>>
    BY <1>4 DEF Use, Goto, Misuse, historyVars
  <2>2. at'[f] = "idle"
    BY <1>1, <2>1 DEF TypeOK
  <2>3. Undisturbed(f)
    BY <2>1, LetGoCloses DEF Undisturbed, TypeOK
  <2> QED
    BY <1>1, <2>1, <2>2, <2>3, LetGoCloses, SameDevices DEF OwnClosed
<1>5. ASSUME NEW i \in Indices, GetDevice(f, i)
      PROVE  Undisturbed(f) /\ OwnClosed(f)
  BY <1>2, <1>3, <1>5 DEF GetDevice
<1> QED
  BY <1>1, <1>4, <1>5, ClosedKept

(* The steps of a CloseAcquisition.                                        *)
LEMMA ClosedCloser ==
  ASSUME TypeOK, AliveInv, ClosedInv, process = "alive", process' = "alive",
         NEW f \in Closers, GetDeviceToClose(f) \/ CloseAcquisition(f) \/ RemoveDevice(f)
  PROVE  ClosedInv'
<1> DEFINE i == m_camera_index[f]
<1>1. f \in Filters /\ f \notin Inputs /\ Closers \subseteq Filters /\ i \in Indices /\ HoldInv
  BY RegistryAssumption DEF Filters, AliveInv, HoldInv
<1>2. ASSUME GetDeviceToClose(f)
      PROVE  Undisturbed(f) /\ OwnClosed(f)
  <2>1. /\ at[f] = "idle" /\ at' = [at EXCEPT ![f] = "close"]
        /\ devices[i] # None /\ cam' = [cam EXCEPT ![f] = devices[i]] /\ Begin(f, i)
        /\ UNCHANGED <<devices, m_camera, m_camera_index, video_capture>>
    BY <1>2 DEF GetDeviceToClose, Goto, cameraVars
  <2>2. Begun(f, i)
    BY <1>1, <2>1, BeginFacts
  <2>3. Undisturbed(f)
    BY <2>1, <2>2 DEF Undisturbed, TypeOK, Begun
  <2>4. i \notin overlapped' => video_capture[devices[i]] # "deleted"
    <3>1. ASSUME NEW x \in Closers, at[x] = "remove", m_camera_index[x] = i, i \notin overlapped'
          PROVE  FALSE
      BY <1>1, <2>1, <2>2, <3>1 DEF Begun
    <3> QED
      BY <1>1, <2>1, <2>2, <3>1 DEF ClosedInv, Begun
  <2>5. cam'[f] = devices[i] /\ m_camera_index'[f] = i
    BY <1>1, <2>1 DEF TypeOK
  <2> QED
    BY <1>1, <2>1, <2>3, <2>4, <2>5, SameDevices DEF OwnClosed
<1>3. ASSUME CloseAcquisition(f)
      PROVE  Undisturbed(f) /\ OwnClosed(f)
  <2> DEFINE k == cam[f]
  <2>1. /\ at[f] = "close" /\ at' = [at EXCEPT ![f] = "remove"]
        /\ video_capture' = [video_capture EXCEPT ![k] = IF @ = "live" THEN "deleted" ELSE @]
        /\ UNCHANGED <<devices, m_camera, cam, m_camera_index, overlapped>>
    BY <1>3 DEF CloseAcquisition, Goto, pointers, historyVars
  <2>2. at'[f] = "remove" /\ k \in Cameras /\ k # None
    <3>1. at'[f] = "remove" /\ k # None
      BY <1>1, <2>1 DEF TypeOK
    <3> QED
      BY <1>1, <3>1, HoldersTyped DEF Holders
  <2>3. index[k] = i
    BY <1>1, <2>2 DEF HoldInv
  <2>4. Undisturbed(f)
    BY <2>1 DEF Undisturbed, TypeOK
  <2>5. ASSUME NEW j \in Indices \ overlapped', devices'[j] # None,
               video_capture'[devices'[j]] = "deleted", m_camera_index'[f] # j
        PROVE  devices'[j] = devices[j] /\ video_capture[devices[j]] = "deleted"
    <3>1. devices[j] \in Cameras /\ index[devices[j]] = j
      BY <1>1, <2>1, <2>5 DEF TypeOK, HoldInv
    <3>2. devices[j] # k
      BY <2>1, <2>3, <2>5, <3>1
    <3> QED
      BY <2>1, <2>5, <3>1, <3>2 DEF TypeOK
  <2> QED
    BY <1>1, <2>1, <2>2, <2>4, <2>5 DEF OwnClosed
<1>4. ASSUME RemoveDevice(f)
      PROVE  Undisturbed(f) /\ OwnClosed(f)
  <2>1. /\ at[f] = "remove" /\ at' = [at EXCEPT ![f] = "idle"]
        /\ devices' = [devices EXCEPT ![i] = None] /\ cam' = [cam EXCEPT ![f] = None]
        /\ UNCHANGED <<m_camera, m_camera_index, overlapped>> /\ LetGo(index)
    BY <1>4 DEF RemoveDevice, Goto, historyVars
  <2>2. at'[f] = "idle"
    BY <1>1, <2>1 DEF TypeOK
  <2>3. Undisturbed(f)
    BY <2>1, LetGoCloses DEF Undisturbed, TypeOK
  <2>4. ASSUME NEW j \in Indices \ overlapped', devices'[j] # None,
               video_capture'[devices'[j]] = "deleted"
        PROVE  devices'[j] = devices[j] /\ video_capture[devices[j]] = "deleted" /\ i # j
    <3>1. j # i /\ devices'[j] = devices[j] /\ devices[j] \in Cameras
      BY <1>1, <2>1, <2>4 DEF TypeOK
    <3> QED
      BY <2>1, <2>4, <3>1, LetGoCloses
  <2> QED
    BY <1>1, <2>1, <2>2, <2>3, <2>4 DEF OwnClosed
<1> QED
  BY <1>1, <1>2, <1>3, <1>4, ClosedKept

LEMMA ClosedStep ==
  ASSUME IInv, ClosedInv, [Next]_vars
  PROVE  ClosedInv'
<1>1. SUFFICES ASSUME process' = "alive" PROVE ClosedInv'
  BY DEF ClosedInv
<1>2. CASE UNCHANGED vars
  BY <1>2 DEF vars, pointers, cameraVars, historyVars, ClosedInv
<1>3. CASE Next
  <2>1. process = "alive"
    BY <1>3 DEF Next, InputStep, FindDevice, MakeDevice, AddDeviceTest, AddDevice, FilterInit,
                MarkRunning, Open, Drop, GetDevice, Use, GetDeviceToClose, CloseAcquisition, RemoveDevice, Goto
  <2>2. TypeOK /\ FreeInv /\ AliveInv
    BY <2>1 DEF IInv
  <2> QED
    BY <1>1, <1>3, <2>1, <2>2, ClosedInput, ClosedSetting, ClosedCloser DEF Next
<1> QED
  BY <1>2, <1>3

(* A step that lets pointers go and frees memory twice destroys a camera   *)
(* that was closed.                                                        *)
LEMMA LetGoFreed ==
  ASSUME process = "alive", process' = "freed pointer", NEW newIndex, LetGo(newIndex)
  PROVE  \E k \in Existing \ Existing' : video_capture[k] = "deleted"
  BY DEF LetGo, Delete, Misuse

(* Whatever fails, and however many filters there are: as long as no two   *)
(* calls for one index overlap, only the destructor of a camera that       *)
(* CloseAcquisition has closed meets freed memory.                         *)
THEOREM ClosedUnreachable == Spec => FreedByDestructor
<1>1. ASSUME IInv, ClosedInv, [Next]_vars,
             process # "freed pointer", process' = "freed pointer", overlapped' = {}
      PROVE  \E k \in Existing \ Existing' : video_capture[k] = "deleted"
  <2>1. CASE UNCHANGED vars
    BY <1>1, <2>1 DEF vars
  <2>2. CASE Next
    <3>1. process = "alive"
      BY <2>2 DEF Next, InputStep, FindDevice, MakeDevice, AddDeviceTest, AddDevice, FilterInit,
                  MarkRunning, Open, Drop, GetDevice, Use, GetDeviceToClose, CloseAcquisition, RemoveDevice, Goto
    <3>2. ASSUME NEW f \in Inputs, InputStep(f)
          PROVE  \E n : LetGo(n)
      <4>1. ~(AddDeviceTest(f) \/ FilterInit(f) \/ MarkRunning(f) \/ Open(f))
        BY <1>1, <3>1 DEF AddDeviceTest, FilterInit, MarkRunning, Open
      <4>2. CASE \E i \in Indices : FindDevice(f, i) \/ MakeDevice(f, i)
        BY <4>2 DEF FindDevice, MakeDevice
      <4>3. CASE AddDevice(f) \/ Drop(f)
        BY <4>3 DEF AddDevice, Drop
      <4> QED
        BY <3>2, <4>1, <4>2, <4>3 DEF InputStep
    <3>3. ASSUME NEW f \in Filters, at[f] \in {"use", "close"}, overlapped = {}
          PROVE  video_capture[cam[f]] # "deleted"
      BY <1>1, <3>1, <3>3 DEF ClosedInv
    <3>4. ASSUME NEW f \in Settings, (\E i \in Indices : GetDevice(f, i)) \/ Use(f)
          PROVE  \E n : LetGo(n)
      <4>1. Use(f) /\ f \in Filters
        BY <1>1, <3>1, <3>4 DEF GetDevice, Filters
      <4>2. at[f] = "use" /\ overlapped = {}
        BY <1>1, <4>1 DEF Use, Goto, historyVars
      <4> QED
        BY <1>1, <3>3, <4>1, <4>2 DEF Use, Misuse
    <3>5. ASSUME NEW f \in Closers, GetDeviceToClose(f) \/ CloseAcquisition(f) \/ RemoveDevice(f)
          PROVE  \E n : LetGo(n)
      <4>1. CASE CloseAcquisition(f)
        <5>1. at[f] = "close" /\ overlapped = {} /\ f \in Filters /\ Delete(cam[f])
          BY <1>1, <4>1 DEF CloseAcquisition, Goto, historyVars, Filters
        <5> QED
          BY <1>1, <3>1, <3>3, <5>1 DEF Delete, Misuse
      <4>2. CASE RemoveDevice(f)
        BY <4>2 DEF RemoveDevice
      <4> QED
        BY <1>1, <3>1, <3>5, <4>1, <4>2 DEF GetDeviceToClose
    <3> QED
      BY <1>1, <2>2, <3>1, <3>2, <3>4, <3>5, LetGoFreed DEF Next
  <2> QED
    BY <1>1, <2>1, <2>2
<1>2. Init => ClosedInv
  BY DEF Init, ClosedInv, Filters
<1>3. IInv /\ ClosedInv /\ [Next]_vars => ClosedInv'
  BY ClosedStep
<1>4. IInv /\ ClosedInv /\ [Next]_vars =>
        [(process # "freed pointer" /\ process' = "freed pointer" /\ overlapped' = {}) =>
           \E k \in Existing \ Existing' : video_capture[k] = "deleted"]_vars
  BY <1>1
<1> QED
  BY <1>2, <1>3, <1>4, Invariance, PTL DEF Spec, FreedByDestructor
=============================================================================
