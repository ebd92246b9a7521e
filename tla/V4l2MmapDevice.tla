--------------------------- MODULE V4l2MmapDevice ---------------------------
(***************************************************************************)
(* The buffers of one memory-mapped V4L2 device                            *)
(* (libv4l2cpp/src/V4l2MmapDevice.cpp): start and stop, reads from a       *)
(* capture device, whole and partial writes to an output device, and the   *)
(* driver that owns the buffers in between.                                *)
(*                                                                         *)
(* A buffer is its index.  VIDIOC_QBUF puts it at the end of "incoming",   *)
(* the driver fills it (capture) or sends it out (output) and moves it to  *)
(* "outgoing", VIDIOC_DQBUF takes it from there.  The calls of one device  *)
(* are made by one thread at a time; the driver runs in between.           *)
(***************************************************************************)
EXTENDS Integers, Sequences, FiniteSets, Functions

CONSTANTS
  NbBuffer,    \* V4L2MMAP_NBBUFFER, 5 in the code: the slots of m_buffer
  Grants,      \* how many buffers the driver may grant when asked for NbBuffer
  Length,      \* the length of a buffer
  Sizes,       \* the sizes of the pieces handed to writePartial
  DeviceTypes, \* "capture": the program reads; "output": it writes
  Failing,     \* the ioctls that may fail: "REQBUFS", "mmap", "QBUF", "DQBUF",
               \* "STREAMON", "STREAMOFF"; "mmap" stands for QUERYBUF too
  Leftovers,   \* what the members of a partial write may hold before the first one
  MaxFrames    \* bound of the model: how many buffers the driver finishes

(* The members of struct v4l2_buffer that partial writes use. *)
PartialBuf == [index : Nat, bytesused : Nat, length : Nat]

ASSUME V4l2MmapDeviceAssumption ==
  /\ NbBuffer \in Nat \ {0} /\ Grants \subseteq Nat \ {0}
  /\ Length \in Nat /\ Sizes \subseteq Nat
  /\ DeviceTypes \subseteq {"capture", "output"}
  /\ \A l \in Leftovers : l.inProgress \in BOOLEAN /\ l.buf \in PartialBuf
  /\ MaxFrames \in Nat

VARIABLES
  m_deviceType,
  n_buffers,   \* the slots of m_buffer in use
  mapped,      \* the slots whose mmap succeeded
  granted,     \* the buffers the driver has allocated
  streaming,   \* between STREAMON and STREAMOFF
  incoming, outgoing,        \* the driver's two queues
  content,     \* the number of the frame in each buffer
  frames,      \* how many buffers the driver has finished
  lost,        \* history: the buffers that a QBUF failed to give to the driver
  lastRead,    \* history: the newest frame readInternal copied
  success,     \* history: what the start that mapped the slots has returned
  size,        \* what the last read returned: "none", "bytes" or "error"
  m_partialWriteInProgress,
  m_partialWriteBuf,
  begun,       \* history: the write in progress was begun "now" (since the last
               \* start), "earlier", or "never": nothing initialises the members
  memory       \* "sound", or how an access of m_buffer went wrong

mapping == <<n_buffers, mapped>>
driver  == <<granted, streaming, incoming, outgoing, content, frames>>
partial == <<m_partialWriteInProgress, m_partialWriteBuf, begun>>
vars == <<m_deviceType, mapping, driver, lost, lastRead, success, size, partial, memory>>

NoBuffer == [index |-> 0, bytesused |-> 0, length |-> 0]   \* memset to 0

Init ==
  /\ m_deviceType \in DeviceTypes
  /\ n_buffers = 0 /\ mapped = {}
  /\ granted = 0 /\ streaming = FALSE
  /\ incoming = <<>> /\ outgoing = <<>>
  /\ content = [b \in {} |-> 0] /\ frames = 0
  /\ lost = {} /\ lastRead = 0 /\ success = FALSE /\ size = "none"
  /\ \E l \in Leftovers :
       /\ m_partialWriteInProgress = l.inProgress /\ m_partialWriteBuf = l.buf
       /\ begun = IF l.inProgress THEN "never" ELSE "now"
  /\ memory = "sound"

Buffers(n) == 0..(n - 1)

(* The queue that the buffers S make when they are queued by their index.  *)
InOrder(S) ==
  {q \in [1..Cardinality(S) -> S] :
     /\ Range(q) = S
     /\ \A i, j \in DOMAIN q : i < j => q[i] < q[j]}

(* The program only goes on while it has not left its memory. *)
Running == memory = "sound"

-----------------------------------------------------------------------------
(* start: a failing step is remembered in the result, and the next steps   *)
(* are done all the same: a slot that could not be mapped is queued, and   *)
(* streams, like the others.                                               *)

(* VIDIOC_REQBUFS fails, with no effect: always when the driver streams or *)
(* the program still maps its buffers.                                     *)
Start ==
  /\ Running
  /\ ~streaming /\ mapped = {}
  /\ \E n \in Grants :
       /\ granted' = n /\ n_buffers' = n
       /\ memory' = IF n > NbBuffer THEN "m_buffer overrun" ELSE "sound"
       /\ content' = [b \in Buffers(n) |-> 0]
       /\ \E ok \in IF "mmap" \in Failing THEN SUBSET Buffers(n) ELSE {Buffers(n)} :
            mapped' = ok
       /\ \E ok \in IF "QBUF" \in Failing THEN SUBSET Buffers(n) ELSE {Buffers(n)} :
            /\ incoming' \in InOrder(ok)
            /\ lost' = Buffers(n) \ ok
  /\ outgoing' = <<>>
  /\ streaming' = TRUE \/ ("STREAMON" \in Failing /\ streaming' = FALSE)
  /\ success' = (mapped' = Buffers(granted') /\ lost' = {} /\ streaming')
  /\ begun' = IF m_partialWriteInProgress /\ begun = "now" THEN "earlier" ELSE begun
  /\ UNCHANGED <<m_deviceType, frames, lastRead, size, m_partialWriteInProgress, m_partialWriteBuf>>

(* Faulty: n_buffers not set to 0. *)
StopKeepsCount ==
  /\ Running
  /\ mapped' = {}
  /\ \/ streaming' = FALSE /\ incoming' = <<>> /\ outgoing' = <<>>
     \/ "STREAMOFF" \in Failing /\ UNCHANGED <<streaming, incoming, outgoing>>
  /\ UNCHANGED <<m_deviceType, n_buffers, granted, content, frames, lost,
                 lastRead, success, size, partial, memory>>

(* stop: STREAMOFF takes every buffer away from the driver's queues, the   *)
(* slots are unmapped, the buffers freed, and n_buffers is 0 whatever      *)
(* failed.  While the driver streams it does not free its buffers.         *)
Stop ==
  /\ Running
  /\ n_buffers' = 0 /\ mapped' = {}
  /\ \/ /\ streaming' = FALSE /\ incoming' = <<>> /\ outgoing' = <<>>
        /\ \/ granted' = 0 /\ content' = [b \in {} |-> 0]
           \/ "REQBUFS" \in Failing /\ UNCHANGED <<granted, content>>
     \/ /\ "STREAMOFF" \in Failing /\ streaming
        /\ UNCHANGED <<granted, content, streaming, incoming, outgoing>>
  /\ UNCHANGED <<m_deviceType, frames, lost, lastRead, success, size, partial, memory>>

(* The driver finishes the buffer it was given first. *)
DriverFinishes ==
  /\ Running
  /\ streaming /\ incoming # <<>> /\ frames < MaxFrames
  /\ frames' = frames + 1
  /\ content' = [content EXCEPT ![Head(incoming)] = frames + 1]
  /\ incoming' = Tail(incoming)
  /\ outgoing' = Append(outgoing, Head(incoming))
  /\ UNCHANGED <<m_deviceType, mapping, granted, streaming, lost, lastRead, success, size,
                 partial, memory>>

-----------------------------------------------------------------------------
(* readInternal and writeInternal *)

(* No buffers: the size is 0.  DQBUF fails, also because the driver does   *)
(* not stream or has finished nothing (EAGAIN): -1, but 0 for a read that  *)
(* only had nothing to fetch.                                              *)
NothingDequeued ==
  /\ Running
  /\ \/ n_buffers = 0 /\ size' = "none"
     \/ /\ n_buffers > 0 /\ streaming /\ outgoing = <<>>
        /\ size' = IF m_deviceType = "capture" THEN "none" ELSE "error"
     \/ n_buffers > 0 /\ (~streaming \/ "DQBUF" \in Failing) /\ size' = "error"
  /\ UNCHANGED <<m_deviceType, mapping, driver, lost, lastRead, success, partial, memory>>

(* Faulty: the buffer is given back without having been taken out. *)
TransferInPlace ==
  /\ Running
  /\ n_buffers > 0 /\ streaming /\ outgoing # <<>>
  /\ lastRead' = content[Head(outgoing)]
  /\ incoming' = Append(incoming, Head(outgoing)) /\ size' = "bytes"
  /\ UNCHANGED <<m_deviceType, mapping, granted, streaming, outgoing, content, frames,
                 lost, success, partial, memory>>

(* DQBUF, the copy through the mapping, and QBUF of the same buffer; a     *)
(* buffer whose QBUF fails stays outside both queues.  The driver returns  *)
(* no index of n_buffers or more (BuffersAccounted), so that test of the   *)
(* code always succeeds.                                                   *)
Transfer ==
  LET b == Head(outgoing)
  IN /\ Running
     /\ n_buffers > 0 /\ streaming /\ outgoing # <<>>
     /\ outgoing' = Tail(outgoing)
     /\ lastRead' = IF m_deviceType = "capture" THEN content[b] ELSE lastRead
     /\ memory' = IF b \in mapped THEN "sound" ELSE "unmapped slot"
     /\ \/ incoming' = Append(incoming, b) /\ size' = "bytes" /\ UNCHANGED lost
        \/ "QBUF" \in Failing /\ lost' = lost \cup {b} /\ size' = "error" /\ UNCHANGED incoming
     /\ UNCHANGED <<m_deviceType, mapping, granted, streaming, content, frames, success, partial>>

-----------------------------------------------------------------------------
(* Partial writes *)

StartPartialWrite ==
  /\ Running
  /\ m_deviceType = "output"
  /\ n_buffers > 0 /\ ~m_partialWriteInProgress
  /\ \/ /\ streaming /\ outgoing # <<>>
        /\ outgoing' = Tail(outgoing)
        /\ m_partialWriteBuf' = [index |-> Head(outgoing), bytesused |-> 0, length |-> Length]
        /\ m_partialWriteInProgress' = TRUE
     \/ /\ ~streaming \/ outgoing = <<>> \/ "DQBUF" \in Failing
        /\ m_partialWriteBuf' = NoBuffer
        /\ UNCHANGED <<outgoing, m_partialWriteInProgress>>
  /\ UNCHANGED <<m_deviceType, mapping, granted, streaming, incoming, content, frames,
                 lost, lastRead, success, size, begun, memory>>

(* Faulty: the piece is not cut. *)
WritePartialUncut ==
  /\ Running
  /\ n_buffers > 0 /\ m_partialWriteInProgress
  /\ \E bufferSize \in Sizes :
       m_partialWriteBuf' = [m_partialWriteBuf EXCEPT !.bytesused = @ + bufferSize]
  /\ UNCHANGED <<m_deviceType, mapping, driver, lost, lastRead, success, size,
                 m_partialWriteInProgress, begun, memory>>

(* How the copy of the bytes from .. to - 1 of a slot ends.  The count is  *)
(* an unsigned difference: it is huge when "to" is the smaller one.        *)
CopyInto(slot, from, to) ==
  IF from = to THEN "sound"
  ELSE IF slot \notin mapped THEN "unmapped slot"
  ELSE IF to < from \/ to > Length THEN "past the buffer"
  ELSE "sound"

(* The piece is cut to what still fits, by the length in m_partialWriteBuf *)
(* and not by the slot's.                                                  *)
WritePartial ==
  /\ Running
  /\ m_deviceType = "output"
  /\ n_buffers > 0 /\ m_partialWriteInProgress
  /\ m_partialWriteBuf.index < n_buffers
  /\ \E bufferSize \in Sizes :
       LET used     == m_partialWriteBuf.bytesused
           length   == m_partialWriteBuf.length
           new_size == IF used + bufferSize > length THEN length ELSE used + bufferSize
       IN /\ m_partialWriteBuf' = [m_partialWriteBuf EXCEPT !.bytesused = new_size]
          /\ memory' = CopyInto(m_partialWriteBuf.index, used, new_size)
  /\ UNCHANGED <<m_deviceType, mapping, driver, lost, lastRead, success, size,
                 m_partialWriteInProgress, begun>>

(* Faulty: the buffer is not given back to the driver. *)
EndPartialWriteKeeps ==
  /\ Running
  /\ m_partialWriteInProgress
  /\ m_partialWriteInProgress' = FALSE /\ begun' = "now"
  /\ UNCHANGED <<m_deviceType, mapping, driver, lost, lastRead, success, size, m_partialWriteBuf, memory>>

(* VIDIOC_QBUF refuses a buffer that is already in a queue, and may refuse *)
(* the members that nothing has initialised.                               *)
EndPartialWrite ==
  /\ Running
  /\ m_deviceType = "output"
  /\ m_partialWriteInProgress
  /\ m_partialWriteInProgress' = FALSE /\ begun' = "now"
  /\ LET b == m_partialWriteBuf.index
         refused == b >= granted \/ b \in Range(incoming) \cup Range(outgoing)
     IN \/ n_buffers > 0 /\ ~refused /\ incoming' = Append(incoming, b) /\ UNCHANGED lost
        \/ begun = "never" /\ UNCHANGED <<incoming, lost>>
        \/ /\ n_buffers = 0 \/ refused \/ "QBUF" \in Failing
           /\ lost' = IF n_buffers = 0 \/ refused THEN lost ELSE lost \cup {b}
           /\ UNCHANGED incoming
  /\ UNCHANGED <<m_deviceType, mapping, granted, streaming, outgoing, content, frames,
                 lastRead, success, size, m_partialWriteBuf, memory>>

-----------------------------------------------------------------------------
Next ==
  \/ Start \/ Stop \/ DriverFinishes
  \/ NothingDequeued \/ Transfer
  \/ StartPartialWrite \/ WritePartial \/ EndPartialWrite

Spec == Init /\ [][Next]_vars

-----------------------------------------------------------------------------
(* Properties *)

Queued == Range(incoming) \cup Range(outgoing)

(* The types of the variables. *)
TypeOK ==
  /\ n_buffers \in Nat /\ granted \in Nat /\ mapped \subseteq Buffers(n_buffers)
  /\ m_deviceType \in DeviceTypes
  /\ streaming \in BOOLEAN /\ success \in BOOLEAN /\ lost \subseteq Nat
  /\ incoming \in Seq(Buffers(granted)) /\ outgoing \in Seq(Buffers(granted))
  /\ content \in [Buffers(granted) -> Nat]
  /\ frames \in Nat /\ lastRead \in Nat
  /\ size \in {"none", "bytes", "error"}
  /\ m_partialWriteInProgress \in BOOLEAN
  /\ m_partialWriteBuf \in PartialBuf /\ begun \in {"now", "earlier", "never"}
  /\ memory \in {"sound", "m_buffer overrun", "unmapped slot", "past the buffer"}

(* The frames waiting to be read are newer than all that were read, oldest *)
(* first, across every stop and start: a buffer given back to the driver   *)
(* is not read again until it has been filled again.                       *)
ReadsInOrder ==
  m_deviceType = "capture" =>
    /\ \A i \in 1..Len(outgoing) : content[outgoing[i]] > lastRead
    /\ \A i, j \in 1..Len(outgoing) : i < j => content[outgoing[i]] < content[outgoing[j]]

(* What an access of m_buffer can go wrong by, whatever fails and however  *)
(* starts, stops, reads and writes follow each other.  A copy goes through *)
(* a slot that is mapped unless the start has returned false, so that who  *)
(* heeds its result is safe.  Start writes past the slots only for a       *)
(* driver that grants more buffers than it was asked for.  And a piece is  *)
(* copied past its buffer only for a write that was never begun.           *)
SoundMemory ==
  /\ memory = "unmapped slot"    => ~success
  /\ memory = "m_buffer overrun" => granted > NbBuffer
  /\ memory = "past the buffer"  => begun = "never"

(* No buffer gets lost, but for one whose QBUF fails: each buffer of a     *)
(* device that streams is with the driver or in the partial write.  And    *)
(* the driver has no other buffers than those.                             *)
BuffersAccounted ==
  (streaming /\ n_buffers > 0) =>
    /\ Buffers(n_buffers) \subseteq
         Queued \cup lost \cup (IF m_partialWriteInProgress THEN {m_partialWriteBuf.index} ELSE {})
    /\ Queued \subseteq Buffers(n_buffers)

(* Between startPartialWrite and endPartialWrite the pieces go into a      *)
(* buffer that the driver does not have, and stay inside it.  (A start in  *)
(* between takes the buffer away: the write was begun "earlier".)          *)
PartialWriteOwnsBuffer ==
  (m_partialWriteInProgress /\ begun = "now") =>
    /\ n_buffers > 0 => m_partialWriteBuf.index \notin Queued
    /\ m_partialWriteBuf.bytesused <= Length

(* A capture device is a stream of frames, whatever ioctls fail: until the *)
(* next stop each read copies the frame after the one before, so that none *)
(* is skipped.  (What a read copies counts as read, also when the QBUF     *)
(* after the copy fails and -1 is returned.)                               *)
PendingFrames ==
  IF m_deviceType = "capture" THEN [i \in 1..Len(outgoing) |-> content[outgoing[i]]] ELSE <<>>

Stream == INSTANCE FrameStream
            WITH pending <- PendingFrames,
                 taken <- IF m_deviceType = "capture" THEN frames ELSE 0

ImplementsStream == Stream!Spec
=============================================================================
