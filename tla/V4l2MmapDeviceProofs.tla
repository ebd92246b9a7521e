------------------------ MODULE V4l2MmapDeviceProofs ------------------------
(***************************************************************************)
(* Proofs about V4l2MmapDevice, for any number of buffers, any failing     *)
(* ioctls and any number of frames.                                        *)
(***************************************************************************)
EXTENDS V4l2MmapDevice, FiniteSetTheorems, SequenceTheorems, TLAPS

(* No buffer is twice in the driver's queues.                              *)
Distinct(q) == \A i, j \in 1..Len(q) : i # j => q[i] # q[j]
Once ==
  /\ Distinct(incoming) /\ Distinct(outgoing)
  /\ Range(incoming) \cap Range(outgoing) = {}

(* No frame is newer than the driver's last one, and the finished ones     *)
(* wait in the order of their age.                                         *)
Ordered ==
  /\ \A b \in Buffers(granted) : content[b] <= frames
  /\ lastRead <= frames
  /\ ReadsInOrder

(* The slots in use are the buffers the driver has, and each is accounted  *)
(* for.                                                                    *)
Covered ==
  n_buffers > 0 =>
    /\ n_buffers = granted
    /\ Buffers(n_buffers) \subseteq
         Queued \cup lost \cup (IF m_partialWriteInProgress /\ begun = "now"
                              THEN {m_partialWriteBuf.index} ELSE {})

(* A partial write that was begun has the length of its buffer, and has    *)
(* used no more of it.                                                     *)
Begun ==
  /\ ~m_partialWriteInProgress => begun = "now"
  /\ (m_partialWriteInProgress /\ begun # "never") =>
       m_partialWriteBuf.length = Length /\ m_partialWriteBuf.bytesused <= Length

(* The strengthened invariant. *)
IInv == TypeOK /\ Once /\ Ordered /\ Covered /\ PartialWriteOwnsBuffer /\ Begun

(* While the slots are in use, a start that returned true has mapped them. *)
Mapped == (success /\ n_buffers > 0 => mapped = Buffers(n_buffers)) /\ SoundMemory

-----------------------------------------------------------------------------
(* Lemmas about the driver's queues *)

(* Queueing buffers in the order of their indices: all of them, each once. *)
LEMMA InOrderFacts ==
  ASSUME NEW n \in Nat, NEW S \in SUBSET Buffers(n), NEW q \in InOrder(S)
  PROVE  q \in Seq(Buffers(n)) /\ Range(q) = S /\ Distinct(q)
<1>1. IsFiniteSet(S)
  <2>1. IsFiniteSet(Buffers(n))
    BY FS_Interval DEF Buffers
  <2> QED
    BY <2>1, FS_Subset
<1>2. Cardinality(S) \in Nat
  BY <1>1, FS_CardinalityType
<1>3. q \in [1..Cardinality(S) -> S] /\ Range(q) = S
  BY DEF InOrder
<1>4. q \in Seq(Buffers(n))
  BY <1>2, <1>3
<1>5. ASSUME NEW i \in 1..Len(q), NEW j \in 1..Len(q), i # j
      PROVE  q[i] # q[j]
  <2>1. i \in Int /\ j \in Int /\ q[i] \in S /\ q[j] \in S
    BY <1>2, <1>3
  <2>2. q[i] \in Buffers(n) /\ q[j] \in Buffers(n)
    BY <2>1
  <2>3. q[i] \in Int /\ q[j] \in Int
    BY <2>2 DEF Buffers
  <2>4. (i < j => q[i] < q[j]) /\ (j < i => q[j] < q[i])
    <3>1. i \in DOMAIN q /\ j \in DOMAIN q
      BY <1>4
    <3> QED
      BY <3>1 DEF InOrder
  <2> QED
    BY <1>5, <2>1, <2>3, <2>4
<1> QED
  BY <1>3, <1>4, <1>5 DEF Distinct

(* Taking the first buffer out of a queue.                                 *)
LEMMA TakeFirst ==
  ASSUME NEW S, NEW q \in Seq(S), q # <<>>
  PROVE  /\ Head(q) \in S /\ Head(q) = q[1] /\ Tail(q) \in Seq(S)
         /\ Len(q) \in Nat \ {0} /\ DOMAIN q = 1..Len(q)
         /\ DOMAIN Tail(q) = 1..(Len(q) - 1)
         /\ \A i \in 1..(Len(q) - 1) : Tail(q)[i] = q[i + 1]
         /\ Range(q) = Range(Tail(q)) \cup {Head(q)}
         /\ Distinct(q) => Distinct(Tail(q)) /\ Head(q) \notin Range(Tail(q))
<1>1. /\ Head(q) \in S /\ Head(q) = q[1] /\ Tail(q) \in Seq(S)
      /\ Len(q) \in Nat \ {0} /\ DOMAIN q = 1..Len(q)
      /\ DOMAIN Tail(q) = 1..(Len(q) - 1)
      /\ \A i \in 1..(Len(q) - 1) : Tail(q)[i] = q[i + 1]
  OBVIOUS
<1>2. ASSUME NEW x \in Range(q) PROVE x \in Range(Tail(q)) \cup {Head(q)}
  <2>1. PICK i \in 1..Len(q) : q[i] = x
    BY <1>1 DEF Range
  <2>2. CASE i = 1
    BY <1>1, <2>1, <2>2
  <2>3. CASE i # 1
    <3>1. i - 1 \in DOMAIN Tail(q) /\ Tail(q)[i - 1] = x
      BY <1>1, <2>1, <2>3
    <3> QED
      BY <3>1 DEF Range
  <2> QED
    BY <2>2, <2>3
<1>3. Range(Tail(q)) \cup {Head(q)} \subseteq Range(q)
  BY <1>1 DEF Range
<1>4. ASSUME Distinct(q)
      PROVE  Distinct(Tail(q)) /\ Head(q) \notin Range(Tail(q))
  <2>1. Len(Tail(q)) = Len(q) - 1
    BY <1>1
  <2>2. ASSUME NEW i \in 1..(Len(q) - 1), NEW j \in 1..(Len(q) - 1), i # j
        PROVE  Tail(q)[i] # Tail(q)[j]
    <3>1. i + 1 \in 1..Len(q) /\ j + 1 \in 1..Len(q) /\ i + 1 # j + 1
      BY <1>1, <2>2
    <3>2. q[i + 1] # q[j + 1]
      BY <1>4, <3>1 DEF Distinct
    <3> QED
      BY <1>1, <3>2
  <2>3. ASSUME NEW i \in 1..(Len(q) - 1)
        PROVE  Tail(q)[i] # Head(q)
    <3>1. i + 1 \in 1..Len(q) /\ 1 \in 1..Len(q) /\ i + 1 # 1
      BY <1>1, <2>3
    <3>2. q[i + 1] # q[1]
      BY <1>4, <3>1 DEF Distinct
    <3> QED
      BY <1>1, <3>2
  <2>4. Distinct(Tail(q))
    BY <2>1, <2>2 DEF Distinct
  <2>5. Head(q) \notin Range(Tail(q))
    BY <1>1, <2>3 DEF Range
  <2> QED
    BY <2>4, <2>5
<1> QED
  BY <1>1, <1>2, <1>3, <1>4

(* Putting a buffer at the end of a queue.                                 *)
LEMMA PutLast ==
  ASSUME NEW S, NEW q \in Seq(S), NEW b \in S
  PROVE  /\ Append(q, b) \in Seq(S)
         /\ Len(q) \in Nat /\ DOMAIN q = 1..Len(q)
         /\ DOMAIN Append(q, b) = 1..(Len(q) + 1)
         /\ \A i \in 1..Len(q) : Append(q, b)[i] = q[i]
         /\ Append(q, b)[Len(q) + 1] = b
         /\ Range(Append(q, b)) = Range(q) \cup {b}
         /\ Len(Append(q, b)) = Len(q) + 1
         /\ Distinct(q) /\ b \notin Range(q) => Distinct(Append(q, b))
<1>1. /\ Append(q, b) \in Seq(S)
      /\ Len(q) \in Nat /\ DOMAIN q = 1..Len(q)
      /\ DOMAIN Append(q, b) = 1..(Len(q) + 1)
      /\ \A i \in 1..Len(q) : Append(q, b)[i] = q[i]
      /\ Append(q, b)[Len(q) + 1] = b
  OBVIOUS
<1> DEFINE r == Append(q, b)
<1>2. /\ DOMAIN r = 1..(Len(q) + 1) /\ r[Len(q) + 1] = b /\ Len(r) = Len(q) + 1
      /\ \A i \in 1..Len(q) : r[i] = q[i]
  BY <1>1
<1> HIDE DEF r
<1>3. Range(r) = Range(q) \cup {b}
  BY <1>1, <1>2 DEF Range
<1>4. ASSUME Distinct(q), b \notin Range(q) PROVE Distinct(r)
  <2>1. \A i \in 1..Len(q) : q[i] # b
    BY <1>1, <1>4 DEF Range
  <2>2. ASSUME NEW i \in 1..(Len(q) + 1), NEW j \in 1..(Len(q) + 1), i # j
        PROVE  r[i] # r[j]
    <3>1. CASE i \in 1..Len(q) /\ j \in 1..Len(q)
      BY <1>2, <1>4, <2>2, <3>1 DEF Distinct
    <3>2. CASE i = Len(q) + 1 /\ j \in 1..Len(q)
      BY <1>2, <2>1, <3>2
    <3>3. CASE j = Len(q) + 1 /\ i \in 1..Len(q)
      BY <1>2, <2>1, <3>3
    <3> QED
      BY <1>1, <2>2, <3>1, <3>2, <3>3
  <2> QED
    BY <1>2, <2>2 DEF Distinct
<1> QED
  BY <1>1, <1>2, <1>3, <1>4 DEF r

-----------------------------------------------------------------------------
(* The steps keep the invariant *)

(* No buffer has been granted yet. *)
LEMMA InitInv ==
  ASSUME Init
  PROVE  IInv
<1> USE V4l2MmapDeviceAssumption DEF Init
<1>1. Buffers(0) = {}
  BY DEF Buffers
<1>2. incoming \in Seq(Buffers(granted)) /\ outgoing \in Seq(Buffers(granted))
  OBVIOUS
<1>3. TypeOK
  BY <1>1, <1>2 DEF TypeOK
<1>4. Len(incoming) = 0 /\ Len(outgoing) = 0 /\ Range(incoming) = {}
  BY DEF Range
<1>5. Once
  BY <1>4 DEF Once, Distinct
<1>6. Ordered /\ Covered
  BY <1>1, <1>4 DEF Ordered, ReadsInOrder, Covered
<1>7. PartialWriteOwnsBuffer /\ Begun
  BY DEF PartialWriteOwnsBuffer, Begun
<1> QED
  BY <1>3, <1>5, <1>6, <1>7 DEF IInv

(* Start keeps the invariant: all buffers are new, and a partial write in  *)
(* progress has been begun earlier.                                        *)
LEMMA StartStep ==
  ASSUME IInv, Start
  PROVE  IInv'
<1> USE V4l2MmapDeviceAssumption
<1>1. PICK n \in Grants :
        /\ granted' = n /\ n_buffers' = n
        /\ memory' = IF n > NbBuffer THEN "m_buffer overrun" ELSE "sound"
        /\ content' = [b \in Buffers(n) |-> 0]
        /\ \E ok \in IF "mmap" \in Failing THEN SUBSET Buffers(n) ELSE {Buffers(n)} :
             mapped' = ok
        /\ \E ok \in IF "QBUF" \in Failing THEN SUBSET Buffers(n) ELSE {Buffers(n)} :
             /\ incoming' \in InOrder(ok)
             /\ lost' = Buffers(n) \ ok
  BY DEF Start
<1>2. PICK ok \in SUBSET Buffers(n) : incoming' \in InOrder(ok) /\ lost' = Buffers(n) \ ok
  BY <1>1
<1>3. /\ outgoing' = <<>> /\ streaming' \in BOOLEAN /\ success' \in BOOLEAN
      /\ begun' = IF m_partialWriteInProgress /\ begun = "now" THEN "earlier" ELSE begun
      /\ UNCHANGED <<m_deviceType, frames, lastRead, size, m_partialWriteInProgress, m_partialWriteBuf>>
  BY DEF Start, IInv, TypeOK
<1>4. n \in Nat /\ mapped' \subseteq Buffers(n)
  BY <1>1
<1>5. incoming' \in Seq(Buffers(n)) /\ Range(incoming') = ok /\ Distinct(incoming')
  BY <1>2, <1>4, InOrderFacts
<1>6. TypeOK'
  <2>1. lost' \subseteq Nat
    BY <1>2, <1>4 DEF Buffers
  <2>2. outgoing' \in Seq(Buffers(n))
    BY <1>3
  <2>3. content' \in [Buffers(n) -> Nat]
    BY <1>1
  <2> QED
    BY <1>1, <1>3, <1>4, <1>5, <2>1, <2>2, <2>3 DEF IInv, TypeOK
<1>7. Once'
  <2>1. Len(outgoing') = 0 /\ Range(outgoing') = {}
    BY <1>3 DEF Range
  <2> QED
    BY <1>5, <2>1 DEF Once, Distinct
<1>8. Ordered'
  <2>1. \A b \in Buffers(n) : content'[b] <= frames'
    <3>1. frames' \in Nat
      BY <1>3 DEF IInv, TypeOK
    <3>2. \A b \in Buffers(n) : content'[b] = 0
      BY <1>1
    <3> QED
      BY <3>1, <3>2
  <2>2. lastRead' <= frames' /\ Len(outgoing') = 0
    BY <1>3 DEF IInv, Ordered
  <2>3. ReadsInOrder'
    BY <2>2 DEF ReadsInOrder
  <2> QED
    BY <1>1, <2>1, <2>2, <2>3 DEF Ordered
<1>9. Covered'
  BY <1>1, <1>2, <1>5 DEF Covered, Queued
<1>10. PartialWriteOwnsBuffer' /\ Begun'
  BY <1>3 DEF IInv, PartialWriteOwnsBuffer, Begun
<1> QED
  BY <1>6, <1>7, <1>8, <1>9, <1>10 DEF IInv

(* Stop keeps the invariant. *)
LEMMA StopStep ==
  ASSUME IInv, Stop
  PROVE  IInv'
<1>1. /\ n_buffers' = 0 /\ mapped' = {}
      /\ UNCHANGED <<m_deviceType, frames, lost, lastRead, size, m_partialWriteInProgress,
                     m_partialWriteBuf, begun, success, memory>>
  BY DEF Stop, partial
<1>2. \/ UNCHANGED <<streaming, incoming, outgoing>>
      \/ streaming' = FALSE /\ incoming' = <<>> /\ outgoing' = <<>>
  BY DEF Stop
<1>3. \/ UNCHANGED <<granted, content>>
      \/ /\ granted' = 0 /\ content' = [b \in {} |-> 0]
         /\ streaming' = FALSE /\ incoming' = <<>> /\ outgoing' = <<>>
  BY DEF Stop
<1>0. Buffers(0) = {}
  BY DEF Buffers
<1>4. TypeOK'
  <2>1. granted' \in Nat /\ content' \in [Buffers(granted') -> Nat]
    <3>1. CASE UNCHANGED <<granted, content>>
      BY <3>1 DEF IInv, TypeOK
    <3>2. CASE granted' = 0 /\ content' = [b \in {} |-> 0]
      BY <1>0, <3>2
    <3> QED
      BY <1>3, <3>1, <3>2
  <2>2. streaming' \in BOOLEAN
    BY <1>2 DEF IInv, TypeOK
  <2>3. incoming' \in Seq(Buffers(granted')) /\ outgoing' \in Seq(Buffers(granted'))
    <3>1. CASE incoming' = <<>> /\ outgoing' = <<>>
      BY <3>1
    <3>2. CASE UNCHANGED <<granted, incoming, outgoing>>
      BY <3>2 DEF IInv, TypeOK
    <3> QED
      BY <1>2, <1>3, <3>1, <3>2
  <2> QED
    BY <1>1, <2>1, <2>2, <2>3 DEF IInv, TypeOK
<1>5. Once'
  <2>1. CASE incoming' = <<>> /\ outgoing' = <<>>
    <3>1. Len(incoming') = 0 /\ Len(outgoing') = 0 /\ Range(incoming') = {}
      BY <2>1 DEF Range
    <3> QED
      BY <3>1 DEF Once, Distinct
  <2>2. CASE UNCHANGED <<incoming, outgoing>>
    BY <2>2 DEF IInv, Once, Distinct
  <2> QED
    BY <1>2, <2>1, <2>2
<1>6. Ordered'
  <2>1. \A b \in Buffers(granted') : content'[b] <= frames'
    BY <1>0, <1>1, <1>3 DEF IInv, Ordered
  <2>2. ReadsInOrder'
    <3>1. CASE outgoing' = <<>>
      BY <3>1 DEF ReadsInOrder
    <3>2. CASE outgoing' = outgoing /\ content' = content
      BY <1>1, <3>2 DEF IInv, Ordered, ReadsInOrder
    <3> QED
      BY <1>2, <1>3, <3>1, <3>2
  <2> QED
    BY <1>1, <2>1, <2>2 DEF IInv, Ordered
<1>7. Covered' /\ PartialWriteOwnsBuffer' /\ Begun'
  BY <1>1 DEF IInv, Covered, PartialWriteOwnsBuffer, Begun
<1> QED
  BY <1>4, <1>5, <1>6, <1>7 DEF IInv

(* DriverFinishes keeps the invariant: the new frame is newer than all.    *)
LEMMA DriverStep ==
  ASSUME IInv, DriverFinishes
  PROVE  IInv'
<1> DEFINE b == Head(incoming)
           in == Tail(incoming)
           out == Append(outgoing, b)
<1>1. /\ TypeOK /\ Once /\ Ordered /\ Covered /\ PartialWriteOwnsBuffer /\ Begun
      /\ incoming \in Seq(Buffers(granted)) /\ outgoing \in Seq(Buffers(granted))
      /\ frames \in Nat /\ content \in [Buffers(granted) -> Nat]
  BY DEF IInv, TypeOK
<1>2. /\ streaming /\ incoming # <<>>
      /\ frames' = frames + 1 /\ content' = [content EXCEPT ![b] = frames + 1]
      /\ incoming' = in /\ outgoing' = out
      /\ UNCHANGED <<m_deviceType, n_buffers, mapped, granted, streaming, lost, lastRead, size,
                     m_partialWriteInProgress, m_partialWriteBuf, begun, success, memory>>
  BY DEF DriverFinishes, mapping, partial
<1>3. /\ b \in Buffers(granted) /\ in \in Seq(Buffers(granted))
      /\ Range(incoming) = Range(in) \cup {b} /\ Distinct(in) /\ b \notin Range(in)
  BY <1>1, <1>2, TakeFirst DEF Once
<1>a. b \notin Range(outgoing)
  BY <1>1, <1>3 DEF Once
<1>4. /\ out \in Seq(Buffers(granted))
      /\ Len(outgoing) \in Nat /\ DOMAIN outgoing = 1..Len(outgoing) /\ Len(out) = Len(outgoing) + 1
      /\ \A i \in 1..Len(outgoing) : out[i] = outgoing[i]
      /\ out[Len(outgoing) + 1] = b
      /\ Range(out) = Range(outgoing) \cup {b} /\ Distinct(out)
  BY <1>1, <1>3, <1>a, PutLast DEF Once
<1> HIDE DEF b, in, out
<1>5. /\ content' \in [Buffers(granted) -> Nat] /\ content'[b] = frames + 1
      /\ \A x \in Buffers(granted) : x # b => content'[x] = content[x]
  BY <1>1, <1>2, <1>3
<1>6. TypeOK'
  BY <1>1, <1>2, <1>3, <1>4, <1>5 DEF TypeOK
<1>7. Once'
  BY <1>1, <1>2, <1>3, <1>4, <1>a DEF Once, Distinct
<1>8. Ordered'
  <2>1. \A x \in Buffers(granted) : content[x] <= frames /\ content[x] \in Nat
    BY <1>1 DEF Ordered
  <2>2. ASSUME NEW x \in Buffers(granted) PROVE content'[x] <= frames + 1
    <3>1. /\ frames \in Nat /\ content[x] \in Nat /\ content[x] <= frames
          /\ content'[x] = frames + 1 \/ content'[x] = content[x]
      BY <1>1, <1>5, <2>1
    <3> QED
      BY ONLY <3>1
  <2>3. lastRead \in Nat /\ lastRead <= frames /\ ReadsInOrder
    BY <1>1 DEF TypeOK, Ordered
  <2>4. \A i \in 1..Len(outgoing) :
          /\ outgoing[i] \in Buffers(granted) /\ outgoing[i] # b
          /\ content'[out[i]] = content[outgoing[i]]
    <3>1. \A i \in 1..Len(outgoing) : outgoing[i] \in Buffers(granted) /\ outgoing[i] # b
      <4>1. \A i \in 1..Len(outgoing) : outgoing[i] \in Buffers(granted)
        BY <1>1
      <4>2. \A i \in 1..Len(outgoing) : outgoing[i] \in Range(outgoing)
        BY <1>4, Zenon DEF Range
      <4> QED
        BY <1>a, <4>1, <4>2
    <3> QED
      BY <1>4, <1>5, <3>1
  <2>5. content'[out[Len(outgoing) + 1]] = frames + 1
    BY <1>4, <1>5
  <2>7. ReadsInOrder'
    <3>1. SUFFICES ASSUME m_deviceType = "capture"
                   PROVE  /\ \A i \in 1..(Len(outgoing) + 1) : content'[out[i]] > lastRead
                          /\ \A i, j \in 1..(Len(outgoing) + 1) :
                               i < j => content'[out[i]] < content'[out[j]]
      BY <1>2, <1>4 DEF ReadsInOrder
    <3>2. /\ \A i \in 1..Len(outgoing) : content[outgoing[i]] > lastRead
          /\ \A i, j \in 1..Len(outgoing) : i < j => content[outgoing[i]] < content[outgoing[j]]
      BY <2>3, <3>1 DEF ReadsInOrder
    <3>3. \A i \in 1..Len(outgoing) :
            /\ content'[out[i]] = content[outgoing[i]]
            /\ content[outgoing[i]] \in Nat /\ content[outgoing[i]] <= frames
      BY <2>1, <2>4
    <3> DEFINE new == [i \in 1..(Len(outgoing) + 1) |-> content'[out[i]]]
               old == [i \in 1..Len(outgoing) |-> content[outgoing[i]]]
    <3>4. /\ new[Len(outgoing) + 1] = frames + 1
          /\ \A i \in 1..Len(outgoing) : new[i] = old[i] /\ old[i] \in Nat /\ old[i] <= frames
          /\ \A i \in 1..Len(outgoing) : old[i] > lastRead
          /\ \A i, j \in 1..Len(outgoing) : i < j => old[i] < old[j]
          /\ \A i \in 1..(Len(outgoing) + 1) : new[i] = content'[out[i]]
      BY <1>4, <2>5, <3>2, <3>3
    <3> HIDE DEF new, old
    <3>5. ASSUME NEW i \in 1..(Len(outgoing) + 1)
          PROVE  new[i] > lastRead
      <4>1. CASE i \in 1..Len(outgoing)
        BY <3>4, <4>1
      <4>2. CASE i = Len(outgoing) + 1
        BY <1>1, <2>3, <3>4, <4>2
      <4> QED
        BY <1>4, <4>1, <4>2
    <3>6. ASSUME NEW i \in 1..(Len(outgoing) + 1), NEW j \in 1..(Len(outgoing) + 1), i < j
          PROVE  new[i] < new[j]
      <4>1. i \in 1..Len(outgoing)
        BY <1>4, <3>6
      <4>2. CASE j \in 1..Len(outgoing)
        BY <3>4, <3>6, <4>1, <4>2
      <4>3. CASE j = Len(outgoing) + 1
        <5>1. new[i] = old[i] /\ old[i] \in Nat /\ old[i] <= frames
          BY <3>4, <4>1
        <5>2. new[j] = frames + 1 /\ frames \in Nat
          BY <1>1, <3>4, <4>3
        <5> QED
          BY <5>1, <5>2
      <4> QED
        BY <1>4, <4>2, <4>3
    <3> QED
      BY <3>4, <3>5, <3>6
  <2> QED
    BY <1>1, <1>2, <2>2, <2>3, <2>7 DEF Ordered
<1>9. Queued' = Queued
  BY <1>2, <1>3, <1>4 DEF Queued
<1>10. Covered' /\ PartialWriteOwnsBuffer' /\ Begun'
  BY <1>1, <1>2, <1>9 DEF Covered, PartialWriteOwnsBuffer, Begun
<1> QED
  BY <1>6, <1>7, <1>8, <1>10 DEF IInv

(* A step that moves no buffer but out of a queue keeps the order.         *)
LEMMA SameOrder ==
  ASSUME TypeOK, Ordered, UNCHANGED <<m_deviceType, granted, content, frames, lastRead>>,
         outgoing' = outgoing
  PROVE  Ordered'
BY DEF Ordered, ReadsInOrder

(* ... with the first finished buffer taken out.                           *)
LEMMA TailOrder ==
  ASSUME TypeOK, Ordered, UNCHANGED <<m_deviceType, granted, content, frames>>,
         outgoing # <<>>, outgoing' = Tail(outgoing),
         lastRead' \in {lastRead, content[Head(outgoing)]}
  PROVE  Ordered'
<1>1. /\ outgoing \in Seq(Buffers(granted)) /\ content \in [Buffers(granted) -> Nat]
      /\ frames \in Nat /\ lastRead \in Nat
  BY DEF TypeOK
<1>2. /\ Head(outgoing) \in Buffers(granted) /\ Head(outgoing) = outgoing[1]
      /\ Len(outgoing) \in Nat \ {0} /\ Len(Tail(outgoing)) = Len(outgoing) - 1
      /\ \A i \in 1..(Len(outgoing) - 1) : Tail(outgoing)[i] = outgoing[i + 1]
  BY <1>1, TakeFirst
<1> DEFINE old == [i \in 1..Len(outgoing) |-> content[outgoing[i]]]
<1>3. ASSUME m_deviceType = "capture"
      PROVE  /\ \A i \in 1..Len(outgoing) : old[i] > lastRead
             /\ \A i, j \in 1..Len(outgoing) : i < j => old[i] < old[j]
             /\ \A i \in 1..Len(outgoing) : old[i] = content[outgoing[i]] /\ old[i] \in Nat
             /\ lastRead' \in {lastRead, old[1]}
  <2>1. \A i \in 1..Len(outgoing) : outgoing[i] \in Buffers(granted)
    BY <1>1
  <2> QED
    BY <1>1, <1>2, <1>3, <2>1 DEF Ordered, ReadsInOrder
<1> HIDE DEF old
<1>4. ReadsInOrder'
  <2>1. SUFFICES ASSUME m_deviceType = "capture"
                 PROVE  /\ \A i \in 1..(Len(outgoing) - 1) : content[outgoing[i + 1]] > lastRead'
                        /\ \A i, j \in 1..(Len(outgoing) - 1) :
                             i < j => content[outgoing[i + 1]] < content[outgoing[j + 1]]
    BY <1>2 DEF ReadsInOrder
  <2>2. ASSUME NEW i \in 1..(Len(outgoing) - 1)
        PROVE  content[outgoing[i + 1]] > lastRead'
    <3>1. i + 1 \in 1..Len(outgoing) /\ 1 \in 1..Len(outgoing) /\ 1 < i + 1
      BY <1>2
    <3>2. /\ content[outgoing[i + 1]] = old[i + 1] /\ old[i + 1] > lastRead /\ old[1] < old[i + 1]
          /\ old[1] \in Nat /\ old[i + 1] \in Nat /\ lastRead' \in {lastRead, old[1]}
      BY <1>3, <2>1, <3>1
    <3> QED
      BY <1>1, <3>2
  <2>3. ASSUME NEW i \in 1..(Len(outgoing) - 1), NEW j \in 1..(Len(outgoing) - 1), i < j
        PROVE  content[outgoing[i + 1]] < content[outgoing[j + 1]]
    <3>1. i + 1 \in 1..Len(outgoing) /\ j + 1 \in 1..Len(outgoing) /\ i + 1 < j + 1
      BY <1>2, <2>3
    <3> QED
      BY <1>3, <2>1, <3>1
  <2> QED
    BY <2>2, <2>3
<1>5. \A b \in Buffers(granted') : content'[b] <= frames'
  BY DEF Ordered
<1>6. lastRead' <= frames'
  BY <1>1, <1>2 DEF Ordered
<1> QED
  BY <1>4, <1>5, <1>6 DEF Ordered

(* A read or a write that finds nothing changes nothing.                   *)
LEMMA NothingStep ==
  ASSUME IInv, NothingDequeued
  PROVE  IInv'
<1>1. /\ UNCHANGED <<m_deviceType, n_buffers, mapped, granted, streaming, incoming, outgoing, content,
                     frames, lost, lastRead, m_partialWriteInProgress, m_partialWriteBuf, begun, success, memory>>
      /\ size' \in {"none", "error"}
  BY DEF NothingDequeued, mapping, driver, partial
<1>2. TypeOK'
  BY <1>1 DEF IInv, TypeOK
<1>3. Once' /\ Ordered'
  BY <1>1 DEF IInv, Once, Distinct, Ordered, ReadsInOrder
<1>4. Covered' /\ PartialWriteOwnsBuffer' /\ Begun'
  BY <1>1 DEF IInv, Covered, PartialWriteOwnsBuffer, Begun, Queued
<1> QED
  BY <1>2, <1>3, <1>4 DEF IInv

(* Transfer keeps the invariant: the buffer that is read or written goes   *)
(* back to the driver, or is lost.                                         *)
LEMMA TransferStep ==
  ASSUME IInv, Transfer
  PROVE  IInv'
<1> DEFINE b == Head(outgoing)
           out == Tail(outgoing)
           in == Append(incoming, b)
<1>1. /\ TypeOK /\ Once /\ Ordered /\ Covered /\ PartialWriteOwnsBuffer /\ Begun
      /\ incoming \in Seq(Buffers(granted)) /\ outgoing \in Seq(Buffers(granted))
      /\ frames \in Nat /\ content \in [Buffers(granted) -> Nat] /\ granted \in Nat
  BY DEF IInv, TypeOK
<1>2. /\ outgoing # <<>> /\ outgoing' = out
      /\ lastRead' = IF m_deviceType = "capture" THEN content[b] ELSE lastRead
      /\ memory' = IF b \in mapped THEN "sound" ELSE "unmapped slot"
      /\ \/ incoming' = in /\ size' = "bytes" /\ UNCHANGED lost
         \/ lost' = lost \cup {b} /\ size' = "error" /\ UNCHANGED incoming
      /\ UNCHANGED <<m_deviceType, n_buffers, mapped, granted, streaming, content, frames,
                     m_partialWriteInProgress, m_partialWriteBuf, begun, success>>
  BY DEF Transfer, mapping, partial
<1>3. /\ b \in Buffers(granted) /\ out \in Seq(Buffers(granted))
      /\ Range(outgoing) = Range(out) \cup {b} /\ Distinct(out) /\ b \notin Range(out)
  BY <1>1, <1>2, TakeFirst DEF Once
<1>4. b \notin Range(incoming)
  BY <1>1, <1>3 DEF Once
<1>5. /\ in \in Seq(Buffers(granted)) /\ Range(in) = Range(incoming) \cup {b} /\ Distinct(in)
  BY <1>1, <1>3, <1>4, PutLast DEF Once
<1>6. Ordered'
  BY <1>1, <1>2, TailOrder
<1> HIDE DEF b, in, out
<1>7. TypeOK'
  <2>1. b \in Nat /\ content[b] \in Nat
    BY <1>1, <1>3 DEF Buffers
  <2>2. lost' \subseteq Nat /\ lastRead' \in Nat /\ incoming' \in Seq(Buffers(granted))
    BY <1>1, <1>2, <1>5, <2>1 DEF TypeOK
  <2> QED
    BY <1>1, <1>2, <1>3, <2>2 DEF TypeOK
<1>8. Once'
  BY <1>1, <1>2, <1>3, <1>4, <1>5 DEF Once, Distinct
<1>9. Queued' \subseteq Queued /\ Queued \subseteq Queued' \cup lost' /\ lost \subseteq lost'
  BY <1>2, <1>3, <1>5 DEF Queued
<1>10. Covered' /\ PartialWriteOwnsBuffer' /\ Begun'
  BY <1>1, <1>2, <1>9 DEF Covered, PartialWriteOwnsBuffer, Begun
<1> QED
  BY <1>6, <1>7, <1>8, <1>10 DEF IInv

(* StartPartialWrite keeps the invariant: the buffer leaves the driver.    *)
LEMMA StartPartialStep ==
  ASSUME IInv, StartPartialWrite
  PROVE  IInv'
<1> DEFINE b == Head(outgoing)
           out == Tail(outgoing)
<1>1. /\ TypeOK /\ Once /\ Ordered /\ Covered /\ PartialWriteOwnsBuffer /\ Begun
      /\ incoming \in Seq(Buffers(granted)) /\ outgoing \in Seq(Buffers(granted)) /\ granted \in Nat
  BY DEF IInv, TypeOK
<1>2. /\ ~m_partialWriteInProgress
      /\ \/ /\ outgoing # <<>> /\ outgoing' = out
            /\ m_partialWriteBuf' = [index |-> b, bytesused |-> 0, length |-> Length]
            /\ m_partialWriteInProgress' = TRUE
         \/ /\ m_partialWriteBuf' = NoBuffer
            /\ UNCHANGED <<outgoing, m_partialWriteInProgress>>
      /\ UNCHANGED <<m_deviceType, n_buffers, mapped, granted, streaming, incoming, content, frames,
                     lost, lastRead, size, begun, success, memory>>
  BY DEF StartPartialWrite, mapping
<1>3. CASE /\ outgoing # <<>> /\ outgoing' = out
           /\ m_partialWriteBuf' = [index |-> b, bytesused |-> 0, length |-> Length]
           /\ m_partialWriteInProgress' = TRUE
  <2>1. /\ b \in Buffers(granted) /\ out \in Seq(Buffers(granted))
        /\ Range(outgoing) = Range(out) \cup {b} /\ Distinct(out) /\ b \notin Range(out)
    BY <1>1, <1>3, TakeFirst DEF Once
  <2>2. Ordered'
    BY <1>1, <1>2, <1>3, TailOrder
  <2> HIDE DEF b, out
  <2>3. TypeOK'
    <3>1. m_partialWriteBuf' \in PartialBuf
      BY <1>1, <1>3, <2>1, V4l2MmapDeviceAssumption DEF Buffers, PartialBuf
    <3> QED
      BY <1>1, <1>2, <1>3, <2>1, <3>1 DEF TypeOK
  <2>4. Once' /\ b \notin Range(incoming)
    BY <1>1, <1>2, <1>3, <2>1 DEF Once, Distinct
  <2>5. Queued' = Queued \ {b} /\ m_partialWriteBuf'.index = b /\ m_partialWriteBuf'.bytesused = 0
    BY <1>2, <1>3, <2>1, <2>4 DEF Queued
  <2>6. Covered'
    BY <1>1, <1>2, <1>3, <2>5 DEF Covered, Begun
  <2>7. PartialWriteOwnsBuffer' /\ Begun'
    BY <1>3, <2>5, V4l2MmapDeviceAssumption DEF PartialWriteOwnsBuffer, Begun
  <2> QED
    BY <2>2, <2>3, <2>4, <2>6, <2>7 DEF IInv
<1>4. CASE m_partialWriteBuf' = NoBuffer /\ UNCHANGED <<outgoing, m_partialWriteInProgress>>
  <2>1. TypeOK'
    BY <1>1, <1>2, <1>4 DEF TypeOK, NoBuffer, PartialBuf
  <2>2. Once' /\ Ordered'
    BY <1>1, <1>2, <1>4, SameOrder DEF Once, Distinct
  <2>3. Covered' /\ PartialWriteOwnsBuffer' /\ Begun'
    BY <1>1, <1>2, <1>4 DEF Covered, PartialWriteOwnsBuffer, Begun, Queued
  <2> QED
    BY <2>1, <2>2, <2>3 DEF IInv
<1> QED
  BY <1>2, <1>3, <1>4

(* WritePartial keeps the invariant: the pieces are cut.                   *)
LEMMA WritePartialStep ==
  ASSUME IInv, WritePartial
  PROVE  IInv'
<1> USE V4l2MmapDeviceAssumption
<1>1. /\ TypeOK /\ Once /\ Ordered /\ Covered /\ PartialWriteOwnsBuffer /\ Begun
      /\ m_partialWriteBuf \in PartialBuf
  BY DEF IInv, TypeOK
<1>2. /\ m_partialWriteInProgress /\ memory' \in {"sound", "unmapped slot", "past the buffer"}
      /\ UNCHANGED <<m_deviceType, n_buffers, mapped, granted, streaming, incoming, outgoing, content,
                     frames, lost, lastRead, size, m_partialWriteInProgress, begun, success>>
  BY DEF WritePartial, CopyInto, mapping, driver
<1>3. PICK n \in Nat :
        /\ m_partialWriteBuf' = [m_partialWriteBuf EXCEPT !.bytesused = n]
        /\ n <= m_partialWriteBuf.length
  <2>1. PICK bufferSize \in Sizes :
          m_partialWriteBuf' =
            [m_partialWriteBuf EXCEPT !.bytesused =
               IF m_partialWriteBuf.bytesused + bufferSize > m_partialWriteBuf.length
               THEN m_partialWriteBuf.length ELSE m_partialWriteBuf.bytesused + bufferSize]
    BY DEF WritePartial
  <2>2. m_partialWriteBuf.bytesused \in Nat /\ m_partialWriteBuf.length \in Nat /\ bufferSize \in Nat
    BY <1>1 DEF PartialBuf
  <2> QED
    BY <2>1, <2>2
<1>4. /\ m_partialWriteBuf' \in PartialBuf
      /\ m_partialWriteBuf'.index = m_partialWriteBuf.index
      /\ m_partialWriteBuf'.length = m_partialWriteBuf.length
      /\ m_partialWriteBuf'.bytesused <= m_partialWriteBuf.length
  BY <1>1, <1>3 DEF PartialBuf
<1>5. TypeOK'
  BY <1>1, <1>2, <1>4 DEF TypeOK
<1>6. Once' /\ Ordered'
  BY <1>1, <1>2, SameOrder DEF Once, Distinct
<1>7. Covered' /\ PartialWriteOwnsBuffer' /\ Begun'
  BY <1>1, <1>2, <1>4 DEF Covered, PartialWriteOwnsBuffer, Begun, Queued
<1> QED
  BY <1>5, <1>6, <1>7 DEF IInv

(* EndPartialWrite keeps the invariant: the driver gets the buffer unless  *)
(* it has it already.                                                      *)
LEMMA EndPartialStep ==
  ASSUME IInv, EndPartialWrite
  PROVE  IInv'
<1> DEFINE b == m_partialWriteBuf.index
           in == Append(incoming, b)
           refused == b >= granted \/ b \in Range(incoming) \cup Range(outgoing)
<1>1. /\ TypeOK /\ Once /\ Ordered /\ Covered /\ b \in Nat /\ granted \in Nat
      /\ incoming \in Seq(Buffers(granted)) /\ outgoing \in Seq(Buffers(granted))
  BY DEF IInv, TypeOK, PartialBuf
<1>2. /\ m_partialWriteInProgress' = FALSE /\ begun' = "now"
      /\ \/ n_buffers > 0 /\ ~refused /\ incoming' = in /\ UNCHANGED lost
         \/ begun = "never" /\ UNCHANGED <<incoming, lost>>
         \/ /\ lost' = IF n_buffers = 0 \/ refused THEN lost ELSE lost \cup {b}
            /\ UNCHANGED incoming
      /\ UNCHANGED <<m_deviceType, n_buffers, mapped, granted, streaming, outgoing, content, frames,
                     lastRead, size, success, m_partialWriteBuf, memory>>
  BY DEF EndPartialWrite, mapping
<1>3. Ordered'
  BY <1>1, <1>2, SameOrder
<1>4. PartialWriteOwnsBuffer' /\ Begun'
  BY <1>2 DEF PartialWriteOwnsBuffer, Begun
<1>5. CASE n_buffers > 0 /\ ~refused /\ incoming' = in /\ UNCHANGED lost
  <2>1. b \in Buffers(granted) /\ b \notin Range(incoming) /\ b \notin Range(outgoing)
    BY <1>1, <1>5 DEF Buffers
  <2>2. in \in Seq(Buffers(granted)) /\ Range(in) = Range(incoming) \cup {b} /\ Distinct(in)
    BY <1>1, <2>1, PutLast DEF Once
  <2> HIDE DEF in, b
  <2>3. TypeOK'
    BY <1>1, <1>2, <1>5, <2>2 DEF TypeOK
  <2>4. Once'
    BY <1>1, <1>2, <1>5, <2>1, <2>2 DEF Once, Distinct
  <2>5. Covered'
    BY <1>1, <1>2, <1>5, <2>2 DEF Covered, Queued, b
  <2> QED
    BY <1>3, <1>4, <2>3, <2>4, <2>5 DEF IInv
<1>6. CASE /\ lost' = IF n_buffers = 0 \/ refused THEN lost ELSE lost \cup {b}
           /\ UNCHANGED incoming
  <2>1. lost' \subseteq Nat
    BY <1>1, <1>6 DEF TypeOK
  <2>2. TypeOK'
    BY <1>1, <1>2, <1>6, <2>1 DEF TypeOK
  <2>3. Once'
    BY <1>1, <1>2, <1>6 DEF Once, Distinct
  <2>4. Queued' = Queued /\ lost \subseteq lost'
    BY <1>2, <1>6 DEF Queued
  <2>5. Covered'
    <3>1. SUFFICES ASSUME n_buffers > 0
                   PROVE  Buffers(n_buffers) \subseteq Queued \cup lost'
      BY <1>1, <1>2, <2>4 DEF Covered
    <3>2. b \in Buffers(n_buffers) => b \in Queued \cup lost'
      <4>1. CASE b \in Range(incoming) \cup Range(outgoing)
        BY <4>1 DEF Queued
      <4>2. CASE b >= granted
        <5>1. n_buffers = granted
          BY <1>1, <3>1 DEF Covered
        <5> QED
          BY <1>1, <4>2, <5>1 DEF Buffers
      <4>3. CASE ~refused
        <5>1. n_buffers # 0
          BY <3>1
        <5> QED
          BY <1>6, <4>3, <5>1
      <4> QED
        BY <4>1, <4>2, <4>3
    <3> QED
      BY <1>1, <2>4, <3>1, <3>2 DEF Covered
  <2> QED
    BY <1>3, <1>4, <2>2, <2>3, <2>5 DEF IInv
<1>7. CASE begun = "never" /\ UNCHANGED <<incoming, lost>>
  <2>1. TypeOK'
    BY <1>1, <1>2, <1>7 DEF TypeOK
  <2>2. Once'
    BY <1>1, <1>2, <1>7 DEF Once, Distinct
  <2>3. Covered'
    BY <1>1, <1>2, <1>7 DEF Covered, Queued
  <2> QED
    BY <1>3, <1>4, <2>1, <2>2, <2>3 DEF IInv
<1> QED
  BY <1>2, <1>5, <1>6, <1>7

(* Every step keeps the invariant.                                         *)
LEMMA StepInv ==
  ASSUME IInv, [Next]_vars
  PROVE  IInv'
<1>1. CASE UNCHANGED vars
  <2>1. UNCHANGED <<m_deviceType, n_buffers, mapped, granted, streaming, incoming, outgoing, content,
                    frames, lost, lastRead, size, m_partialWriteInProgress, m_partialWriteBuf, begun,
                    success, memory>>
    BY <1>1 DEF vars, mapping, driver, partial
  <2>2. TypeOK'
    BY <2>1 DEF IInv, TypeOK
  <2>3. Once' /\ Ordered'
    BY <2>1 DEF IInv, Once, Distinct, Ordered, ReadsInOrder
  <2>4. Covered' /\ PartialWriteOwnsBuffer' /\ Begun'
    BY <2>1 DEF IInv, Covered, PartialWriteOwnsBuffer, Begun, Queued
  <2> QED
    BY <2>2, <2>3, <2>4 DEF IInv
<1>2. CASE Next
  BY <1>2, StartStep, StopStep, DriverStep, NothingStep, TransferStep, StartPartialStep,
     WritePartialStep, EndPartialStep DEF Next
<1> QED
  BY <1>1, <1>2

-----------------------------------------------------------------------------
(* Theorems *)

(* IInv holds in every state: what the driver's queues, the mapping and    *)
(* the partial write of V4l2MmapDevice.cpp are to each other.              *)
THEOREM Invariance == Spec => []IInv
<1>1. Init => IInv
  BY InitInv
<1>2. IInv /\ [Next]_vars => IInv'
  BY StepInv
<1> QED
  BY <1>1, <1>2, PTL DEF Spec

(* Type correctness. *)
THEOREM TypeCorrect == Spec => []TypeOK
<1>1. IInv => TypeOK
  BY DEF IInv
<1> QED
  BY <1>1, Invariance, PTL

(* readInternal returns the frames in the order of their age, each once,   *)
(* for any number of buffers and however starts, stops and ioctls fail.    *)
THEOREM ReadOrder == Spec => []ReadsInOrder
<1>1. IInv => ReadsInOrder
  BY DEF IInv, Ordered
<1> QED
  BY <1>1, Invariance, PTL

(* Every buffer of a started device is with the driver, in the partial     *)
(* write, or lost to a VIDIOC_QBUF that failed.                            *)
THEOREM Accounted == Spec => []BuffersAccounted
<1>1. ASSUME IInv PROVE BuffersAccounted
  <2>1. Queued \subseteq Buffers(granted)
    <3>1. incoming \in Seq(Buffers(granted)) /\ outgoing \in Seq(Buffers(granted))
      BY <1>1 DEF IInv, TypeOK
    <3>2. Range(incoming) \subseteq Buffers(granted) /\ Range(outgoing) \subseteq Buffers(granted)
      BY <3>1 DEF Range
    <3> QED
      BY <3>2 DEF Queued
  <2> QED
    BY <1>1, <2>1 DEF IInv, Covered, BuffersAccounted
<1> QED
  BY <1>1, Invariance, PTL

(* The pieces of a partial write go into a buffer that the driver does not *)
(* have, and stay inside it.                                               *)
THEOREM PartialOwned == Spec => []PartialWriteOwnsBuffer
<1>1. IInv => PartialWriteOwnsBuffer
  BY DEF IInv
<1> QED
  BY <1>1, Invariance, PTL

(* For any driver and whatever fails, m_buffer is only overrun by a driver *)
(* that grants more than it was asked for, and a copy only meets a slot    *)
(* without a mapping after a start that returned false, or a place outside *)
(* the buffer in a partial write that was never begun.                     *)
THEOREM MemorySound == Spec => []SoundMemory
<1>1. Init => Mapped
  BY DEF Init, Mapped, SoundMemory
<1>2. ASSUME IInv, Mapped, [Next]_vars
      PROVE  Mapped'
  <2>1. granted \in Nat /\ n_buffers \in Nat
    BY <1>2 DEF IInv, TypeOK
  <2>2. CASE Start
    <3>1. PICK n \in Grants :
            /\ granted' = n /\ n_buffers' = n
            /\ memory' = IF n > NbBuffer THEN "m_buffer overrun" ELSE "sound"
      BY <2>2 DEF Start
    <3>2. success' => mapped' = Buffers(granted')
      BY <2>2 DEF Start
    <3> QED
      BY <3>1, <3>2 DEF Mapped, SoundMemory
  <2>3. CASE Stop
    <3>1. n_buffers' = 0 /\ UNCHANGED <<success, begun, memory>> /\ memory = "sound"
      BY <2>3 DEF Stop, Running, partial
    <3> QED
      BY <3>1 DEF Mapped, SoundMemory
  <2>4. CASE Transfer
    <3>1. Head(outgoing) \in Buffers(granted)
      BY <1>2, <2>4, TakeFirst DEF Transfer, IInv, TypeOK
    <3>2. success => Head(outgoing) \in mapped
      BY <1>2, <2>4, <3>1 DEF Transfer, IInv, Covered, Mapped
    <3> QED
      BY <1>2, <2>4, <3>2 DEF Transfer, Mapped, SoundMemory, mapping
  <2>5. CASE WritePartial
    <3> DEFINE used == m_partialWriteBuf.bytesused
               length == m_partialWriteBuf.length
    <3>1. /\ m_partialWriteInProgress /\ n_buffers > 0 /\ m_partialWriteBuf.index < n_buffers
          /\ UNCHANGED <<n_buffers, mapped, granted, success, begun>>
      BY <2>5 DEF WritePartial, mapping, driver
    <3>2. used \in Nat /\ length \in Nat /\ m_partialWriteBuf.index \in Nat /\ Length \in Nat
      BY <1>2, V4l2MmapDeviceAssumption DEF IInv, TypeOK, PartialBuf
    <3>3. m_partialWriteBuf.index \in Buffers(n_buffers)
      BY <2>1, <3>1, <3>2 DEF Buffers
    <3>4. success => m_partialWriteBuf.index \in mapped
      BY <1>2, <3>1, <3>3 DEF Mapped
    <3>5. PICK bufferSize \in Sizes :
            memory' = CopyInto(m_partialWriteBuf.index, used,
                               IF used + bufferSize > length THEN length ELSE used + bufferSize)
      BY <2>5 DEF WritePartial
    <3>6. bufferSize \in Nat /\ (begun # "never" => length = Length /\ used <= Length)
      BY <1>2, <3>1, V4l2MmapDeviceAssumption DEF IInv, Begun
    <3> DEFINE to == IF used + bufferSize > length THEN length ELSE used + bufferSize
    <3>7. begun # "never" => ~(to < used) /\ ~(to > Length)
      <4> HIDE DEF used, length
      <4> QED
        BY ONLY <3>2, <3>6
    <3>8. memory' = CopyInto(m_partialWriteBuf.index, used, to)
      BY <3>5
    <3>9. /\ memory' # "m_buffer overrun"
          /\ memory' = "unmapped slot" => m_partialWriteBuf.index \notin mapped
          /\ memory' = "past the buffer" => begun = "never"
      <4> HIDE DEF used, to
      <4> QED
        BY <3>7, <3>8 DEF CopyInto
    <3> QED
      BY <1>2, <3>1, <3>4, <3>9 DEF Mapped, SoundMemory
  <2>6. CASE DriverFinishes \/ NothingDequeued \/ StartPartialWrite \/ UNCHANGED vars
    <3>1. UNCHANGED <<n_buffers, mapped, granted, success, begun, memory>>
      BY <2>6 DEF DriverFinishes, NothingDequeued, StartPartialWrite, vars, mapping, driver, partial
    <3> QED
      BY <1>2, <3>1 DEF Mapped, SoundMemory
  <2>7. CASE EndPartialWrite
    BY <1>2, <2>7 DEF EndPartialWrite, Running, Mapped, SoundMemory, mapping
  <2> QED
    BY <1>2, <2>2, <2>3, <2>4, <2>5, <2>6, <2>7 DEF Next
<1>3. Mapped => SoundMemory
  BY DEF Mapped
<1> QED
  BY <1>1, <1>2, <1>3, Invariance, PTL DEF Spec

-----------------------------------------------------------------------------
(* Refinement *)

(* The frames in a queue of buffers.                                       *)
InQueue(c, q) == [i \in 1..Len(q) |-> c[q[i]]]

(* With the first buffer the queue loses the first frame ...               *)
LEMMA InQueueTail ==
  ASSUME NEW S, NEW c \in [S -> Nat], NEW q \in Seq(S), q # <<>>
  PROVE  /\ InQueue(c, q) # <<>> /\ Head(InQueue(c, q)) = c[Head(q)]
         /\ InQueue(c, Tail(q)) = Tail(InQueue(c, q))
<1> DEFINE p == InQueue(c, q)
           r == InQueue(c, Tail(q))
<1>1. /\ Len(q) \in Nat \ {0} /\ Head(q) = q[1] /\ Tail(q) \in Seq(S)
      /\ Len(Tail(q)) = Len(q) - 1 /\ \A i \in 1..(Len(q) - 1) : Tail(q)[i] = q[i + 1]
  BY TakeFirst
<1>2. p \in Seq(Nat) /\ Len(p) = Len(q) /\ \A i \in 1..Len(q) : p[i] = c[q[i]]
  BY <1>1 DEF InQueue
<1>3. r \in Seq(Nat) /\ Len(r) = Len(q) - 1 /\ \A i \in 1..(Len(q) - 1) : r[i] = c[q[i + 1]]
  <2>1. \A i \in 1..(Len(q) - 1) : Tail(q)[i] \in S
    BY <1>1
  <2> QED
    BY <1>1, <2>1 DEF InQueue
<1> HIDE DEF p, r
<1>4. p # <<>>
  BY <1>1, <1>2
<1>5. /\ Head(p) = p[1] /\ Tail(p) \in Seq(Nat) /\ Len(Tail(p)) = Len(q) - 1
      /\ \A i \in 1..(Len(q) - 1) : Tail(p)[i] = p[i + 1]
  BY <1>1, <1>2, <1>4, TakeFirst
<1>6. ASSUME NEW i \in 1..(Len(q) - 1) PROVE r[i] = Tail(p)[i]
  <2>1. i + 1 \in 1..Len(q)
    BY <1>1
  <2> QED
    BY <1>2, <1>3, <1>5, <2>1
<1>7. r = Tail(p)
  BY <1>3, <1>5, <1>6, SeqEqual
<1> QED
  BY <1>1, <1>2, <1>4, <1>5, <1>7 DEF p, r

(* r is q with x put at its end.                                           *)
Extends(r, q, x) ==
  /\ Len(r) = Len(q) + 1
  /\ r[Len(q) + 1] = x
  /\ \A i \in 1..Len(q) : r[i] = q[i]

LEMMA AppendExtends ==
  ASSUME NEW S, NEW q \in Seq(S), NEW x \in S, NEW r \in Seq(S)
  PROVE  Extends(r, q, x) <=> r = Append(q, x)
<1> DEFINE p == Append(q, x)
<1>1. /\ p \in Seq(S) /\ Len(q) \in Nat /\ Len(p) = Len(q) + 1
      /\ p[Len(q) + 1] = x /\ \A i \in 1..Len(q) : p[i] = q[i]
  BY PutLast
<1> HIDE DEF p
<1>2. r = p => Extends(r, q, x)
  BY <1>1 DEF Extends
<1>3. ASSUME Extends(r, q, x) PROVE r = p
  <2>1. ASSUME NEW i \in 1..Len(r) PROVE r[i] = p[i]
    <3>1. i \in 1..Len(q) \/ i = Len(q) + 1
      BY <1>1, <1>3, <2>1 DEF Extends
    <3> QED
      BY <1>1, <1>3, <3>1 DEF Extends
  <2> QED
    BY <1>1, <1>3, <2>1, SeqEqual DEF Extends
<1> QED
  BY <1>2, <1>3 DEF p

(* ... and the frame of a buffer that is put into it comes last.           *)
LEMMA InQueueAppend ==
  ASSUME NEW S, NEW c \in [S -> Nat], NEW q \in Seq(S), NEW b \in S, b \notin Range(q),
         NEW d \in [S -> Nat], \A x \in S \ {b} : d[x] = c[x],
         NEW e \in Seq(S), Extends(e, q, b)
  PROVE  /\ InQueue(c, q) \in Seq(Nat) /\ InQueue(d, e) \in Seq(Nat)
         /\ Extends(InQueue(d, e), InQueue(c, q), d[b])
<1> DEFINE p == InQueue(c, q)
           r == InQueue(d, e)
<1>1. /\ Len(q) \in Nat /\ DOMAIN q = 1..Len(q) /\ Len(e) = Len(q) + 1
      /\ e[Len(q) + 1] = b /\ \A i \in 1..Len(q) : e[i] = q[i]
  <2>1. Len(q) \in Nat /\ DOMAIN q = 1..Len(q)
    BY PutLast
  <2> QED
    BY <2>1, Zenon DEF Extends
<1>2. ASSUME NEW i \in 1..Len(q) PROVE q[i] \in S \ {b}
  <2>1. q[i] \in S
    BY <1>1
  <2>2. q[i] \in Range(q)
    BY <1>1, Zenon DEF Range
  <2> QED
    BY <2>1, <2>2
<1>3. p \in Seq(Nat) /\ Len(p) = Len(q) /\ \A i \in 1..Len(q) : p[i] = c[q[i]]
  BY <1>1, <1>2 DEF InQueue
<1>4. /\ r \in Seq(Nat) /\ Len(r) = Len(q) + 1
      /\ \A i \in 1..(Len(q) + 1) : r[i] = d[e[i]]
  <2>1. \A i \in 1..(Len(q) + 1) : e[i] \in S
    BY <1>1
  <2> QED
    BY <1>1, <2>1 DEF InQueue
<1> HIDE DEF p, r
<1>5. r[Len(q) + 1] = d[b]
  BY <1>1, <1>4
<1>6. ASSUME NEW i \in 1..Len(q) PROVE r[i] = p[i]
  <2>1. i \in 1..(Len(q) + 1)
    BY <1>1
  <2>2. r[i] = d[q[i]] /\ p[i] = c[q[i]] /\ q[i] \in S \ {b}
    BY <1>1, <1>2, <1>3, <1>4, <2>1, Zenon
  <2> QED
    BY <2>2
<1>7. Extends(r, p, d[b])
  BY <1>3, <1>4, <1>5, <1>6 DEF Extends
<1> QED
  BY <1>3, <1>4, <1>7 DEF p, r

LEMMA PendingIs ==
  /\ m_deviceType = "capture" => PendingFrames = InQueue(content, outgoing)
  /\ m_deviceType # "capture" => PendingFrames = <<>>
  /\ m_deviceType' = "capture" => PendingFrames' = InQueue(content', outgoing')
  /\ m_deviceType' # "capture" => PendingFrames' = <<>>
  BY DEF PendingFrames, InQueue

LEMMA NoFrames == \A c : InQueue(c, <<>>) = <<>>
  BY DEF InQueue

(* Every step is one of the stream, or leaves it as it is. *)
LEMMA StreamStep ==
  ASSUME IInv, [Next]_vars
  PROVE  [Stream!Next]_(Stream!vars)
<1>1. /\ m_deviceType' = m_deviceType /\ frames \in Nat /\ granted \in Nat
      /\ incoming \in Seq(Buffers(granted)) /\ outgoing \in Seq(Buffers(granted))
      /\ content \in [Buffers(granted) -> Nat] /\ Once
  BY DEF IInv, TypeOK, Next, Start, Stop, DriverFinishes, NothingDequeued, Transfer,
         StartPartialWrite, WritePartial, EndPartialWrite, vars
<1> USE DEF Stream!Next, Stream!vars
<1>2. CASE UNCHANGED <<content, outgoing, frames, lastRead>>
  BY <1>1, <1>2 DEF PendingFrames
<1>3. CASE Start \/ (Stop /\ outgoing' = <<>>)
  <2>1. outgoing' = <<>> /\ frames' = frames /\ lastRead' = lastRead
    BY <1>3 DEF Start, Stop
  <2>2. PendingFrames' = <<>>
    BY <2>1, PendingIs, NoFrames
  <2> QED
    BY <1>1, <2>1, <2>2 DEF Stream!Discard
<1>4. CASE DriverFinishes
  <2> DEFINE b == Head(incoming)
  <2>1. /\ incoming # <<>> /\ frames' = frames + 1 /\ lastRead' = lastRead
        /\ content' = [content EXCEPT ![b] = frames + 1] /\ outgoing' = Append(outgoing, b)
    BY <1>4 DEF DriverFinishes
  <2>2. CASE m_deviceType = "capture"
    <3>1. b \in Buffers(granted) /\ b \in Range(incoming)
      <4>1. b \in Buffers(granted) /\ Range(incoming) = Range(Tail(incoming)) \cup {b}
        BY <1>1, <2>1, TakeFirst
      <4> QED
        BY <4>1
    <3>2. b \notin Range(outgoing) /\ frames + 1 \in Nat
      BY <1>1, <3>1 DEF Once
    <3> HIDE DEF b
    <3>3. InQueue(content', outgoing') = Append(InQueue(content, outgoing), frames + 1)
      <4> DEFINE S == Buffers(granted)
      <4>1. /\ content \in [S -> Nat] /\ outgoing \in Seq(S) /\ b \in S /\ b \notin Range(outgoing)
            /\ content' \in [S -> Nat] /\ content'[b] = frames + 1
            /\ \A x \in S \ {b} : content'[x] = content[x]
        BY <1>1, <2>1, <3>1, <3>2
      <4> HIDE DEF S
      <4>2. outgoing' \in Seq(S) /\ Extends(outgoing', outgoing, b)
        BY <2>1, <4>1, PutLast, AppendExtends
      <4>3. /\ InQueue(content, outgoing) \in Seq(Nat) /\ InQueue(content', outgoing') \in Seq(Nat)
            /\ Extends(InQueue(content', outgoing'), InQueue(content, outgoing), content'[b])
        BY ONLY <4>1, <4>2, InQueueAppend
      <4> QED
        BY <3>2, <4>1, <4>3, AppendExtends
    <3>4. PendingFrames' = Append(PendingFrames, frames + 1)
      BY <1>1, <2>1, <2>2, <3>3, PendingIs
    <3> QED
      BY <1>1, <2>1, <2>2, <3>4 DEF Stream!Take
  <2>3. CASE m_deviceType # "capture"
    BY <1>1, <2>1, <2>3, PendingIs
  <2> QED
    BY <2>2, <2>3
<1>5. CASE Transfer
  <2>1. /\ outgoing # <<>> /\ outgoing' = Tail(outgoing) /\ UNCHANGED <<content, frames>>
        /\ lastRead' = IF m_deviceType = "capture" THEN content[Head(outgoing)] ELSE lastRead
    BY <1>5 DEF Transfer
  <2>2. CASE m_deviceType = "capture"
    <3>1. /\ InQueue(content, outgoing) # <<>>
          /\ Head(InQueue(content, outgoing)) = content[Head(outgoing)]
          /\ InQueue(content, Tail(outgoing)) = Tail(InQueue(content, outgoing))
      BY <1>1, <2>1, InQueueTail
    <3>2. /\ PendingFrames # <<>> /\ Head(PendingFrames) = lastRead'
          /\ PendingFrames' = Tail(PendingFrames)
      BY <1>1, <2>1, <2>2, <3>1, PendingIs
    <3> QED
      BY <1>1, <2>1, <2>2, <3>2 DEF Stream!Read
  <2>3. CASE m_deviceType # "capture"
    BY <1>1, <2>1, <2>3, PendingIs
  <2> QED
    BY <2>2, <2>3
<1>6. CASE StartPartialWrite
  <2>1. m_deviceType # "capture" /\ UNCHANGED <<frames, lastRead>>
    BY <1>6 DEF StartPartialWrite
  <2> QED
    BY <1>1, <2>1, PendingIs
<1>7. CASE Stop /\ UNCHANGED <<content, outgoing>>
  BY <1>2, <1>7 DEF Stop
<1>8. CASE NothingDequeued \/ WritePartial \/ EndPartialWrite \/ UNCHANGED vars
  <2>1. UNCHANGED <<content, outgoing, frames, lastRead>>
    BY <1>8 DEF NothingDequeued, WritePartial, EndPartialWrite, vars, driver
  <2> QED
    BY <1>2, <2>1
<1>9. CASE Stop
  BY <1>3, <1>7, <1>9 DEF Stop
<1> QED
  BY <1>3, <1>4, <1>5, <1>6, <1>8, <1>9 DEF Next

(* Whatever ioctls fail, and with any number of buffers, a capture device  *)
(* is a stream of frames that none is skipped of until it stops.           *)
THEOREM Refinement == Spec => ImplementsStream
<1>1. Init => Stream!Init
  <2> SUFFICES ASSUME Init PROVE Stream!Init
    OBVIOUS
  <2>1. PendingFrames = <<>>
    BY PendingIs, NoFrames DEF Init
  <2> QED
    BY <2>1 DEF Init, Stream!Init
<1>2. IInv /\ [Next]_vars => [Stream!Next]_(Stream!vars)
  BY StreamStep
<1> QED
  BY <1>1, <1>2, Invariance, PTL DEF Spec, ImplementsStream, Stream!Spec
=============================================================================
