-------------------------- MODULE UdpFramingProofs --------------------------
(***************************************************************************)
(* Proofs about UdpFraming.  For any datagrams: the read position never    *)
(* leaves the buffer.  For frames the position can span: a frame which     *)
(* finds the buffer empty is handled once and intact.  As long as headers  *)
(* only stand in front of frames in what was received: every frame handled *)
(* was sent, the subnet was announced, and the parser falls back into      *)
(* step; these need an invariant about the stale bytes of the buffers.     *)
(***************************************************************************)
EXTENDS UdpFraming, TLAPS

\* What TypeOK leaves out: every variable has an entry per socket, and what was
\* received is a sequence of datagrams.
Shape ==
  /\ rxIndex \in [Sockets -> Nat]
  /\ DOMAIN handled = Sockets /\ DOMAIN leftover = Sockets /\ DOMAIN received = Sockets
  /\ \A k \in Sockets : received[k] \in Seq(Seq(Byte))

\* The sizes as numbers.
LEMMA Sizes ==
  /\ IndexModulus \in Nat \ {0} /\ BufferSize \in Nat /\ MinimumBytes \in Nat \ {0}
  /\ MinimumBytes <= BufferSize /\ IndexModulus + 255 <= BufferSize
  /\ MinimumBytes + 2 <= IndexModulus
  BY FramingAssumption

\* A byte is a number.
LEMMA ByteIsNat == Byte \subseteq Nat
  BY DEF Byte

\* The read position is always within the range of its type.
LEMMA AdvanceFact ==
  ASSUME NEW i \in Nat, NEW offset \in Nat
  PROVE  /\ Advance(i, offset) \in 0..(IndexModulus - 1)
         /\ i + offset < IndexModulus => Advance(i, offset) = i + offset
  BY Sizes DEF Advance

\* What lies at a position is a byte.
LEMMA ByteFact ==
  ASSUME TypeOK, NEW k \in Sockets, NEW offset \in Nat
  PROVE  ByteAt(k, offset) \in Byte /\ index[k] \in Nat
<1>1. index[k] \in 0..(IndexModulus - 1) /\ rxBuffer[k] \in [0..(BufferSize - 1) -> Byte]
  BY DEF TypeOK
<1>2. index[k] \in Nat
  BY <1>1, Sizes
<1>3. Advance(index[k], offset) \in 0..(BufferSize - 1)
  <2>1. Advance(index[k], offset) \in 0..(IndexModulus - 1)
    BY <1>2, AdvanceFact
  <2> QED
    BY <2>1, Sizes
<1> QED
  BY <1>1, <1>2, <1>3 DEF ByteAt

\* The end of a pass leaves the types in order: what moves to the front lies
\* within the bytes received.
LEMMA MoveType ==
  ASSUME TypeOK, Shape, NEW k \in parsing, NEW bytes \in {0, rxIndex[k]},
         NEW position \in 0..(IndexModulus - 1), MoveToFront(k, bytes, position)
  PROVE  TypeOK' /\ rxIndex' \in [Sockets -> Nat]
<1> DEFINE left == BytesLeft(bytes, position)
<1>1. k \in Sockets /\ bytes \in 0..BufferSize /\ position \in Nat
  BY Sizes DEF TypeOK
<1>2. left \in 0..BufferSize /\ \A i \in 0..(BufferSize - 1) : i < left => position + i \in 0..(BufferSize - 1)
  BY <1>1, Sizes DEF BytesLeft
<1>3. /\ rxBuffer' = [rxBuffer EXCEPT ![k] =
           [i \in 0..(BufferSize - 1) |-> IF i < left THEN rxBuffer[k][position + i] ELSE rxBuffer[k][i]]]
      /\ rxIndex' = [rxIndex EXCEPT ![k] = left]
      /\ index' = [index EXCEPT ![k] = position]
      /\ parsing' = IF LoopGoesOn(left) THEN parsing ELSE parsing \ {k}
  BY <1>1 DEF MoveToFront, TypeOK
<1> HIDE DEF left
<1>4. rxBuffer' \in [Sockets -> [0..(BufferSize - 1) -> Byte]]
  <2>1. [i \in 0..(BufferSize - 1) |-> IF i < left THEN rxBuffer[k][position + i] ELSE rxBuffer[k][i]]
          \in [0..(BufferSize - 1) -> Byte]
    BY <1>1, <1>2 DEF TypeOK
  <2> QED
    BY <1>3, <2>1 DEF TypeOK
<1>5. index' \in [Sockets -> 0..(IndexModulus - 1)] /\ parsing' \subseteq Sockets
  BY <1>3 DEF TypeOK
<1>6. rxIndex' \in [Sockets -> Nat] /\ rxIndex'[k] = left
      /\ \A j \in Sockets \ {k} : rxIndex'[j] = rxIndex[j]
  BY <1>1, <1>2, <1>3, Sizes DEF Shape
<1>7. ASSUME NEW j \in Sockets
      PROVE  rxIndex'[j] \in (IF j \in parsing' THEN MinimumBytes ELSE 0)
                             ..(IF j \in parsing' THEN BufferSize ELSE MinimumBytes - 1)
  <2>1. CASE j = k
    <3>1. CASE left >= MinimumBytes
      <4>1. k \in parsing'
        BY <1>3, <3>1 DEF LoopGoesOn
      <4> QED
        BY <1>2, <1>6, <2>1, <3>1, <4>1, Sizes
    <3>2. CASE ~(left >= MinimumBytes)
      <4>1. k \notin parsing'
        BY <1>3, <3>2 DEF LoopGoesOn
      <4> QED
        BY <1>2, <1>6, <2>1, <3>2, <4>1, Sizes
    <3> QED
      BY <3>1, <3>2
  <2>2. CASE j # k
    <3>1. j \in parsing' <=> j \in parsing
      BY <1>3, <2>2
    <3> QED
      BY <1>6, <2>2, <3>1 DEF TypeOK
  <2> QED
    BY <2>1, <2>2
<1> QED
  BY <1>4, <1>5, <1>6, <1>7 DEF TypeOK

\* The positions behind a frame and behind an unknown start.
LEMMA Positions ==
  ASSUME TypeOK, NEW k \in Sockets
  PROVE  /\ \A frame : AfterFrame(k, frame) \in 0..(IndexModulus - 1)
         /\ Advance(index[k], 2) \in 0..(IndexModulus - 1)
<1>1. index[k] \in Nat /\ ByteAt(k, 4) \in Nat
  BY ByteFact DEF Byte
<1>2. ASSUME NEW frame PROVE AfterFrame(k, frame) \in 0..(IndexModulus - 1)
  <2> DEFINE offset == 5 + ByteAt(k, 4) + 1 + IF k = "detection" THEN SteppedOver(frame) ELSE 0
  <2>1. SteppedOver(frame) \in {0, 1, 2}
    BY DEF SteppedOver
  <2>2. offset \in Nat
    BY <1>1, <2>1
  <2> HIDE DEF offset
  <2>3. Advance(index[k], offset) \in 0..(IndexModulus - 1)
    BY <1>1, <2>2, AdvanceFact
  <2> QED
    BY <2>3 DEF AfterFrame, offset
<1> QED
  BY <1>1, <1>2, AdvanceFact

\* receive_from() fills the buffer behind what is left over, and not beyond.
LEMMA ReceiveType ==
  ASSUME TypeOK, Shape, NEW k \in Sockets, NEW datagram \in Datagrams[k], parsing = {},
         NEW size, size = IF Len(datagram) <= BufferSize - rxIndex[k]
                          THEN Len(datagram) ELSE BufferSize - rxIndex[k]
  PROVE  /\ datagram \in Seq(Byte) /\ Len(datagram) \in 0..BufferSize
         /\ size \in 0..BufferSize /\ rxIndex[k] \in 0..(MinimumBytes - 1)
         /\ rxIndex[k] + size \in 0..BufferSize
         /\ \A i \in 0..(BufferSize - 1) :
               rxIndex[k] <= i /\ i < rxIndex[k] + size => datagram[i - rxIndex[k] + 1] \in Byte
<1>1. datagram \in Seq(Byte) /\ Len(datagram) <= BufferSize /\ Len(datagram) \in Nat
  BY FramingAssumption
<1>2. rxIndex[k] \in 0..(MinimumBytes - 1)
  BY DEF TypeOK
<1>3. size \in 0..BufferSize /\ rxIndex[k] + size \in 0..BufferSize /\ size <= Len(datagram)
  BY <1>1, <1>2, Sizes
<1>4. ASSUME NEW i \in 0..(BufferSize - 1), rxIndex[k] <= i, i < rxIndex[k] + size
      PROVE  datagram[i - rxIndex[k] + 1] \in Byte
  <2>1. i - rxIndex[k] + 1 \in 1..Len(datagram)
    BY <1>1, <1>2, <1>3, <1>4
  <2> QED
    BY <1>1, <2>1
<1> QED
  BY <1>1, <1>2, <1>3, <1>4, Sizes

\* Receive writes the datagram, cut to the room there is.
LEMMA ReceiveInv ==
  ASSUME TypeOK, Shape, NEW k \in Sockets, Receive(k)
  PROVE  TypeOK' /\ Shape'
<1>1. PICK datagram \in Datagrams[k] :
        LET room == BufferSize - rxIndex[k]
            size == IF Len(datagram) <= room THEN Len(datagram) ELSE room
            In(i) == rxIndex[k] <= i /\ i < rxIndex[k] + size
        IN  /\ rxBuffer' = [rxBuffer EXCEPT ![k] =
                 [i \in 0..(BufferSize - 1) |->
                    IF In(i) THEN datagram[i - rxIndex[k] + 1] ELSE @[i]]]
            /\ rxIndex' = [rxIndex EXCEPT ![k] = @ + size]
            /\ parsing' = IF LoopGoesOn(rxIndex[k] + size) THEN parsing \cup {k} ELSE parsing
            /\ received' = [received EXCEPT ![k] = Append(@, datagram)]
  BY DEF Receive
<1>2. PICK size : size = IF Len(datagram) <= BufferSize - rxIndex[k]
                         THEN Len(datagram) ELSE BufferSize - rxIndex[k]
  OBVIOUS
<1>3. /\ rxBuffer' = [rxBuffer EXCEPT ![k] =
           [i \in 0..(BufferSize - 1) |->
              IF rxIndex[k] <= i /\ i < rxIndex[k] + size
              THEN datagram[i - rxIndex[k] + 1] ELSE rxBuffer[k][i]]]
      /\ rxIndex' = [rxIndex EXCEPT ![k] = rxIndex[k] + size]
      /\ parsing' = IF LoopGoesOn(rxIndex[k] + size) THEN parsing \cup {k} ELSE parsing
      /\ received' = [received EXCEPT ![k] = Append(received[k], datagram)]
  BY <1>1, <1>2 DEF TypeOK, Shape
<1>4. parsing = {}
  BY DEF Receive
<1>5. /\ datagram \in Seq(Byte)
      /\ rxIndex[k] + size \in 0..BufferSize
      /\ \A i \in 0..(BufferSize - 1) :
            rxIndex[k] <= i /\ i < rxIndex[k] + size => datagram[i - rxIndex[k] + 1] \in Byte
  BY <1>2, <1>4, ReceiveType
<1>6. rxBuffer' \in [Sockets -> [0..(BufferSize - 1) -> Byte]]
  <2>1. [i \in 0..(BufferSize - 1) |->
           IF rxIndex[k] <= i /\ i < rxIndex[k] + size
           THEN datagram[i - rxIndex[k] + 1] ELSE rxBuffer[k][i]] \in [0..(BufferSize - 1) -> Byte]
    BY <1>5 DEF TypeOK
  <2> QED
    BY <1>3, <2>1 DEF TypeOK
<1>7. index' \in [Sockets -> 0..(IndexModulus - 1)] /\ parsing' \subseteq Sockets
  <2>1. 0 \in 0..(IndexModulus - 1)
    BY Sizes
  <2>2. index' = [index EXCEPT ![k] = 0]
    BY DEF Receive
  <2> QED
    BY <1>3, <2>1, <2>2 DEF TypeOK
<1>8. /\ rxIndex' \in [Sockets -> Nat] /\ rxIndex'[k] = rxIndex[k] + size
      /\ \A j \in Sockets \ {k} : rxIndex'[j] = rxIndex[j]
  BY <1>3, <1>5, Sizes DEF Shape
<1>9. ASSUME NEW j \in Sockets
      PROVE  rxIndex'[j] \in (IF j \in parsing' THEN MinimumBytes ELSE 0)
                             ..(IF j \in parsing' THEN BufferSize ELSE MinimumBytes - 1)
  <2>1. CASE j = k
    <3>1. CASE rxIndex[k] + size >= MinimumBytes
      <4>1. k \in parsing'
        BY <1>3, <3>1 DEF LoopGoesOn
      <4> QED
        BY <1>5, <1>8, <2>1, <3>1, <4>1, Sizes
    <3>2. CASE ~(rxIndex[k] + size >= MinimumBytes)
      <4>1. k \notin parsing'
        BY <1>3, <1>4, <3>2 DEF LoopGoesOn
      <4> QED
        BY <1>5, <1>8, <2>1, <3>2, <4>1, Sizes
    <3> QED
      BY <3>1, <3>2
  <2>2. CASE j # k
    <3>1. j \notin parsing' /\ j \notin parsing
      BY <1>3, <1>4, <2>2
    <3> QED
      BY <1>8, <2>2, <3>1 DEF TypeOK
  <2> QED
    BY <2>1, <2>2
<1>10. TypeOK'
  BY <1>6, <1>7, <1>9 DEF TypeOK
<1>11. Shape'
  <2>1. DOMAIN handled' = Sockets /\ DOMAIN leftover' = Sockets
    BY DEF Receive, Shape
  <2>2. Append(received[k], datagram) \in Seq(Seq(Byte))
    BY <1>5 DEF Shape
  <2>3. DOMAIN received' = Sockets /\ \A j \in Sockets : received'[j] \in Seq(Seq(Byte))
    BY <1>3, <2>2 DEF Shape
  <2> QED
    BY <1>8, <2>1, <2>3 DEF Shape
<1> QED
  BY <1>10, <1>11

\* The types hold throughout.
LEMMA TypeInvariance == Spec => [](TypeOK /\ Shape)
<1>1. Init => TypeOK /\ Shape
  BY Sizes DEF Init, TypeOK, Shape, Byte
<1>2. TypeOK /\ Shape /\ [Next]_vars => (TypeOK /\ Shape)'
  <2> SUFFICES ASSUME TypeOK, Shape, [Next]_vars PROVE (TypeOK /\ Shape)'
    OBVIOUS
  <2>1. ASSUME NEW k \in Sockets, HandleFrame(k) PROVE (TypeOK /\ Shape)'
    <3>1. k \in parsing /\ MoveToFront(k, rxIndex[k], AfterFrame(k, FrameAt(k)))
      BY <2>1 DEF HandleFrame
    <3>2. TypeOK' /\ rxIndex' \in [Sockets -> Nat]
      BY <3>1, MoveType, Positions
    <3>3. DOMAIN handled' = Sockets /\ received' = received /\ leftover' = leftover
      BY <2>1 DEF HandleFrame, Shape
    <3> QED
      BY <3>2, <3>3 DEF Shape
  <2>2. ASSUME NEW k \in Sockets, UnknownStart(k) PROVE (TypeOK /\ Shape)'
    <3>1. k \in parsing /\ MoveToFront(k, 0, Advance(index[k], 2))
      BY <2>2 DEF UnknownStart
    <3>2. TypeOK' /\ rxIndex' \in [Sockets -> Nat]
      BY <3>1, MoveType, Positions
    <3>3. handled' = handled /\ received' = received /\ leftover' = leftover
      BY <2>2 DEF UnknownStart
    <3> QED
      BY <3>2, <3>3 DEF Shape
  <2>3. CASE UNCHANGED vars
    BY <2>3 DEF vars, TypeOK, Shape
  <2> QED
    BY <2>1, <2>2, <2>3, ReceiveInv DEF Next, LoopPass
<1> QED
  BY <1>1, <1>2, PTL DEF Spec

\* Whatever arrives on the sockets, the read position stays in the buffer, and
\* a handler leaves less than MinimumBytes for its next call.
THEOREM PositionsStayInBuffer == Spec => []TypeOK
<1>1. TypeOK /\ Shape => TypeOK
  OBVIOUS
<1> QED
  BY <1>1, TypeInvariance, PTL

---------------------------------------------------------------------------
(* A frame that finds the buffer empty is handled. *)

\* No frame is as long as the range of the read position, which is a byte in
\* the code.  (On a frame of exactly that length the handler never returns.)
\* A subnet announcement and its two extra steps fit, and one frame a call is
\* recorded.
FramesFit ==
  /\ IndexModulus > 13 /\ MaxHandled > 0
  /\ \A k \in Sockets : \A d \in Datagrams[k] : IsFrame(d) => Len(d) < IndexModulus

\* The datagram d is a frame the loop looks at.
LongEnough(d) == IsFrame(d) /\ Len(d) >= MinimumBytes

\* The handler has d before it, or has handled it and is done.
Ahead(k, d) ==
  /\ k \in parsing /\ index[k] = 0 /\ rxIndex[k] = Len(d) /\ handled[k] = <<>>
  /\ \A i \in 1..Len(d) : rxBuffer[k][i - 1] = d[i]
Done(k, d) ==
  k \notin parsing /\ handled[k] = <<Content(d)>> /\ rxIndex[k] = 0

FrameInv ==
  \A k \in Sockets :
     /\ received[k] # <<>> => LastDatagram(k) \in Datagrams[k]
     /\ (received[k] # <<>> /\ leftover[k] = 0 /\ LongEnough(LastDatagram(k)))
          => Ahead(k, LastDatagram(k)) \/ Done(k, LastDatagram(k))

\* A step of one socket leaves the other alone.
LEMMA FrameFrame ==
  ASSUME FrameInv, NEW j \in Sockets,
         rxBuffer'[j] = rxBuffer[j], rxIndex'[j] = rxIndex[j], index'[j] = index[j],
         j \in parsing' <=> j \in parsing, handled'[j] = handled[j],
         received'[j] = received[j], leftover'[j] = leftover[j]
  PROVE  /\ received'[j] # <<>> => LastDatagram(j)' \in Datagrams[j]
         /\ (received'[j] # <<>> /\ leftover'[j] = 0 /\ LongEnough(LastDatagram(j)'))
              => Ahead(j, LastDatagram(j))' \/ Done(j, LastDatagram(j))'
<1>1. LastDatagram(j)' = LastDatagram(j)
  BY DEF LastDatagram
<1> QED
  BY <1>1 DEF FrameInv, Ahead, Done

\* What the handler reads of a frame that is ahead.
LEMMA FrameAhead ==
  ASSUME TypeOK, FramesFit, NEW k \in Sockets, NEW d \in Datagrams[k], LongEnough(d), Ahead(k, d)
  PROVE  /\ StartsFrame(k) /\ FrameAt(k) = Content(d)
         /\ AfterFrame(k, FrameAt(k)) >= Len(d)
<1>1. d \in Seq(Byte) /\ Len(d) \in Nat /\ Len(d) >= 6 /\ Len(d) < IndexModulus
      /\ d[1] = 128 /\ d[2] = 129 /\ Len(d) = d[5] + 6 /\ d[5] \in Nat
  <2>1. d \in Seq(Byte) /\ Len(d) \in Nat /\ Len(d) >= 6 /\ d[1] = 128 /\ d[2] = 129 /\ Len(d) = d[5] + 6
    BY FramingAssumption DEF LongEnough, IsFrame
  <2>2. 5 \in 1..Len(d)
    BY <2>1
  <2>3. d[5] \in Byte
    BY <2>1, <2>2
  <2>4. Len(d) < IndexModulus
    BY DEF FramesFit, LongEnough
  <2>5. d[5] \in Nat
    BY <2>3 DEF Byte
  <2> QED
    BY <2>1, <2>4, <2>5
<1>2. index[k] = 0 /\ \A i \in 1..Len(d) : rxBuffer[k][i - 1] = d[i]
  BY DEF Ahead
<1>3. ASSUME NEW o \in 0..(IndexModulus - 1) PROVE Advance(index[k], o) = o
  BY <1>2, Sizes, AdvanceFact
<1>4. ASSUME NEW o \in 0..4 PROVE ByteAt(k, o) = d[o + 1]
  <2>1. o \in 0..(IndexModulus - 1) /\ o + 1 \in 1..Len(d) /\ (o + 1) - 1 = o
    BY <1>1, Sizes
  <2>2. rxBuffer[k][(o + 1) - 1] = d[o + 1]
    BY <1>2, <2>1
  <2> QED
    BY <1>3, <2>1, <2>2 DEF ByteAt
<1>5. /\ ByteAt(k, 0) = d[1] /\ ByteAt(k, 1) = d[2] /\ ByteAt(k, 2) = d[3]
      /\ ByteAt(k, 3) = d[4] /\ ByteAt(k, 4) = d[5]
  <2>1. /\ ByteAt(k, 0) = d[0 + 1] /\ ByteAt(k, 1) = d[1 + 1] /\ ByteAt(k, 2) = d[2 + 1]
        /\ ByteAt(k, 3) = d[3 + 1] /\ ByteAt(k, 4) = d[4 + 1]
    BY <1>4
  <2> QED
    BY <2>1
<1>6. FrameAt(k).data = SubSeq(d, 6, Len(d) - 1)
  <2>1. Advance(index[k], 5) = 5
    BY <1>1, <1>3, Sizes
  <2>2. FrameAt(k).data = [j \in 1..d[5] |-> IF k = "detection" THEN ByteAt(k, 4 + j)
                                             ELSE rxBuffer[k][5 + j - 1]]
    BY <1>5, <2>1 DEF FrameAt
  <2>3. ASSUME NEW j \in 1..d[5]
        PROVE  rxBuffer[k][5 + j - 1] = d[6 + j - 1] /\ ByteAt(k, 4 + j) = d[6 + j - 1]
    <3>1. 5 + j \in 1..Len(d) /\ 6 + j - 1 = 5 + j /\ 4 + j \in 0..(IndexModulus - 1)
          /\ 5 + j - 1 = 4 + j
      BY <1>1, Sizes
    <3>2. Advance(index[k], 4 + j) = 4 + j
      BY <1>3, <3>1
    <3> QED
      BY <1>2, <3>1, <3>2 DEF ByteAt
  <2>4. SubSeq(d, 6, Len(d) - 1) = [j \in 1..d[5] |-> d[6 + j - 1]]
    BY <1>1
  <2> QED
    BY <2>2, <2>3, <2>4
<1>7. FrameAt(k) = Content(d)
  BY <1>5, <1>6 DEF FrameAt, Content
<1>8. AfterFrame(k, FrameAt(k)) >= Len(d)
  <2> DEFINE stepped == IF k = "detection" THEN SteppedOver(FrameAt(k)) ELSE 0
  <2>1. stepped \in {0, 1, 2} /\ (stepped # 0 => Len(FrameAt(k).data) = 5)
    BY DEF SteppedOver
  <2>2. Len(FrameAt(k).data) = d[5]
    BY <1>1, <1>6
  <2> HIDE DEF stepped
  <2>3. Len(d) + stepped \in 0..(IndexModulus - 1)
    BY <1>1, <2>1, <2>2, Sizes DEF FramesFit
  <2>4. AfterFrame(k, FrameAt(k)) = Advance(index[k], Len(d) + stepped)
    <3>1. 5 + ByteAt(k, 4) + 1 + stepped = Len(d) + stepped
      BY <1>1, <1>5, <2>1
    <3> QED
      BY <3>1 DEF AfterFrame, stepped
  <2> QED
    BY <1>1, <1>3, <2>1, <2>3, <2>4
<1> QED
  BY <1>1, <1>5, <1>7, <1>8 DEF StartsFrame

\* A frame received into an empty buffer is ahead of the handler.
LEMMA ReceiveFrame ==
  ASSUME TypeOK, Shape, FrameInv, NEW k \in Sockets, Receive(k)
  PROVE  FrameInv'
<1>1. PICK datagram \in Datagrams[k] :
        LET room == BufferSize - rxIndex[k]
            size == IF Len(datagram) <= room THEN Len(datagram) ELSE room
            In(i) == rxIndex[k] <= i /\ i < rxIndex[k] + size
        IN  /\ rxBuffer' = [rxBuffer EXCEPT ![k] =
                 [i \in 0..(BufferSize - 1) |->
                    IF In(i) THEN datagram[i - rxIndex[k] + 1] ELSE @[i]]]
            /\ rxIndex' = [rxIndex EXCEPT ![k] = @ + size]
            /\ parsing' = IF LoopGoesOn(rxIndex[k] + size) THEN parsing \cup {k} ELSE parsing
            /\ received' = [received EXCEPT ![k] = Append(@, datagram)]
  BY DEF Receive
<1>2. /\ index' = [index EXCEPT ![k] = 0] /\ handled' = [handled EXCEPT ![k] = <<>>]
      /\ leftover' = [leftover EXCEPT ![k] = rxIndex[k]] /\ parsing = {}
  BY DEF Receive
<1>3. ASSUME NEW j \in Sockets, j # k
      PROVE  /\ rxBuffer'[j] = rxBuffer[j] /\ rxIndex'[j] = rxIndex[j] /\ index'[j] = index[j]
             /\ j \in parsing' <=> j \in parsing
             /\ handled'[j] = handled[j] /\ received'[j] = received[j] /\ leftover'[j] = leftover[j]
  BY <1>1, <1>2, <1>3 DEF TypeOK, Shape
<1>4. received'[k] = Append(received[k], datagram) /\ received[k] \in Seq(Seq(Byte))
      /\ datagram \in Seq(Byte)
  BY <1>1, FramingAssumption DEF Shape
<1>5. LastDatagram(k)' = datagram
  <2>1. Len(received'[k]) = Len(received[k]) + 1 /\ received'[k][Len(received[k]) + 1] = datagram
    BY <1>4
  <2> QED
    BY <2>1 DEF LastDatagram
<1>6. ASSUME leftover'[k] = 0, LongEnough(datagram)
      PROVE  Ahead(k, datagram)'
  <2>1. rxIndex[k] = 0
    BY <1>2, <1>6 DEF Shape
  <2>2. Len(datagram) \in 0..BufferSize /\ datagram \in Seq(Byte)
    BY <1>2, ReceiveType
  <2>3. Len(datagram) <= BufferSize - rxIndex[k] /\ rxIndex[k] + Len(datagram) = Len(datagram)
    BY <2>1, <2>2, Sizes
  <2>4. /\ rxBuffer'[k] = [i \in 0..(BufferSize - 1) |->
                             IF 0 <= i /\ i < Len(datagram) THEN datagram[i - 0 + 1] ELSE rxBuffer[k][i]]
        /\ rxIndex'[k] = Len(datagram)
        /\ parsing' = IF LoopGoesOn(Len(datagram)) THEN parsing \cup {k} ELSE parsing
    BY <1>1, <2>1, <2>3 DEF TypeOK, Shape
  <2>5. k \in parsing'
    BY <1>6, <2>4 DEF LongEnough, LoopGoesOn
  <2>6. index'[k] = 0 /\ handled'[k] = <<>>
    BY <1>2 DEF TypeOK, Shape
  <2>7. ASSUME NEW i \in 1..Len(datagram) PROVE rxBuffer'[k][i - 1] = datagram[i]
    <3>1. i - 1 \in 0..(BufferSize - 1) /\ 0 <= i - 1 /\ i - 1 < Len(datagram) /\ (i - 1) - 0 + 1 = i
      BY <2>2, Sizes
    <3> QED
      BY <2>4, <3>1
  <2> QED
    BY <2>4, <2>5, <2>6, <2>7 DEF Ahead
<1>7. \A j \in Sockets :
        /\ received'[j] # <<>> => LastDatagram(j)' \in Datagrams[j]
        /\ (received'[j] # <<>> /\ leftover'[j] = 0 /\ LongEnough(LastDatagram(j)'))
             => Ahead(j, LastDatagram(j))' \/ Done(j, LastDatagram(j))'
  <2> TAKE j \in Sockets
  <2>1. CASE j = k
    BY <1>1, <1>5, <1>6, <2>1 DEF Ahead
  <2>2. CASE j # k
    BY <1>3, <2>2, FrameFrame
  <2> QED
    BY <2>1, <2>2
<1> QED
  BY <1>7 DEF FrameInv, LongEnough, IsFrame

\* The pass of the loop over a frame that is ahead handles it and ends the call.
LEMMA PassFrame ==
  ASSUME TypeOK, Shape, FramesFit, FrameInv, NEW k \in Sockets, HandleFrame(k) \/ UnknownStart(k)
  PROVE  FrameInv'
<1>1. received' = received /\ leftover' = leftover /\ k \in parsing
  BY DEF HandleFrame, UnknownStart
<1>2. LastDatagram(k)' = LastDatagram(k)
  BY <1>1 DEF LastDatagram
<1>3. ASSUME NEW j \in Sockets, j # k
      PROVE  /\ rxBuffer'[j] = rxBuffer[j] /\ rxIndex'[j] = rxIndex[j] /\ index'[j] = index[j]
             /\ j \in parsing' <=> j \in parsing
             /\ handled'[j] = handled[j] /\ received'[j] = received[j] /\ leftover'[j] = leftover[j]
  BY <1>1, <1>3 DEF HandleFrame, UnknownStart, MoveToFront, TypeOK, Shape
<1>4. ASSUME received[k] # <<>>, leftover[k] = 0, LongEnough(LastDatagram(k))
      PROVE  Done(k, LastDatagram(k))'
  <2> DEFINE d == LastDatagram(k)
             position == AfterFrame(k, FrameAt(k))
  <2>1. d \in Datagrams[k] /\ Ahead(k, d)
    BY <1>1, <1>4 DEF FrameInv, Done
  <2> HIDE DEF d
  <2>2. StartsFrame(k) /\ FrameAt(k) = Content(d) /\ position >= Len(d)
    BY <1>4, <2>1, FrameAhead DEF d
  <2>3. HandleFrame(k)
    BY <2>2 DEF UnknownStart
  <2>4. position \in 0..(IndexModulus - 1) /\ rxIndex[k] = Len(d) /\ rxIndex[k] \in Nat
    BY <2>1, Positions DEF Ahead, Shape
  <2>5. MoveToFront(k, rxIndex[k], position)
    BY <2>3 DEF HandleFrame
  <2> HIDE DEF position
  <2>6. BytesLeft(rxIndex[k], position) = 0
    BY <2>2, <2>4, Sizes DEF BytesLeft
  <2>7. rxIndex'[k] = 0 /\ k \notin parsing'
    BY <2>5, <2>6, Sizes DEF MoveToFront, LoopGoesOn, Shape
  <2>8. handled'[k] = <<Content(d)>>
    <3>1. handled[k] = <<>> /\ Len(<<>>) = 0 /\ 0 < MaxHandled
      BY <2>1, FramingAssumption DEF Ahead, FramesFit
    <3>2. handled'[k] = Append(<<>>, Content(d))
      BY <2>2, <2>3, <3>1 DEF HandleFrame, Shape
    <3> QED
      BY <3>2
  <2> QED
    BY <1>2, <2>7, <2>8 DEF Done, d
<1>5. \A j \in Sockets :
        /\ received'[j] # <<>> => LastDatagram(j)' \in Datagrams[j]
        /\ (received'[j] # <<>> /\ leftover'[j] = 0 /\ LongEnough(LastDatagram(j)'))
             => Ahead(j, LastDatagram(j))' \/ Done(j, LastDatagram(j))'
  <2> TAKE j \in Sockets
  <2>1. CASE j = k
    BY <1>1, <1>2, <1>4, <2>1 DEF FrameInv
  <2>2. CASE j # k
    BY <1>3, <2>2, FrameFrame
  <2> QED
    BY <2>1, <2>2
<1> QED
  BY <1>5 DEF FrameInv, LongEnough, IsFrame

\* A frame that finds the buffer empty is ahead of the handler, or handled.
LEMMA FrameInvariance ==
  ASSUME FramesFit
  PROVE  Spec => []FrameInv
<1>1. Init => FrameInv
  BY DEF Init, FrameInv
<1>2. TypeOK /\ Shape /\ FrameInv /\ [Next]_vars => FrameInv'
  <2> SUFFICES ASSUME TypeOK, Shape, FrameInv, [Next]_vars PROVE FrameInv'
    OBVIOUS
  <2>1. CASE UNCHANGED vars
    BY <2>1 DEF vars, FrameInv, LastDatagram, LongEnough, Ahead, Done
  <2> QED
    BY <2>1, ReceiveFrame, PassFrame DEF Next, LoopPass
<1> QED
  BY <1>1, <1>2, TypeInvariance, PTL DEF Spec

\* A frame that finds the buffer empty is handled once, intact and at once, and
\* leaves the buffer empty, for any datagrams whose frames the position can span.
THEOREM FramesAreHandled ==
  ASSUME FramesFit
  PROVE  Spec => []FrameIsHandled
<1>1. FrameInv => FrameIsHandled
  BY DEF FrameInv, FrameIsHandled, LongEnough, Ahead, Done
<1> QED
  BY <1>1, FrameInvariance, PTL
---------------------------------------------------------------------------
(* The frames handled are frames that were sent, and the parser falls back *)
(* into step.  The buffers outlive the calls and nothing clears them: the  *)
(* argument has to cover what earlier datagrams left behind the bytes      *)
(* received, because the read position keeps its value when the bytes move *)
(* to the front.                                                           *)

\* No datagram reaches this position.
Top == IndexModulus - 3

\* The bytes of b from t on are those of frame i of d but its first.
RestAt(b, t, d, i) == \A j \in 1..(d[i + 4] + 5) : b[t + j - 1] = d[i + j]

\* What was received has a frame whose rest is at t; if t is among the n bytes
\* of the buffer that count, so is all of it.
RestReceived(b, ds, n, t) ==
  \E m \in DOMAIN ds : \E i \in 1..(Len(ds[m]) - 5) :
    /\ StartOfFrame(ds[m], i) /\ RestAt(b, t, ds[m], i)
    /\ t + ds[m][i + 4] + 5 <= Top
    /\ t < n => t + ds[m][i + 4] + 5 <= n

\* The buffer b, of whose bytes n count, after the datagrams ds: it is empty from
\* Top on, and what looks like a header is followed by the rest of a frame that
\* was received, in what is left of older datagrams too.
BufferOK(b, ds, n) ==
  /\ n \in 0..Top
  /\ \A p \in Top..(BufferSize - 1) : b[p] = 0
  /\ n > 0 => b[n - 1] # 128
  /\ \A t \in 1..(BufferSize - 1) :
       (b[t] = 129 /\ b[t - 1] = 128) => RestReceived(b, ds, n, t)

Buffers ==
  \A k \in Sockets :
    /\ received[k] \in Seq(Datagrams[k])
    /\ AllUnambiguous(k) => BufferOK(rxBuffer[k], received[k], rxIndex[k])

\* A frame with this content was received on socket k.
Sent(k, content) ==
  \E m \in DOMAIN received[k] :
    \E i \in 1..(Len(received[k][m]) - 5) :
      StartOfFrame(received[k][m], i)
        /\ content = Content(SubSeq(received[k][m], i, i + received[k][m][i + 4] + 5))

FrameContent == [src : Byte, pgn : Byte, data : Seq(Byte)]

HandledInv ==
  \A k \in Sockets :
    /\ handled[k] \in Seq(FrameContent)
    /\ AllUnambiguous(k) => \A n \in DOMAIN handled[k] : Sent(k, handled[k][n])

\* AgIO sends its frames one per datagram, and nothing else on the socket looks
\* like a header.
OneFrameEach ==
  "detection" \in Sockets =>
     \A d \in Datagrams["detection"] :
        Unambiguous(d) /\ \A i \in 1..Len(d) : FrameInside(d, i) => i = 1 /\ IsFrame(d)

\* At most seven bytes are left over, not two frames.
ShortMinimum == MinimumBytes <= 8

\* The datagram d lies behind the x first bytes of the buffer.
Behind(k, d, x) ==
  /\ k \in parsing /\ rxIndex[k] = x + Len(d)
  /\ \A i \in 1..Len(d) : rxBuffer[k][x + i - 1] = d[i]

\* Before the first pass: what is left over is in front of d, and if it starts
\* a frame it holds all of it.
FirstPass(k, d) ==
  /\ Behind(k, d, leftover[k]) /\ index[k] = 0 /\ leftover[k] \in 1..(MinimumBytes - 1)
  /\ rxBuffer[k][0] = 128 /\ rxBuffer[k][1] = 129 => rxBuffer[k][4] + 6 <= leftover[k]

\* Before the second: a frame left over was handled, and the position points
\* into d, behind its header.
SecondPass(k, d) ==
  \E x \in {0, 1} : Behind(k, d, x) /\ index[k] \in 6..7 /\ index[k] < MinimumBytes

StepInv ==
  \A k \in Sockets :
    (/\ received[k] # <<>> /\ leftover[k] # 0 /\ AllUnambiguous(k)
     /\ LongEnough(LastDatagram(k))) =>
      \/ k \notin parsing /\ rxIndex[k] = 0
      \/ FirstPass(k, LastDatagram(k)) \/ SecondPass(k, LastDatagram(k))

\* No datagram reaches the end of the range of the read position.
LEMMA TopFact == Top \in Nat /\ Top = IndexModulus - 3 /\ Top < BufferSize
  BY Sizes DEF Top

\* The frame a sender put into a datagram is complete.
LEMMA StartFact ==
  ASSUME NEW d, NEW i, StartOfFrame(d, i)
  PROVE  FrameInside(d, i)
  BY DEF StartOfFrame

\* What Unambiguous says of one datagram.
LEMMA CleanFact ==
  ASSUME NEW d \in Seq(Byte), Unambiguous(d)
  PROVE  /\ Len(d) \in Nat /\ Len(d) + MinimumBytes <= Top + 1
         /\ Top \in Nat /\ Top < IndexModulus /\ Top < BufferSize
         /\ \A i \in 1..(Len(d) - 1) : (d[i] = 128 /\ d[i + 1] = 129) => StartOfFrame(d, i)
         /\ d # <<>> => d[Len(d)] # 128
<1>1. Len(d) \in Nat
  OBVIOUS
<1>2. Len(d) + MinimumBytes + 2 <= IndexModulus
  BY DEF Unambiguous
<1>3. \A i \in 1..(Len(d) - 1) : (d[i] = 128 /\ d[i + 1] = 129) => StartOfFrame(d, i)
  BY <1>1 DEF Unambiguous
<1>4. d # <<>> => d[Len(d)] # 128
  <2>1. d # <<>> => Len(d) \in 1..Len(d) /\ ~(Len(d) < Len(d))
    BY <1>1
  <2> QED
    BY <2>1 DEF Unambiguous
<1>5. Len(d) + MinimumBytes <= Top + 1 /\ Top \in Nat /\ Top < IndexModulus /\ Top < BufferSize
  BY <1>1, <1>2, Sizes DEF Top
<1> QED
  BY <1>1, <1>3, <1>4, <1>5

\* The condition on what was received, after a step.
LEMMA UnambiguousNext ==
  ASSUME NEW k
  PROVE  AllUnambiguous(k)' <=> \A m \in DOMAIN received'[k] : Unambiguous(received'[k][m])
  BY DEF AllUnambiguous, Unambiguous, StartOfFrame, FrameInside

\* It stays met when nothing is received.
LEMMA UnambiguousSame ==
  ASSUME NEW k, received'[k] = received[k]
  PROVE  AllUnambiguous(k)' <=> AllUnambiguous(k)
  BY UnambiguousNext DEF AllUnambiguous

\* It was met before one more datagram if it is met behind it.
LEMMA UnambiguousBefore ==
  ASSUME Shape, NEW k \in Sockets, NEW d \in Seq(Byte), received'[k] = Append(received[k], d),
         AllUnambiguous(k)'
  PROVE  AllUnambiguous(k) /\ Unambiguous(d)
<1>1. \A m \in DOMAIN received'[k] : Unambiguous(received'[k][m])
  BY UnambiguousNext
<1>2. PICK s \in Seq(Seq(Byte)) : s = received[k]
  BY DEF Shape
<1>3. \A m \in DOMAIN s : m \in DOMAIN Append(s, d) /\ Append(s, d)[m] = s[m]
  BY <1>2
<1>4. Len(s) + 1 \in DOMAIN Append(s, d) /\ Append(s, d)[Len(s) + 1] = d
  BY <1>2
<1> QED
  BY <1>1, <1>2, <1>3, <1>4, Zenon DEF AllUnambiguous

\* The numbers in a frame.
LEMMA InsideFact ==
  ASSUME NEW d \in Seq(Byte), NEW i \in Nat, FrameInside(d, i)
  PROVE  /\ i \in 1..Len(d) /\ Len(d) \in Nat /\ d[i + 4] \in 0..255
         /\ i + d[i + 4] + 5 <= Len(d) /\ d[i] = 128 /\ d[i + 1] = 129
         /\ i \in 1..(Len(d) - 5)
<1>1. Len(d) \in Nat /\ i \in 1..(Len(d) - 5)
  BY DEF FrameInside
<1>2. i + 4 \in 1..Len(d) /\ i \in 1..Len(d) /\ i \in Nat
  BY <1>1
<1>3. d[i + 4] \in Byte
  BY <1>2
<1> QED
  BY <1>1, <1>2, <1>3 DEF FrameInside, Byte

\* From position u on, c holds what b holds from t on to the limit.
Copied(c, u, b, t, limit) == \A x \in Nat : t + x < limit => c[u + x] = b[t + x]

\* What was received before is part of what was received since.
Prolongs(es, ds) == \A l \in DOMAIN ds : l \in DOMAIN es /\ es[l] = ds[l]

\* The end of the bytes that position t belongs to.
EndOf(t, n) == IF t < n THEN n ELSE Top

\* The rest of a frame that moves forward with the bytes that count, or stays
\* where it is, remains one.
LEMMA RestMoves ==
  ASSUME NEW b, NEW c, NEW ds \in Seq(Seq(Byte)), NEW es, NEW n \in Nat, NEW m \in Nat,
         NEW t \in Nat, NEW u \in Nat, u <= t, Top \in Nat, n <= Top,
         RestReceived(b, ds, n, t),
         Prolongs(es, ds), Copied(c, u, b, t, EndOf(t, n)),
         u < m => t < n /\ n - t <= m - u
  PROVE  RestReceived(c, es, m, u)
<1>1. PICK l \in DOMAIN ds : \E i \in 1..(Len(ds[l]) - 5) :
        /\ StartOfFrame(ds[l], i) /\ RestAt(b, t, ds[l], i)
        /\ t + ds[l][i + 4] + 5 <= Top
        /\ t < n => t + ds[l][i + 4] + 5 <= n
  BY DEF RestReceived
<1>3. PICK d \in Seq(Byte) : d = ds[l] /\ l \in DOMAIN es /\ es[l] = d
  BY DEF Prolongs
<1>2. PICK i \in 1..(Len(d) - 5) :
        /\ StartOfFrame(d, i) /\ RestAt(b, t, d, i)
        /\ t + d[i + 4] + 5 <= Top
        /\ t < n => t + d[i + 4] + 5 <= n
  BY <1>1, <1>3
<1> DEFINE size == d[i + 4] + 5
<1>4. d[i + 4] \in 0..255
  <2>1. FrameInside(d, i) /\ i \in Nat
    BY <1>2, StartFact
  <2> QED
    BY <2>1, InsideFact
<1>5. size \in Nat /\ t + size <= EndOf(t, n) /\ EndOf(t, n) \in Nat
      /\ t + size <= Top /\ (t < n => t + size <= n)
  <2>1. PICK length \in 0..255 : length = d[i + 4]
    BY <1>4
  <2>2. size = length + 5 /\ t + length + 5 <= Top /\ (t < n => t + length + 5 <= n)
    BY <1>2, <2>1
  <2> HIDE DEF size
  <2> QED
    BY <2>2 DEF EndOf
<1> HIDE DEF size
<1>6. ASSUME NEW j \in 1..size PROVE c[u + j - 1] = d[i + j]
  <2>1. b[t + j - 1] = d[i + j]
    BY <1>2 DEF RestAt, size
  <2>2. j - 1 \in Nat /\ t + (j - 1) < EndOf(t, n)
        /\ u + (j - 1) = u + j - 1 /\ t + (j - 1) = t + j - 1
    BY <1>5
  <2>3. c[u + (j - 1)] = b[t + (j - 1)]
    BY <2>2 DEF Copied
  <2> QED
    BY <2>1, <2>2, <2>3
<1>7. RestAt(c, u, d, i)
  BY <1>6 DEF RestAt, size
<1>8. u + size <= Top /\ (u < m => u + size <= m)
  BY <1>5
<1>9. u + d[i + 4] + 5 <= Top /\ (u < m => u + d[i + 4] + 5 <= m)
  <2>1. PICK length \in 0..255 : length = d[i + 4]
    BY <1>4
  <2>2. size = length + 5
    BY <2>1 DEF size
  <2>3. u + length + 5 <= Top /\ (u < m => u + length + 5 <= m)
    BY <1>8, <2>2
  <2> QED
    BY <2>1, <2>3
<1> QED
  BY <1>2, <1>3, <1>7, <1>9 DEF RestReceived

\* The buffer c is b with the datagram d behind the n bytes left over.
Filled(c, b, n, d) ==
  \A i \in 0..(BufferSize - 1) : c[i] = IF n <= i /\ i < n + Len(d) THEN d[i - n + 1] ELSE b[i]

\* A datagram behind the bytes left over keeps the buffer in order.
LEMMA BufferReceive ==
  ASSUME NEW b, NEW c, NEW ds \in Seq(Seq(Byte)), NEW n \in 0..(MinimumBytes - 1),
         BufferOK(b, ds, n), NEW d \in Seq(Byte), Unambiguous(d), Filled(c, b, n, d),
         NEW m, m = n + Len(d)
  PROVE  BufferOK(c, Append(ds, d), m)
<1> DEFINE es == Append(ds, d)
<1>1. /\ Len(d) \in Nat /\ Len(d) + MinimumBytes <= Top + 1
      /\ Top \in Nat /\ Top < IndexModulus /\ Top < BufferSize
  BY CleanFact
<1>2. /\ \A i \in 1..(Len(d) - 1) : (d[i] = 128 /\ d[i + 1] = 129) => StartOfFrame(d, i)
      /\ d # <<>> => d[Len(d)] # 128
  BY CleanFact
<1>3. n \in Nat /\ m \in 0..Top /\ m \in Nat
  BY <1>1, Sizes
<1>4. es \in Seq(Seq(Byte))
  OBVIOUS
<1>5. Prolongs(es, ds) /\ Len(es) \in DOMAIN es /\ es[Len(es)] = d
  BY <1>4 DEF Prolongs
<1>6. ASSUME NEW p \in Top..(BufferSize - 1) PROVE c[p] = 0
  <2>1. p \in 0..(BufferSize - 1) /\ ~(p < n + Len(d)) /\ b[p] = 0
    BY <1>1, <1>3 DEF BufferOK
  <2> QED
    BY <2>1 DEF Filled
<1>7. ASSUME m > 0 PROVE c[m - 1] # 128
  <2>1. CASE Len(d) = 0
    <3>1. m = n /\ m - 1 \in 0..(BufferSize - 1) /\ ~(n <= m - 1)
      BY <1>1, <1>3, <1>7, <2>1, Sizes
    <3>2. b[n - 1] # 128
      BY <1>7, <3>1 DEF BufferOK
    <3> QED
      BY <3>1, <3>2 DEF Filled
  <2>2. CASE Len(d) # 0
    <3>1. m - 1 \in 0..(BufferSize - 1) /\ n <= m - 1 /\ m - 1 < n + Len(d) /\ (m - 1) - n + 1 = Len(d)
      BY <1>1, <1>3, <2>2, Sizes
    <3>2. d # <<>>
      BY <2>2
    <3> QED
      BY <1>2, <1>7, <3>1, <3>2 DEF Filled
  <2> QED
    BY <2>1, <2>2
<1>8. ASSUME NEW t \in 1..(BufferSize - 1), c[t] = 129, c[t - 1] = 128
      PROVE  RestReceived(c, es, m, t)
  <2>0. t \in Nat /\ t \in 0..(BufferSize - 1) /\ t - 1 \in 0..(BufferSize - 1)
    BY Sizes
  <2>1. ASSUME b[t] = 129, b[t - 1] = 128, t < n \/ m <= t
        PROVE  RestReceived(c, es, m, t)
    <3>1. RestReceived(b, ds, n, t)
      BY <2>1 DEF BufferOK
    <3>2. ASSUME NEW x \in Nat, t + x < EndOf(t, n) PROVE c[t + x] = b[t + x]
      <4>1. t + x \in 0..(BufferSize - 1) /\ ~(n <= t + x /\ t + x < n + Len(d))
        BY <1>1, <1>3, <2>0, <2>1, <3>2, Sizes DEF EndOf
      <4> QED
        BY <4>1 DEF Filled
    <3>3. n <= Top /\ t <= t /\ (t < m => t < n /\ n - t <= m - t)
      BY <1>1, <1>3, <2>0, <2>1
    <3>4. Copied(c, t, b, t, EndOf(t, n))
      BY <3>2 DEF Copied
    <3> HIDE DEF es
    <3> QED
      BY <1>1, <1>3, <1>4, <1>5, <2>0, <3>1, <3>3, <3>4, RestMoves
  <2>2. CASE t < n
    <3>1. c[t] = b[t] /\ c[t - 1] = b[t - 1]
      BY <2>0, <2>2, <1>3 DEF Filled
    <3> QED
      BY <1>8, <2>1, <2>2, <3>1
  <2>3. CASE t > m
    <3>1. ~(t < n + Len(d)) /\ ~(t - 1 < n + Len(d))
      BY <1>1, <1>3, <2>3
    <3>2. c[t] = b[t] /\ c[t - 1] = b[t - 1]
      BY <2>0, <3>1 DEF Filled
    <3> QED
      BY <1>3, <1>8, <2>0, <2>1, <2>3, <3>2
  <2>4. CASE t = m
    <3>1. m > 0 /\ t - 1 = m - 1
      BY <2>4, <2>0
    <3> QED
      BY <1>7, <1>8, <3>1
  <2>5. CASE n <= t /\ t < m
    <3> PICK i \in Nat : i = t - n
      BY <1>3, <2>0, <2>5
    <3>1. i + 1 \in 1..Len(d) /\ t - n + 1 = i + 1 /\ (i + 1) - 1 = i
      BY <1>1, <1>3, <2>0, <2>5
    <3>2. c[t] = d[i + 1]
      BY <2>0, <2>5, <3>1, <1>3 DEF Filled
    <3>3. i # 0 /\ d[i] = 128
      <4>1. CASE i = 0
        <5>1. n > 0 /\ t - 1 = n - 1 /\ ~(n <= t - 1)
          BY <1>3, <2>0, <4>1
        <5>2. c[t - 1] = b[t - 1]
          BY <2>0, <5>1 DEF Filled
        <5> QED
          BY <1>8, <5>1, <5>2 DEF BufferOK
      <4>2. CASE i # 0
        <5>1. n <= t - 1 /\ t - 1 < n + Len(d) /\ (t - 1) - n + 1 = i
          BY <1>1, <1>3, <2>0, <2>5, <3>1, <4>2
        <5>2. c[t - 1] = d[i]
          BY <2>0, <5>1 DEF Filled
        <5> QED
          BY <1>8, <4>2, <5>1, <5>2
      <4> QED
        BY <4>1, <4>2
    <3>4. StartOfFrame(d, i) /\ FrameInside(d, i)
      <4>1. i \in 1..(Len(d) - 1)
        BY <1>1, <3>1, <3>3
      <4>2. StartOfFrame(d, i)
        BY <1>2, <1>8, <3>2, <3>3, <4>1
      <4> QED
        BY <4>2, StartFact
    <3>5. /\ i \in 1..(Len(d) - 5) /\ i \in Nat /\ d[i + 4] \in 0..255
          /\ i + d[i + 4] + 5 <= Len(d)
      BY <1>1, <3>4, InsideFact
    <3> PICK length \in 0..255 : length = d[i + 4]
      BY <3>5
    <3>6. ASSUME NEW j \in 1..(length + 5) PROVE c[t + j - 1] = d[i + j]
      <4>1. t + j - 1 \in 0..(BufferSize - 1) /\ n <= t + j - 1 /\ t + j - 1 < n + Len(d)
            /\ (t + j - 1) - n + 1 = i + j
        <5>1. t = n + i /\ i + length + 5 <= Len(d) /\ i \in Nat
          BY <1>3, <2>0, <3>5
        <5>2. Len(d) \in Nat /\ n \in Nat /\ m <= Top /\ Top < BufferSize /\ BufferSize \in Nat /\ Top \in Nat
          BY <1>1, <1>3, Sizes
        <5>3. PICK size \in Nat : size = Len(d)
          BY <5>2
        <5>4. m = n + size /\ i + length + 5 <= size
          BY <5>1, <5>3
        <5>5. t + j - 1 \in 0..(BufferSize - 1) /\ n <= t + j - 1 /\ t + j - 1 < n + size
              /\ (t + j - 1) - n + 1 = i + j
          BY <5>1, <5>2, <5>4
        <5> QED
          BY <5>3, <5>5
      <4> QED
        BY <4>1 DEF Filled
    <3>7. t + length + 5 <= m
      <4>1. t = n + i /\ i + length + 5 <= Len(d) /\ i \in Nat
        BY <1>3, <2>0, <3>5
      <4>2. Len(d) \in Nat /\ n \in Nat
        BY <1>1, <1>3
      <4> QED
        BY <4>1, <4>2
    <3>8. t + length + 5 <= Top
      BY <1>1, <1>3, <2>0, <3>7
    <3>9. RestAt(c, t, d, i)
      BY <3>6 DEF RestAt
    <3> HIDE DEF es
    <3> QED
      BY <1>5, <3>4, <3>5, <3>7, <3>8, <3>9 DEF RestReceived
  <2> QED
    BY <1>3, <2>0, <2>2, <2>3, <2>4, <2>5
<1> QED
  BY <1>3, <1>6, <1>7, <1>8 DEF BufferOK

\* The buffer c is b with the bytes from position q on moved to its front, of
\* which `left' count.
Moved(c, b, q, left) ==
  \A i \in 0..(BufferSize - 1) : c[i] = IF i < left THEN b[q + i] ELSE b[i]

\* What is left of the bytes that count moves to the front, and the buffer stays
\* in order: what lies behind is as old as before.
LEMMA BufferMove ==
  ASSUME NEW b, NEW c, NEW ds \in Seq(Seq(Byte)), NEW n \in Nat,
         BufferOK(b, ds, n), NEW q \in Nat, NEW left \in Nat, Top \in Nat, Top < BufferSize,
         left = 0 \/ n = q + left, Moved(c, b, q, left)
  PROVE  BufferOK(c, ds, left)
<1>1. n <= Top /\ left <= Top /\ left <= n /\ BufferSize \in Nat
  BY Sizes DEF BufferOK
<1>2. ASSUME NEW p \in Top..(BufferSize - 1) PROVE c[p] = 0
  <2>1. p \in 0..(BufferSize - 1) /\ ~(p < left)
    BY <1>1
  <2>2. b[p] = 0
    BY DEF BufferOK
  <2> QED
    BY <2>1, <2>2 DEF Moved
<1>3. ASSUME left > 0 PROVE c[left - 1] # 128
  <2>1. left - 1 \in 0..(BufferSize - 1) /\ left - 1 < left /\ q + (left - 1) = n - 1 /\ n > 0
    BY <1>1, <1>3
  <2>2. b[n - 1] # 128
    BY <1>3, <2>1 DEF BufferOK
  <2> QED
    BY <2>1, <2>2 DEF Moved
<1>4. ASSUME NEW t \in 1..(BufferSize - 1), c[t] = 129, c[t - 1] = 128
      PROVE  RestReceived(c, ds, left, t)
  <2>0. t \in Nat /\ t \in 0..(BufferSize - 1) /\ t - 1 \in 0..(BufferSize - 1) /\ t > 0
    BY <1>1
  <2>1. Prolongs(ds, ds)
    BY DEF Prolongs
  <2>2. CASE t < left
    <3> PICK s \in Nat : s = q + t
      OBVIOUS
    <3>1. n = q + left /\ s < n /\ s \in 1..(BufferSize - 1) /\ q + (t - 1) = s - 1 /\ t - 1 < left
      BY <1>1, <2>0, <2>2
    <3>2. c[t] = b[s] /\ c[t - 1] = b[s - 1]
      BY <2>0, <2>2, <3>1 DEF Moved
    <3>3. RestReceived(b, ds, n, s)
      BY <1>4, <3>1, <3>2 DEF BufferOK
    <3>4. ASSUME NEW x \in Nat, s + x < EndOf(s, n) PROVE c[t + x] = b[s + x]
      <4>1. t + x \in 0..(BufferSize - 1) /\ t + x < left /\ q + (t + x) = s + x
        BY <1>1, <2>0, <3>1, <3>4 DEF EndOf
      <4> QED
        BY <4>1 DEF Moved
    <3>5. Copied(c, t, b, s, EndOf(s, n))
      BY <3>4 DEF Copied
    <3>6. t <= s /\ (t < left => s < n /\ n - s <= left - t)
      BY <2>0, <3>1
    <3> QED
      BY <1>1, <2>0, <2>1, <3>3, <3>5, <3>6, RestMoves
  <2>3. CASE ~(t < left)
    <3>1. c[t] = b[t]
      BY <2>0, <2>3 DEF Moved
    <3>2. b[t - 1] = 128
      <4>1. CASE t = left
        <5>1. left > 0
          BY <2>0, <4>1
        <5> QED
          BY <1>3, <1>4, <4>1, <5>1
      <4>2. CASE t # left
        <5>1. ~(t - 1 < left)
          BY <2>0, <2>3, <4>2
        <5>2. c[t - 1] = b[t - 1]
          BY <2>0, <5>1 DEF Moved
        <5> QED
          BY <1>4, <5>2
      <4> QED
        BY <4>1, <4>2
    <3>3. RestReceived(b, ds, n, t)
      BY <1>4, <3>1, <3>2 DEF BufferOK
    <3>4. ASSUME NEW x \in Nat, t + x < EndOf(t, n) PROVE c[t + x] = b[t + x]
      <4>1. t + x \in 0..(BufferSize - 1) /\ ~(t + x < left)
        BY <1>1, <2>0, <2>3, <3>4 DEF EndOf
      <4> QED
        BY <4>1 DEF Moved
    <3>5. Copied(c, t, b, t, EndOf(t, n))
      BY <3>4 DEF Copied
    <3>6. t <= t
      BY <2>0
    <3> QED
      BY <1>1, <2>0, <2>1, <2>3, <3>3, <3>5, <3>6, RestMoves
  <2> QED
    BY <2>2, <2>3
<1>5. left \in 0..Top
  BY <1>1
<1> QED
  BY <1>2, <1>3, <1>4, <1>5 DEF BufferOK

\* The frame that starts at byte i of d.
Part(d, i) == SubSeq(d, i, i + d[i + 4] + 5)

\* It is a frame, and this is its content.
LEMMA PartFact ==
  ASSUME NEW d \in Seq(Byte), NEW i \in Nat, FrameInside(d, i)
  PROVE  /\ IsFrame(Part(d, i))
         /\ Content(Part(d, i)) = [src |-> d[i + 2], pgn |-> d[i + 3],
                                   data |-> [j \in 1..d[i + 4] |-> d[i + 4 + j]]]
<1>1. /\ i \in 1..Len(d) /\ Len(d) \in Nat /\ d[i + 4] \in 0..255
      /\ i + d[i + 4] + 5 <= Len(d) /\ d[i] = 128 /\ d[i + 1] = 129
  BY InsideFact
<1>10. PICK length \in 0..255 : length = d[i + 4]
  BY <1>1
<1>2. i + length + 5 <= Len(d) /\ i >= 1
  BY <1>1, <1>10
<1>0. PICK f : f = Part(d, i)
  OBVIOUS
<1>3. f = [j \in 1..(length + 6) |-> d[i + j - 1]]
  <2>1. f = SubSeq(d, i, i + length + 5)
    BY <1>0, <1>10 DEF Part
  <2>2. (i + length + 5) - i + 1 = length + 6
    BY <1>1
  <2>3. SubSeq(d, i, i + length + 5) = [j \in 1..((i + length + 5) - i + 1) |-> d[i + j - 1]]
    BY <1>1, <1>2
  <2> QED
    BY <2>1, <2>2, <2>3
<1>4. f \in Seq(Byte) /\ Len(f) = length + 6
  <2>1. ASSUME NEW j \in 1..(length + 6) PROVE d[i + j - 1] \in Byte
    <3>1. i + j - 1 \in 1..Len(d)
      BY <1>1, <1>2
    <3> QED
      BY <3>1
  <2>2. [j \in 1..(length + 6) |-> d[i + j - 1]] \in [1..(length + 6) -> Byte]
    BY <2>1, Zenon
  <2>3. f \in [1..(length + 6) -> Byte]
    BY <1>3, <2>2, Zenon
  <2>4. length + 6 \in Nat
    OBVIOUS
  <2> QED
    BY <2>3, <2>4
<1>5. ASSUME NEW j \in 1..(length + 6) PROVE f[j] = d[i + (j - 1)]
  <2>1. i + j - 1 = i + (j - 1)
    OBVIOUS
  <2> QED
    BY <1>3, <2>1
<1>6. f[1] = d[i] /\ f[2] = d[i + 1] /\ f[3] = d[i + 2] /\ f[4] = d[i + 3] /\ f[5] = length
  <2>1. f[1] = d[i + (1 - 1)]
    BY <1>5
  <2>2. f[2] = d[i + (2 - 1)]
    BY <1>5
  <2>3. f[3] = d[i + (3 - 1)]
    BY <1>5
  <2>4. f[4] = d[i + (4 - 1)]
    BY <1>5
  <2>5. f[5] = d[i + (5 - 1)]
    BY <1>5
  <2> QED
    BY <1>10, <2>1, <2>2, <2>3, <2>4, <2>5
<1>7. SubSeq(f, 6, Len(f) - 1) = [j \in 1..length |-> d[i + 4 + j]]
  <2>1. SubSeq(f, 6, Len(f) - 1) = [j \in 1..length |-> f[6 + j - 1]]
    <3>1. (Len(f) - 1) - 6 + 1 = length /\ Len(f) - 1 \in Nat
      BY <1>4
    <3>2. SubSeq(f, 6, Len(f) - 1) = [j \in 1..((Len(f) - 1) - 6 + 1) |-> f[6 + j - 1]]
      BY <1>4, <3>1
    <3> QED
      BY <3>1, <3>2
  <2>2. ASSUME NEW j \in 1..length PROVE f[6 + j - 1] = d[i + 4 + j]
    <3>1. 6 + j - 1 \in 1..(length + 6) /\ i + ((6 + j - 1) - 1) = i + 4 + j
      OBVIOUS
    <3> QED
      BY <1>5, <3>1
  <2> QED
    BY <2>1, <2>2
<1>8. IsFrame(f)
  BY <1>1, <1>4, <1>6 DEF IsFrame
<1>9. Content(f) = [src |-> d[i + 2], pgn |-> d[i + 3], data |-> [j \in 1..length |-> d[i + 4 + j]]]
  BY <1>6, <1>7 DEF Content
<1> QED
  BY <1>0, <1>8, <1>9, <1>10

\* The position behind the frame at the read position, without wrapping around:
\* only an announcement's length makes it one or two bytes more.
NoWrap(k) ==
  \E s \in 0..2 : /\ AfterFrame(k, FrameAt(k)) = index[k] + ByteAt(k, 4) + 6 + s
                  /\ s # 0 => ByteAt(k, 4) = 5

\* What the handler takes for a frame is one that was received, read in full,
\* and the read position does not wrap around behind it.
LEMMA ReadFrame ==
  ASSUME TypeOK, Shape, Buffers, NEW k \in Sockets, AllUnambiguous(k), StartsFrame(k)
  PROVE  /\ Sent(k, FrameAt(k))
         /\ index[k] + ByteAt(k, 4) + 6 <= Top
         /\ index[k] + 1 < rxIndex[k] => index[k] + ByteAt(k, 4) + 6 <= rxIndex[k]
         /\ NoWrap(k)
<1>0. PICK p \in 0..(IndexModulus - 1), b \in [0..(BufferSize - 1) -> Byte] : p = index[k] /\ b = rxBuffer[k]
  BY DEF TypeOK
<1>1. Top \in Nat /\ Top = IndexModulus - 3 /\ Top < BufferSize /\ p \in Nat
      /\ IndexModulus \in Nat /\ BufferSize \in Nat /\ IndexModulus < BufferSize
  BY TopFact, Sizes
<1>2. BufferOK(b, received[k], rxIndex[k])
  BY <1>0 DEF Buffers
<1>3. ASSUME NEW o \in Nat, p + o <= Top PROVE ByteAt(k, o) = b[p + o] /\ Advance(p, o) = p + o
  <2>1. p + o < IndexModulus
    BY <1>1, <1>3
  <2>2. Advance(p, o) = p + o
    BY <1>1, <2>1, AdvanceFact
  <2> QED
    BY <1>0, <2>2 DEF ByteAt
<1>4. p < Top /\ b[p] = 128
  <2>1. p + 0 = p /\ p + 0 < IndexModulus
    BY <1>1
  <2>5. Advance(p, 0) = p + 0
    BY <1>1, <2>1, AdvanceFact
  <2>2. b[p] = 128
    BY <1>0, <2>1, <2>5 DEF StartsFrame, ByteAt
  <2>3. p >= Top => p \in Top..(BufferSize - 1)
    BY <1>1
  <2>4. p >= Top => b[p] = 0
    BY <1>2, <2>3 DEF BufferOK
  <2> QED
    BY <1>1, <2>2, <2>4
<1>5. b[p + 1] = 129
  <2>1. p + 1 <= Top
    BY <1>1, <1>4
  <2> QED
    BY <1>3, <2>1 DEF StartsFrame
<1>6. RestReceived(b, received[k], rxIndex[k], p + 1)
  <2>1. p + 1 \in 1..(BufferSize - 1) /\ (p + 1) - 1 = p
    BY <1>1, <1>4
  <2> QED
    BY <1>2, <1>4, <1>5, <2>1 DEF BufferOK
<1>7. PICK m \in DOMAIN received[k] : \E i \in 1..(Len(received[k][m]) - 5) :
        /\ StartOfFrame(received[k][m], i) /\ RestAt(b, p + 1, received[k][m], i)
        /\ p + 1 + received[k][m][i + 4] + 5 <= Top
        /\ p + 1 < rxIndex[k] => p + 1 + received[k][m][i + 4] + 5 <= rxIndex[k]
  BY <1>6 DEF RestReceived
<1>8. PICK d \in Seq(Byte) : d = received[k][m]
  BY DEF Shape
<1>9. PICK i \in Nat :
        /\ i \in 1..(Len(d) - 5) /\ StartOfFrame(d, i) /\ RestAt(b, p + 1, d, i)
        /\ p + 1 + d[i + 4] + 5 <= Top
        /\ p + 1 < rxIndex[k] => p + 1 + d[i + 4] + 5 <= rxIndex[k]
  BY <1>7, <1>8
<1>10. d[i + 4] \in 0..255
  <2>1. FrameInside(d, i)
    BY <1>9, StartFact
  <2> QED
    BY <2>1, InsideFact
<1>18. PICK length \in 0..255 : length = d[i + 4]
  BY <1>10
<1>11. p + length + 6 <= Top /\ (p + 1 < rxIndex[k] => p + length + 6 <= rxIndex[k])
  <2>1. p + 1 + length + 5 <= Top /\ (p + 1 < rxIndex[k] => p + 1 + length + 5 <= rxIndex[k])
    BY <1>9, <1>18
  <2>2. p + 1 + length + 5 = p + length + 6
    BY <1>1
  <2> QED
    BY <2>1, <2>2
<1>19. p + length + 6 <= Top
  BY <1>11
<1>12. ASSUME NEW j \in 1..(length + 5) PROVE b[p + j] = d[i + j]
  <2>1. b[p + 1 + j - 1] = d[i + j]
    BY <1>9, <1>18 DEF RestAt
  <2>2. p + 1 + j - 1 = p + j
    BY <1>1
  <2> QED
    BY <2>1, <2>2
<1>13. ASSUME NEW o \in 1..4 PROVE ByteAt(k, o) = d[i + o]
  <2>1. o \in Nat /\ p + o <= Top /\ o \in 1..(length + 5)
    BY <1>1, <1>19
  <2> QED
    BY <1>3, <1>12, <2>1
<1>14. ByteAt(k, 2) = d[i + 2] /\ ByteAt(k, 3) = d[i + 3] /\ ByteAt(k, 4) = length
  BY <1>13, <1>18
<1>15. FrameAt(k).data = [j \in 1..length |-> d[i + 4 + j]]
  <2>1. Advance(index[k], 5) = p + 5
    <3>1. p + 5 <= Top
      BY <1>1, <1>19
    <3> QED
      BY <1>0, <1>3, <3>1
  <2>2. FrameAt(k).data = [j \in 1..length |-> IF k = "detection" THEN ByteAt(k, 4 + j)
                                               ELSE b[p + 5 + j - 1]]
    BY <1>0, <1>14, <2>1 DEF FrameAt
  <2>3. ASSUME NEW j \in 1..length
        PROVE  b[p + 5 + j - 1] = d[i + 4 + j] /\ ByteAt(k, 4 + j) = d[i + 4 + j]
    <3>1. 4 + j \in 1..(length + 5) /\ p + 5 + j - 1 = p + (4 + j) /\ i + (4 + j) = i + 4 + j
          /\ 4 + j \in Nat /\ p + (4 + j) <= Top
      BY <1>1, <1>19
    <3>2. ByteAt(k, 4 + j) = b[p + (4 + j)]
      BY <1>3, <3>1
    <3> QED
      BY <1>12, <3>1, <3>2
  <2> QED
    BY <2>2, <2>3
<1>16. FrameAt(k) = Content(Part(d, i))
  <2>0. FrameInside(d, i)
    BY <1>9, StartFact
  <2>1. Content(Part(d, i)) = [src |-> d[i + 2], pgn |-> d[i + 3],
                               data |-> [j \in 1..length |-> d[i + 4 + j]]]
    BY <1>18, <2>0, PartFact
  <2>2. FrameAt(k) = [src |-> d[i + 2], pgn |-> d[i + 3], data |-> FrameAt(k).data]
    BY <1>14 DEF FrameAt
  <2> QED
    BY <1>15, <2>1, <2>2
<1>17. \E s \in 0..2 : /\ AfterFrame(k, FrameAt(k)) = p + length + 6 + s
                       /\ s # 0 => length = 5
  <2> DEFINE s == IF k = "detection" THEN SteppedOver(FrameAt(k)) ELSE 0
  <2>1. s \in 0..2
    BY DEF SteppedOver
  <2>5. s # 0 => length = 5
    <3>1. Len([j \in 1..length |-> d[i + 4 + j]]) = length
      OBVIOUS
    <3>2. Len(FrameAt(k).data) = length
      BY <1>15, <3>1, Zenon
    <3> QED
      BY <3>2, Zenon DEF SteppedOver
  <2>2. AfterFrame(k, FrameAt(k)) = Advance(p, 5 + length + 1 + s)
    BY <1>0, <1>14 DEF AfterFrame
  <2> HIDE DEF s
  <2>3. 5 + length + 1 + s \in Nat /\ p + (5 + length + 1 + s) < IndexModulus
        /\ p + (5 + length + 1 + s) = p + length + 6 + s
    BY <1>1, <1>19, <2>1
  <2>4. Advance(p, 5 + length + 1 + s) = p + (5 + length + 1 + s)
    BY <1>1, <2>3, AdvanceFact
  <2> QED
    BY <2>1, <2>2, <2>3, <2>4, <2>5
<1>20. Sent(k, FrameAt(k))
  <2>1. i \in 1..(Len(received[k][m]) - 5) /\ StartOfFrame(received[k][m], i)
        /\ FrameAt(k) = Content(Part(received[k][m], i))
    BY <1>8, <1>9, <1>16, Zenon
  <2> QED
    BY <2>1, Zenon DEF Sent, Part
<1>21. index[k] + ByteAt(k, 4) + 6 <= Top
       /\ (index[k] + 1 < rxIndex[k] => index[k] + ByteAt(k, 4) + 6 <= rxIndex[k])
  BY <1>0, <1>11, <1>14, Zenon
<1>22. NoWrap(k)
  BY <1>0, <1>14, <1>17, Zenon DEF NoWrap
<1> QED
  BY <1>20, <1>21, <1>22

\* A step leaves socket j alone.
Untouched(j) ==
  /\ rxBuffer'[j] = rxBuffer[j] /\ rxIndex'[j] = rxIndex[j] /\ index'[j] = index[j]
  /\ j \in parsing' <=> j \in parsing
  /\ handled'[j] = handled[j] /\ received'[j] = received[j] /\ leftover'[j] = leftover[j]

\* The step put d, all of it, behind what was left over.
Arrived(k, d) ==
  /\ Filled(rxBuffer'[k], rxBuffer[k], rxIndex[k], d)
  /\ rxIndex'[k] = rxIndex[k] + Len(d)
  /\ k \in parsing' <=> rxIndex[k] + Len(d) >= MinimumBytes

\* What Receive does to its socket, and to the other one.
LEMMA ReceiveStep ==
  ASSUME TypeOK, Shape, NEW k \in Sockets, Receive(k)
  PROVE  /\ \E d \in Datagrams[k] :
              received'[k] = Append(received[k], d) /\ (Unambiguous(d) => Arrived(k, d))
         /\ rxIndex[k] \in 0..(MinimumBytes - 1)
         /\ index'[k] = 0 /\ handled'[k] = <<>> /\ leftover'[k] = rxIndex[k] /\ subnet' = subnet
         /\ \A j \in Sockets \ {k} : Untouched(j)
<1>1. PICK datagram \in Datagrams[k] :
        LET room == BufferSize - rxIndex[k]
            size == IF Len(datagram) <= room THEN Len(datagram) ELSE room
            In(i) == rxIndex[k] <= i /\ i < rxIndex[k] + size
        IN  /\ rxBuffer' = [rxBuffer EXCEPT ![k] =
                 [i \in 0..(BufferSize - 1) |->
                    IF In(i) THEN datagram[i - rxIndex[k] + 1] ELSE @[i]]]
            /\ rxIndex' = [rxIndex EXCEPT ![k] = @ + size]
            /\ parsing' = IF LoopGoesOn(rxIndex[k] + size) THEN parsing \cup {k} ELSE parsing
            /\ received' = [received EXCEPT ![k] = Append(@, datagram)]
  BY DEF Receive
<1>2. /\ index' = [index EXCEPT ![k] = 0] /\ handled' = [handled EXCEPT ![k] = <<>>]
      /\ leftover' = [leftover EXCEPT ![k] = rxIndex[k]] /\ parsing = {} /\ subnet' = subnet
  BY DEF Receive
<1>3. rxIndex[k] \in 0..(MinimumBytes - 1)
  BY <1>2 DEF TypeOK
<1>4. received' = [received EXCEPT ![k] = Append(received[k], datagram)]
      /\ received'[k] = Append(received[k], datagram)
  BY <1>1 DEF Shape
<1>5. ASSUME Unambiguous(datagram) PROVE Arrived(k, datagram)
  <2>1. datagram \in Seq(Byte)
    BY FramingAssumption
  <2>2. Len(datagram) \in Nat /\ Len(datagram) + MinimumBytes <= Top + 1
        /\ Top \in Nat /\ Top < BufferSize
    BY <1>5, <2>1, CleanFact
  <2>3. Len(datagram) <= BufferSize - rxIndex[k]
    BY <1>3, <2>2, Sizes
  <2>4. /\ rxBuffer' = [rxBuffer EXCEPT ![k] =
             [i \in 0..(BufferSize - 1) |->
                IF rxIndex[k] <= i /\ i < rxIndex[k] + Len(datagram)
                THEN datagram[i - rxIndex[k] + 1] ELSE rxBuffer[k][i]]]
        /\ rxIndex' = [rxIndex EXCEPT ![k] = rxIndex[k] + Len(datagram)]
        /\ parsing' = IF LoopGoesOn(rxIndex[k] + Len(datagram)) THEN parsing \cup {k} ELSE parsing
    BY <1>1, <2>3 DEF TypeOK, Shape
  <2>5. Filled(rxBuffer'[k], rxBuffer[k], rxIndex[k], datagram)
    BY <2>4 DEF Filled, TypeOK
  <2>6. /\ rxIndex'[k] = rxIndex[k] + Len(datagram)
        /\ k \in parsing' <=> rxIndex[k] + Len(datagram) >= MinimumBytes
    BY <1>2, <2>4 DEF Shape, LoopGoesOn
  <2> QED
    BY <2>5, <2>6 DEF Arrived
<1>8. index'[k] = 0 /\ handled'[k] = <<>> /\ leftover'[k] = rxIndex[k] /\ subnet' = subnet
  BY <1>2 DEF TypeOK, Shape
<1>9. ASSUME NEW j \in Sockets \ {k} PROVE Untouched(j)
  BY <1>1, <1>2 DEF TypeOK, Shape, Untouched
<1> QED
  BY <1>3, <1>4, <1>5, <1>8, <1>9

\* What the end of a pass does to its socket, and to the other one.
LEMMA MoveStep ==
  ASSUME TypeOK, Shape, NEW k \in Sockets, k \in parsing, NEW bytes, NEW position,
         MoveToFront(k, bytes, position)
  PROVE  LET left == BytesLeft(bytes, position)
         IN  /\ Moved(rxBuffer'[k], rxBuffer[k], position, left)
             /\ rxIndex'[k] = left /\ index'[k] = position
             /\ k \in parsing' <=> left >= MinimumBytes
             /\ \A j \in Sockets \ {k} :
                  /\ rxBuffer'[j] = rxBuffer[j] /\ rxIndex'[j] = rxIndex[j] /\ index'[j] = index[j]
                  /\ j \in parsing' <=> j \in parsing
<1> DEFINE left == BytesLeft(bytes, position)
<1>1. /\ rxBuffer' = [rxBuffer EXCEPT ![k] =
           [i \in 0..(BufferSize - 1) |-> IF i < left THEN rxBuffer[k][position + i] ELSE rxBuffer[k][i]]]
      /\ rxIndex' = [rxIndex EXCEPT ![k] = left]
      /\ index' = [index EXCEPT ![k] = position]
      /\ parsing' = IF LoopGoesOn(left) THEN parsing ELSE parsing \ {k}
  BY DEF MoveToFront, TypeOK
<1> HIDE DEF left
<1>2. Moved(rxBuffer'[k], rxBuffer[k], position, left)
  BY <1>1 DEF Moved, TypeOK
<1>3. rxIndex'[k] = left /\ index'[k] = position /\ (k \in parsing' <=> left >= MinimumBytes)
  BY <1>1 DEF TypeOK, Shape, LoopGoesOn
<1>4. ASSUME NEW j \in Sockets \ {k}
      PROVE  /\ rxBuffer'[j] = rxBuffer[j] /\ rxIndex'[j] = rxIndex[j] /\ index'[j] = index[j]
             /\ j \in parsing' <=> j \in parsing
  BY <1>1 DEF TypeOK, Shape
<1> QED
  BY <1>2, <1>3, <1>4 DEF left

\* One more datagram received.
LEMMA AppendFact ==
  ASSUME NEW S, NEW s \in Seq(S), NEW e \in S
  PROVE  /\ Append(s, e) \in Seq(S) /\ Prolongs(Append(s, e), s)
         /\ Append(s, e) # <<>> /\ Append(s, e)[Len(Append(s, e))] = e
  BY DEF Prolongs

\* Receive keeps the buffers in order.
LEMMA ReceiveBuffers ==
  ASSUME TypeOK, Shape, Buffers, NEW k \in Sockets, Receive(k)
  PROVE  Buffers'
<1>1. PICK d \in Datagrams[k] :
        received'[k] = Append(received[k], d) /\ (Unambiguous(d) => Arrived(k, d))
  BY ReceiveStep
<1>2. rxIndex[k] \in 0..(MinimumBytes - 1) /\ \A j \in Sockets \ {k} : Untouched(j)
  BY ReceiveStep
<1>3. received[k] \in Seq(Datagrams[k]) /\ received[k] \in Seq(Seq(Byte)) /\ d \in Seq(Byte)
  BY FramingAssumption DEF Buffers, Shape
<1>4. ASSUME AllUnambiguous(k)' PROVE BufferOK(rxBuffer'[k], received'[k], rxIndex'[k])
  <2>1. AllUnambiguous(k) /\ Unambiguous(d)
    BY <1>1, <1>3, <1>4, UnambiguousBefore
  <2>2. BufferOK(rxBuffer[k], received[k], rxIndex[k])
    BY <2>1 DEF Buffers
  <2>3. Filled(rxBuffer'[k], rxBuffer[k], rxIndex[k], d) /\ rxIndex'[k] = rxIndex[k] + Len(d)
    BY <1>1, <2>1 DEF Arrived
  <2>4. BufferOK(rxBuffer'[k], Append(received[k], d), rxIndex'[k])
    BY <1>2, <1>3, <2>1, <2>2, <2>3, BufferReceive
  <2> QED
    BY <1>1, <2>4, Zenon
<1>5. received'[k] \in Seq(Datagrams[k])
  <2>1. Append(received[k], d) \in Seq(Datagrams[k])
    BY <1>3, AppendFact
  <2> QED
    BY <1>1, <2>1, Zenon
<1>6. ASSUME NEW j \in Sockets
      PROVE  /\ received'[j] \in Seq(Datagrams[j])
             /\ AllUnambiguous(j)' => BufferOK(rxBuffer'[j], received'[j], rxIndex'[j])
  <2>1. CASE j = k
    BY <1>4, <1>5, <2>1
  <2>2. CASE j # k
    BY <1>2, <2>2, UnambiguousSame DEF Buffers, Untouched
  <2> QED
    BY <2>1, <2>2
<1> QED
  BY <1>6 DEF Buffers, BufferOK, RestReceived, StartOfFrame, FrameInside, RestAt, Top

\* So does a pass of the loop.
LEMMA PassBuffers ==
  ASSUME TypeOK, Shape, Buffers, NEW k \in Sockets, k \in parsing,
         NEW bytes \in {0, rxIndex[k]}, NEW position \in Nat, MoveToFront(k, bytes, position),
         received' = received
  PROVE  Buffers'
<1>1. PICK left : left = BytesLeft(bytes, position)
  OBVIOUS
<1>2. /\ Moved(rxBuffer'[k], rxBuffer[k], position, left) /\ rxIndex'[k] = left
      /\ \A j \in Sockets \ {k} : rxBuffer'[j] = rxBuffer[j] /\ rxIndex'[j] = rxIndex[j]
  BY <1>1, MoveStep
<1>3. rxIndex[k] \in Nat /\ received[k] \in Seq(Seq(Byte))
  BY DEF Shape
<1>4. left \in Nat /\ (left = 0 \/ rxIndex[k] = position + left)
  BY <1>1, <1>3 DEF BytesLeft
<1>5. Top \in Nat /\ Top < BufferSize
  BY TopFact
<1>6. ASSUME AllUnambiguous(k)' PROVE BufferOK(rxBuffer'[k], received'[k], rxIndex'[k])
  <2>1. AllUnambiguous(k)
    BY <1>6, UnambiguousSame
  <2>2. BufferOK(rxBuffer[k], received[k], rxIndex[k])
    BY <2>1 DEF Buffers
  <2>3. BufferOK(rxBuffer'[k], received[k], rxIndex'[k])
    BY <1>2, <1>3, <1>4, <1>5, <2>2, BufferMove
  <2> QED
    BY <2>3
<1>7. ASSUME NEW j \in Sockets
      PROVE  /\ received'[j] \in Seq(Datagrams[j])
             /\ AllUnambiguous(j)' => BufferOK(rxBuffer'[j], received'[j], rxIndex'[j])
  <2>1. CASE j = k
    BY <1>6, <2>1 DEF Buffers
  <2>2. CASE j # k
    BY <1>2, <2>2, UnambiguousSame DEF Buffers
  <2> QED
    BY <2>1, <2>2
<1> QED
  BY <1>7 DEF Buffers, BufferOK, RestReceived, StartOfFrame, FrameInside, RestAt, Top

\* The two kinds of pass and what they do to the buffers.
LEMMA PassStep ==
  ASSUME TypeOK, Shape, NEW k \in Sockets, HandleFrame(k) \/ UnknownStart(k)
  PROVE  /\ k \in parsing /\ received' = received /\ leftover' = leftover
         /\ \E bytes \in {0, rxIndex[k]}, position \in 0..(IndexModulus - 1) :
              MoveToFront(k, bytes, position)
         /\ \A j \in Sockets \ {k} : Untouched(j)
<1>1. k \in parsing /\ received' = received /\ leftover' = leftover
  BY DEF HandleFrame, UnknownStart
<1>2. PICK bytes \in {0, rxIndex[k]}, position \in 0..(IndexModulus - 1) :
        MoveToFront(k, bytes, position)
  BY Positions DEF HandleFrame, UnknownStart
<1>3. ASSUME NEW j \in Sockets \ {k} PROVE Untouched(j)
  <2>1. /\ rxBuffer'[j] = rxBuffer[j] /\ rxIndex'[j] = rxIndex[j] /\ index'[j] = index[j]
        /\ j \in parsing' <=> j \in parsing
    BY <1>1, <1>2, MoveStep
  <2>2. handled'[j] = handled[j]
    BY DEF HandleFrame, UnknownStart, Shape
  <2> QED
    BY <1>1, <2>1, <2>2 DEF Untouched
<1> QED
  BY <1>1, <1>2, <1>3

\* The buffers are in order throughout.
LEMMA BuffersInvariance == Spec => []Buffers
<1>1. Init => Buffers
  <2> SUFFICES ASSUME Init, NEW k \in Sockets
               PROVE  /\ received[k] \in Seq(Datagrams[k])
                      /\ BufferOK(rxBuffer[k], received[k], rxIndex[k])
    BY DEF Buffers
  <2>1. received[k] = <<>> /\ rxIndex[k] = 0 /\ \A i \in 0..(BufferSize - 1) : rxBuffer[k][i] = 0
    BY DEF Init
  <2>2. Top \in Nat /\ BufferSize \in Nat
    BY TopFact, Sizes
  <2>3. Top..(BufferSize - 1) \subseteq 0..(BufferSize - 1) /\ 1..(BufferSize - 1) \subseteq 0..(BufferSize - 1)
        /\ 0 \in 0..Top /\ ~(0 > 0)
    BY <2>2
  <2> QED
    BY <2>1, <2>3 DEF BufferOK
<1>2. TypeOK /\ Shape /\ Buffers /\ [Next]_vars => Buffers'
  <2> SUFFICES ASSUME TypeOK, Shape, Buffers, [Next]_vars PROVE Buffers'
    OBVIOUS
  <2>1. ASSUME NEW k \in Sockets, HandleFrame(k) \/ UnknownStart(k) PROVE Buffers'
    <3>1. PICK bytes \in {0, rxIndex[k]}, position \in 0..(IndexModulus - 1) :
            MoveToFront(k, bytes, position)
      BY <2>1, PassStep
    <3>2. k \in parsing /\ received' = received /\ position \in Nat
      BY <2>1, PassStep, Sizes
    <3> QED
      BY <3>1, <3>2, PassBuffers
  <2>2. CASE UNCHANGED vars
    <3>1. \A j \in Sockets : /\ received'[j] \in Seq(Datagrams[j])
                             /\ AllUnambiguous(j)' => BufferOK(rxBuffer'[j], received'[j], rxIndex'[j])
      BY <2>2, UnambiguousSame DEF vars, Buffers
    <3> QED
      BY <3>1 DEF Buffers, BufferOK, RestReceived, StartOfFrame, FrameInside, RestAt, Top
  <2> QED
    BY <2>1, <2>2, ReceiveBuffers DEF Next, LoopPass
<1> QED
  BY <1>1, <1>2, TypeInvariance, PTL DEF Spec

\* What was received once stays received.
LEMMA SentStays ==
  ASSUME NEW j \in Sockets, Prolongs(received'[j], received[j]), NEW content, Sent(j, content)
  PROVE  Sent(j, content)'
<1>1. PICK m \in DOMAIN received[j] : \E i \in 1..(Len(received[j][m]) - 5) :
        /\ StartOfFrame(received[j][m], i)
        /\ content = Content(SubSeq(received[j][m], i, i + received[j][m][i + 4] + 5))
  BY DEF Sent
<1>2. PICK d : d = received[j][m]
  OBVIOUS
<1>3. m \in DOMAIN received'[j] /\ received'[j][m] = d
  BY <1>2 DEF Prolongs
<1>4. PICK i \in 1..(Len(d) - 5) : StartOfFrame(d, i) /\ content = Content(SubSeq(d, i, i + d[i + 4] + 5))
  BY <1>1, <1>2
<1>5. \E l \in DOMAIN received'[j] : \E h \in 1..(Len(received'[j][l]) - 5) :
        /\ StartOfFrame(received'[j][l], h)
        /\ content = Content(SubSeq(received'[j][l], h, h + received'[j][l][h + 4] + 5))
  <2>1. \E h \in 1..(Len(received'[j][m]) - 5) :
          /\ StartOfFrame(received'[j][m], h)
          /\ content = Content(SubSeq(received'[j][m], h, h + received'[j][m][h + 4] + 5))
    BY <1>3, <1>4, Zenon
  <2> QED
    BY <1>3, <2>1, Zenon
<1> QED
  BY <1>5 DEF Sent, StartOfFrame, FrameInside

\* Every step prolongs what was received.
LEMMA ReceivedGrows ==
  ASSUME TypeOK, Shape, [Next]_vars, NEW j \in Sockets
  PROVE  Prolongs(received'[j], received[j])
<1>1. ASSUME received'[j] = received[j] PROVE Prolongs(received'[j], received[j])
  BY <1>1 DEF Prolongs
<1>2. ASSUME NEW k \in Sockets, Receive(k) PROVE Prolongs(received'[j], received[j])
  <2>1. PICK d \in Datagrams[k] : received'[k] = Append(received[k], d)
    BY <1>2, ReceiveStep
  <2>2. CASE j = k
    <3>1. received[k] \in Seq(Seq(Byte)) /\ d \in Seq(Byte)
      BY FramingAssumption DEF Shape
    <3>2. Prolongs(Append(received[k], d), received[k])
      BY <3>1, AppendFact
    <3> QED
      BY <2>1, <2>2, <3>2, Zenon
  <2>3. CASE j # k
    <3>1. Untouched(j)
      BY <1>2, <2>3, ReceiveStep
    <3> QED
      BY <1>1, <3>1 DEF Untouched
  <2> QED
    BY <2>2, <2>3
<1>3. ASSUME NEW k \in Sockets, HandleFrame(k) \/ UnknownStart(k) PROVE received'[j] = received[j]
  BY <1>3, PassStep
<1>4. CASE UNCHANGED vars
  BY <1>1, <1>4 DEF vars
<1> QED
  BY <1>1, <1>2, <1>3, <1>4 DEF Next, LoopPass

\* What the handler is given has the form of a frame.
LEMMA FrameAtType ==
  ASSUME TypeOK, NEW k \in Sockets
  PROVE  FrameAt(k) \in FrameContent
<1>1. PICK p \in 0..(IndexModulus - 1), b \in [0..(BufferSize - 1) -> Byte] :
        p = index[k] /\ b = rxBuffer[k]
  BY DEF TypeOK
<1>2. PICK q \in 0..(IndexModulus - 1) : q = Advance(index[k], 5)
  <2>1. index[k] \in Nat
    BY ByteFact
  <2> QED
    BY <2>1, AdvanceFact
<1>3. PICK length \in 0..255 : length = ByteAt(k, 4)
  BY ByteFact DEF Byte
<1>4. PICK f : f = [j \in 1..length |-> IF k = "detection" THEN ByteAt(k, 4 + j) ELSE b[q + j - 1]]
  OBVIOUS
<1>5. f \in Seq(Byte)
  <2>1. ASSUME NEW j \in 1..length
        PROVE  (IF k = "detection" THEN ByteAt(k, 4 + j) ELSE b[q + j - 1]) \in Byte
    <3>1. q + j - 1 \in 0..(BufferSize - 1) /\ 4 + j \in Nat
      BY Sizes
    <3> QED
      BY <3>1, ByteFact
  <2>2. [j \in 1..length |-> IF k = "detection" THEN ByteAt(k, 4 + j) ELSE b[q + j - 1]]
          \in [1..length -> Byte]
    BY <2>1, Zenon
  <2>3. f \in [1..length -> Byte]
    BY <1>4, <2>2, Zenon
  <2>4. length \in Nat
    OBVIOUS
  <2> QED
    BY <2>3, <2>4
<1>6. FrameAt(k) = [src |-> ByteAt(k, 2), pgn |-> ByteAt(k, 3), data |-> f]
  BY <1>1, <1>2, <1>3, <1>4 DEF FrameAt
<1>7. ByteAt(k, 2) \in Byte /\ ByteAt(k, 3) \in Byte
  BY ByteFact
<1> QED
  BY <1>5, <1>6, <1>7 DEF FrameContent

\* The frame handled next is one that was received.
LEMMA HandledStep ==
  ASSUME TypeOK, Shape, Buffers, HandledInv, [Next]_vars, NEW j \in Sockets
  PROVE  /\ handled'[j] \in Seq(FrameContent)
         /\ AllUnambiguous(j)' => \A n \in DOMAIN handled'[j] : Sent(j, handled[j][n])'
<1>0. /\ handled[j] \in Seq(FrameContent)
      /\ AllUnambiguous(j) => \A n \in DOMAIN handled[j] : Sent(j, handled[j][n])
  BY DEF HandledInv
<1>1. ASSUME handled'[j] = handled[j], received'[j] = received[j]
      PROVE  /\ handled'[j] \in Seq(FrameContent)
             /\ AllUnambiguous(j)' => \A n \in DOMAIN handled'[j] : Sent(j, handled[j][n])'
  <2>1. AllUnambiguous(j)' => \A n \in DOMAIN handled[j] : Sent(j, handled[j][n])
    BY <1>0, <1>1, UnambiguousSame
  <2>2. ASSUME AllUnambiguous(j)', NEW n \in DOMAIN handled'[j] PROVE Sent(j, handled[j][n])'
    <3>1. PICK content : content = handled[j][n]
      OBVIOUS
    <3>2. Sent(j, content)
      BY <1>1, <2>1, <2>2, <3>1
    <3>3. Sent(j, content)'
      BY <3>2, ReceivedGrows, SentStays
    <3> QED
      BY <1>1, <3>1, <3>3 DEF Sent
  <2> QED
    BY <1>0, <1>1, <2>2
<1>2. CASE Receive(j)
  <2>1. handled'[j] = <<>>
    BY <1>2, ReceiveStep
  <2> QED
    BY <2>1
<1>3. CASE HandleFrame(j)
  <2>1. received' = received
    BY <1>3 DEF HandleFrame
  <2>2. handled'[j] = handled[j] \/ handled'[j] = Append(handled[j], FrameAt(j))
    BY <1>3 DEF HandleFrame, Shape
  <2>3. CASE handled'[j] = Append(handled[j], FrameAt(j))
    <3>1. PICK frame \in FrameContent : frame = FrameAt(j)
      BY FrameAtType
    <3>2. StartsFrame(j)
      BY <1>3 DEF HandleFrame
    <3>3. handled'[j] \in Seq(FrameContent)
      BY <1>0, <2>3, <3>1
    <3>4. ASSUME AllUnambiguous(j)', NEW n \in DOMAIN handled'[j] PROVE Sent(j, handled[j][n])'
      <4>1. \/ n \in DOMAIN handled[j] /\ handled'[j][n] = handled[j][n]
            \/ handled'[j][n] = frame
        BY <1>0, <2>3, <3>1
      <4>2. PICK content : content = handled'[j][n]
        OBVIOUS
      <4>3. AllUnambiguous(j)
        BY <2>1, <3>4, UnambiguousSame
      <4>4. Sent(j, frame)
        BY <3>1, <3>2, <4>3, ReadFrame
      <4>5. Sent(j, content)
        BY <1>0, <4>1, <4>2, <4>3, <4>4
      <4>6. Sent(j, content)'
        BY <4>5, ReceivedGrows, SentStays
      <4> QED
        BY <4>2, <4>6 DEF Sent
    <3> QED
      BY <3>3, <3>4
  <2> QED
    BY <1>1, <2>1, <2>2, <2>3
<1>4. ASSUME NEW k \in Sockets, k # j, Receive(k) \/ HandleFrame(k) \/ UnknownStart(k)
      PROVE  handled'[j] = handled[j] /\ received'[j] = received[j]
  BY <1>4, ReceiveStep, PassStep DEF Untouched
<1>5. CASE UnknownStart(j)
  BY <1>1, <1>5 DEF UnknownStart
<1>6. CASE UNCHANGED vars
  BY <1>1, <1>6 DEF vars
<1> QED
  BY <1>1, <1>2, <1>3, <1>4, <1>5, <1>6 DEF Next, LoopPass

\* A datagram that is a frame starts with it and ends with it.
LEMMA WholeFact ==
  ASSUME NEW d \in Seq(Byte), IsFrame(d)
  PROVE  StartOfFrame(d, 1) /\ 1 \in 1..(Len(d) - 5) /\ SubSeq(d, 1, 1 + d[1 + 4] + 5) = d
<1>1. Len(d) \in Nat /\ Len(d) >= 6 /\ d[1] = 128 /\ d[2] = 129 /\ Len(d) = d[5] + 6
  BY DEF IsFrame
<1>2. PICK length \in Nat : length = d[5] /\ length = d[1 + 4]
  <2>1. 5 \in 1..Len(d)
    BY <1>1
  <2>2. d[5] \in Byte
    BY <2>1
  <2>3. PICK length \in Nat : length = d[5]
    BY <2>2, ByteIsNat
  <2>4. 1 + 4 = 5
    OBVIOUS
  <2>5. length = d[1 + 4]
    BY <2>3, <2>4, Zenon
  <2> QED
    BY <2>3, <2>5, Zenon
<1>3. 1 \in 1..(Len(d) - 5) /\ 1 + length + 5 = Len(d) /\ 1 + 1 = 2
  BY <1>1, <1>2
<1>4. FrameInside(d, 1)
  BY <1>1, <1>2, <1>3 DEF FrameInside
<1>5. SubSeq(d, 1, Len(d)) = d
  BY <1>1
<1> QED
  BY <1>2, <1>3, <1>4, <1>5 DEF StartOfFrame

\* Nothing is invented: for any datagrams whose frames the position can span,
\* what is handed to the packet handler was put in a datagram by a peer, if the
\* datagram is a frame that finds the buffer empty, or if no datagram so far holds
\* the header bytes inside a frame, whatever older bytes lie in the buffer then.
THEOREM FramesWereSent ==
  ASSUME FramesFit
  PROVE  Spec => []NothingInvented
<1>1. Init => HandledInv
  BY DEF Init, HandledInv
<1>2. TypeOK /\ Shape /\ Buffers /\ HandledInv /\ [Next]_vars => HandledInv'
  <2> SUFFICES ASSUME TypeOK, Shape, Buffers, HandledInv, [Next]_vars PROVE HandledInv'
    OBVIOUS
  <2>1. \A j \in Sockets :
          /\ handled'[j] \in Seq(FrameContent)
          /\ AllUnambiguous(j)' => \A n \in DOMAIN handled'[j] : Sent(j, handled[j][n])'
    BY HandledStep
  <2> QED
    BY <2>1 DEF HandledInv, FrameContent, Byte
<1>3. Shape /\ FrameInv /\ HandledInv => NothingInvented
  <2> SUFFICES ASSUME Shape, FrameInv, HandledInv, NEW k \in Sockets,
                      FrameAlone(k) \/ AllUnambiguous(k), NEW n \in DOMAIN handled[k]
               PROVE  Sent(k, handled[k][n])
    BY DEF NothingInvented, Sent
  <2>1. CASE AllUnambiguous(k)
    BY <2>1 DEF HandledInv
  <2>2. CASE FrameAlone(k)
    <3>1. PICK d : d = LastDatagram(k)
      OBVIOUS
    <3>2. received[k] # <<>> /\ IsFrame(d) /\ (Ahead(k, d) \/ Done(k, d))
      BY <2>2, <3>1 DEF FrameAlone, FrameInv, LongEnough
    <3>3. handled[k] = <<>> \/ handled[k] = <<Content(d)>>
      BY <3>2 DEF Ahead, Done
    <3>4. handled[k][n] = Content(d)
      BY <3>3
    <3>5. PICK m \in DOMAIN received[k] : d = received[k][m] /\ d \in Seq(Byte)
      <4>1. received[k] \in Seq(Seq(Byte)) /\ Len(received[k]) \in DOMAIN received[k]
        BY <3>2 DEF Shape
      <4> QED
        BY <3>1, <4>1 DEF LastDatagram
    <3>6. StartOfFrame(d, 1) /\ 1 \in 1..(Len(d) - 5) /\ SubSeq(d, 1, 1 + d[1 + 4] + 5) = d
      BY <3>2, <3>5, WholeFact
    <3> QED
      BY <3>4, <3>5, <3>6, Zenon DEF Sent
  <2> QED
    BY <2>1, <2>2
<1> QED
  BY <1>1, <1>2, <1>3, TypeInvariance, FrameInvariance, BuffersInvariance, PTL DEF Spec

\* The subnet with the socket it was announced on.
SubnetInv == SubnetWasAnnounced /\ (subnet # <<>> => "detection" \in Sockets)

\* The datagram d announces the subnet s.
Announces(d, s) ==
  IsFrame(d) /\ Len(d) = 11 /\ SubSeq(d, 3, 7) = <<127, 201, 5, 201, 201>> /\ s = SubSeq(d, 8, 10)

\* A datagram that is one frame, and whose content is an announcement.
LEMMA AnnouncementFact ==
  ASSUME NEW d \in Seq(Byte), FrameInside(d, 1), IsFrame(d), NEW frame,
         frame = Content(Part(d, 1)), IsSubnet(frame)
  PROVE  Announces(d, SubSeq(frame.data, 3, 5))
<1>1. frame = [src |-> d[1 + 2], pgn |-> d[1 + 3], data |-> [j \in 1..d[1 + 4] |-> d[1 + 4 + j]]]
  BY PartFact
<1>2. PICK length \in 0..255 : length = d[5] /\ Len(d) = length + 6
  <2>1. d[1 + 4] \in 0..255
    BY InsideFact
  <2>2. 1 + 4 = 5
    OBVIOUS
  <2>3. d[5] \in 0..255
    BY <2>1, <2>2, Zenon
  <2> QED
    BY <2>3 DEF IsFrame
<1>3. PICK data : data = [j \in 1..length |-> d[5 + j]]
  OBVIOUS
<1>4. frame.src = d[3] /\ frame.pgn = d[4] /\ frame.data = data
  <2>1. 1 + 2 = 3 /\ 1 + 3 = 4 /\ 1 + 4 = 5
    OBVIOUS
  <2>2. frame = [src |-> d[3], pgn |-> d[4], data |-> [j \in 1..d[5] |-> d[5 + j]]]
    BY <1>1, <2>1, Zenon
  <2>3. [j \in 1..d[5] |-> d[5 + j]] = data
    BY <1>2, <1>3, Zenon
  <2>4. frame = [src |-> d[3], pgn |-> d[4], data |-> data]
    BY <2>2, <2>3, Zenon
  <2> QED
    BY <2>4
<1>5. data \in Seq(Byte) /\ Len(data) = length
  <2>1. ASSUME NEW j \in 1..length PROVE d[5 + j] \in Byte
    <3>1. 5 + j \in 1..Len(d)
      BY <1>2
    <3> QED
      BY <3>1
  <2>2. [j \in 1..length |-> d[5 + j]] \in [1..length -> Byte]
    BY <2>1, Zenon
  <2>3. data \in [1..length -> Byte]
    BY <1>3, <2>2, Zenon
  <2> QED
    BY <2>3
<1>6. d[3] = 127 /\ d[4] = 201 /\ length = 5 /\ data[1] = 201 /\ data[2] = 201
  BY <1>4, <1>5 DEF IsSubnet
<1>7. data[1] = d[6] /\ data[2] = d[7] /\ data[3] = d[8] /\ data[4] = d[9] /\ data[5] = d[10]
  <2>1. \A j \in 1..5 : data[j] = d[5 + j]
    BY <1>3, <1>6
  <2>2. data[1] = d[5 + 1] /\ data[2] = d[5 + 2] /\ data[3] = d[5 + 3] /\ data[4] = d[5 + 4] /\ data[5] = d[5 + 5]
    BY <2>1
  <2> QED
    BY <2>2
<1>8. Len(d) = 11 /\ d[5] = 5 /\ d[6] = 201 /\ d[7] = 201
  BY <1>2, <1>6, <1>7
<1>9. SubSeq(d, 3, 7) = <<127, 201, 5, 201, 201>>
  <2>1. SubSeq(d, 3, 7) = [j \in 1..(7 - 3 + 1) |-> d[3 + j - 1]]
    BY <1>8
  <2>2. \A j \in 1..5 : d[3 + j - 1] = <<127, 201, 5, 201, 201>>[j]
    BY <1>6, <1>8
  <2>3. <<127, 201, 5, 201, 201>> = [j \in 1..5 |-> <<127, 201, 5, 201, 201>>[j]]
    OBVIOUS
  <2>4. 7 - 3 + 1 = 5
    OBVIOUS
  <2>5. SubSeq(d, 3, 7) = [j \in 1..5 |-> d[3 + j - 1]]
    BY <2>1, <2>4, Zenon
  <2>6. [j \in 1..5 |-> d[3 + j - 1]] = [j \in 1..5 |-> <<127, 201, 5, 201, 201>>[j]]
    BY <2>2, Zenon
  <2> QED
    BY <2>3, <2>5, <2>6, Zenon
<1>10. SubSeq(data, 3, 5) = SubSeq(d, 8, 10)
  <2>1. SubSeq(d, 8, 10) = [j \in 1..(10 - 8 + 1) |-> d[8 + j - 1]]
    BY <1>8
  <2>2. SubSeq(data, 3, 5) = [j \in 1..(5 - 3 + 1) |-> data[3 + j - 1]]
    BY <1>5, <1>6
  <2>3. \A j \in 1..3 : data[3 + j - 1] = d[8 + j - 1]
    BY <1>7
  <2> QED
    BY <2>1, <2>2, <2>3
<1> QED
  BY <1>4, <1>8, <1>9, <1>10 DEF Announces

\* The subnet is one AgIO announced on the detection socket, for any datagrams on
\* it of which none holds the header bytes inside a frame, or a frame and
\* something else, and for any datagrams on the other socket.
THEOREM SubnetsWereAnnounced ==
  ASSUME OneFrameEach
  PROVE  Spec => []SubnetWasAnnounced
<1>1. Init => SubnetInv
  BY DEF Init, SubnetInv, SubnetWasAnnounced
<1>2. TypeOK /\ Shape /\ Buffers /\ SubnetInv /\ [Next]_vars => SubnetInv'
  <2> SUFFICES ASSUME TypeOK, Shape, Buffers, SubnetInv, [Next]_vars PROVE SubnetInv'
    OBVIOUS
  <2>1. ASSUME "detection" \in Sockets, NEW m \in DOMAIN received["detection"],
               Announces(received["detection"][m], subnet')
        PROVE  SubnetInv'
    <3>1. Prolongs(received'["detection"], received["detection"])
      BY <2>1, ReceivedGrows
    <3>2. m \in DOMAIN received'["detection"] /\ received'["detection"][m] = received["detection"][m]
      BY <2>1, <3>1 DEF Prolongs
    <3>3. \E l \in DOMAIN received'["detection"] : Announces(received'["detection"][l], subnet')
      BY <2>1, <3>2
    <3> QED
      BY <2>1, <3>3 DEF SubnetInv, SubnetWasAnnounced, Announces, IsFrame
  <2>2. CASE subnet' = <<>>
    BY <2>2 DEF SubnetInv, SubnetWasAnnounced
  <2>3. CASE subnet' = subnet /\ subnet # <<>>
    <3>1. "detection" \in Sockets
      BY <2>3 DEF SubnetInv
    <3>2. PICK m \in DOMAIN received["detection"] : Announces(received["detection"][m], subnet)
      BY <2>3 DEF SubnetInv, SubnetWasAnnounced, Announces
    <3> QED
      BY <2>1, <2>3, <3>1, <3>2
  <2>4. ASSUME NEW k \in Sockets, HandleFrame(k), subnet' # subnet PROVE SubnetInv'
    <3>1. /\ k = "detection" /\ StartsFrame(k) /\ IsSubnet(FrameAt(k))
          /\ subnet' = SubSeq(FrameAt(k).data, 3, 5)
      BY <2>4 DEF HandleFrame
    <3>8. AllUnambiguous(k)
      <4>1. received[k] \in Seq(Datagrams[k])
        BY DEF Buffers
      <4>2. \A m \in DOMAIN received[k] : received[k][m] \in Datagrams[k]
        BY <4>1
      <4> QED
        BY <3>1, <4>2 DEF AllUnambiguous, OneFrameEach
    <3>2. PICK m \in DOMAIN received[k] : \E i \in 1..(Len(received[k][m]) - 5) :
            FrameInside(received[k][m], i) /\ FrameAt(k) = Content(Part(received[k][m], i))
      BY <3>1, <3>8, ReadFrame, StartFact DEF Sent, Part
    <3>3. PICK d \in Seq(Byte) : d = received[k][m] /\ d \in Datagrams[k]
      BY FramingAssumption DEF Shape, Buffers
    <3>4. PICK i \in 1..(Len(d) - 5) : FrameInside(d, i) /\ FrameAt(k) = Content(Part(d, i))
      BY <3>2, <3>3
    <3>5. i \in 1..Len(d)
      OBVIOUS
    <3>6. i = 1 /\ IsFrame(d)
      BY <3>1, <3>3, <3>4, <3>5 DEF OneFrameEach
    <3>7. Announces(d, SubSeq(FrameAt(k).data, 3, 5))
      BY <3>1, <3>4, <3>6, AnnouncementFact
    <3> QED
      BY <2>1, <3>1, <3>3, <3>7
  <2>5. subnet' = subnet \/ \E k \in Sockets : HandleFrame(k)
    BY DEF Next, LoopPass, UnknownStart, Receive, vars
  <2> QED
    BY <2>2, <2>3, <2>4, <2>5
<1>3. SubnetInv => SubnetWasAnnounced
  BY DEF SubnetInv
<1> QED
  BY <1>1, <1>2, <1>3, TypeInvariance, BuffersInvariance, PTL DEF Spec

\* A datagram that reaches the handler behind bytes left over.
LEMMA FirstReceive ==
  ASSUME TypeOK, Shape, Buffers, NEW k \in Sockets, Receive(k),
         leftover'[k] # 0, AllUnambiguous(k)', LongEnough(LastDatagram(k)')
  PROVE  FirstPass(k, LastDatagram(k))'
<1>0. PICK d \in Datagrams[k] :
        received'[k] = Append(received[k], d) /\ (Unambiguous(d) => Arrived(k, d))
  BY ReceiveStep
<1>14. d \in Seq(Byte)
  BY FramingAssumption
<1>15. AllUnambiguous(k) /\ Unambiguous(d)
  BY <1>0, <1>14, UnambiguousBefore
<1>1. /\ Filled(rxBuffer'[k], rxBuffer[k], rxIndex[k], d)
      /\ rxIndex'[k] = rxIndex[k] + Len(d) /\ received'[k] = Append(received[k], d)
      /\ k \in parsing' <=> rxIndex[k] + Len(d) >= MinimumBytes
  BY <1>0, <1>15 DEF Arrived
<1>2. PICK n \in 0..(MinimumBytes - 1) : n = rxIndex[k]
  BY ReceiveStep
<1>3. index'[k] = 0 /\ leftover'[k] = n
  BY <1>2, ReceiveStep
<1>4. LastDatagram(k)' = d
  <2>1. received[k] \in Seq(Datagrams[k])
    BY DEF Buffers
  <2>2. Append(received[k], d)[Len(Append(received[k], d))] = d
    BY <2>1, AppendFact
  <2> QED
    BY <1>1, <2>2 DEF LastDatagram
<1>5. Len(d) \in Nat /\ Len(d) + MinimumBytes <= Top + 1
      /\ Top \in Nat /\ Top < BufferSize /\ BufferSize \in Nat
  BY <1>14, <1>15, CleanFact, Sizes
<1>6. Len(d) >= MinimumBytes /\ Len(d) >= 6 /\ d[1] = 128
  BY <1>4 DEF LongEnough, IsFrame
<1>7. n \in Nat /\ n > 0 /\ n + Len(d) <= Top
  BY <1>3, <1>5, Sizes
<1>8. PICK b, c : b = rxBuffer[k] /\ c = rxBuffer'[k]
  OBVIOUS
<1>9. Filled(c, b, n, d)
  BY <1>1, <1>2, <1>8
<1>10. ASSUME NEW i \in 1..Len(d) PROVE c[n + i - 1] = d[i]
  <2>1. n + i - 1 \in 0..(BufferSize - 1) /\ n <= n + i - 1 /\ n + i - 1 < n + Len(d)
        /\ (n + i - 1) - n + 1 = i
    BY <1>5, <1>7
  <2> QED
    BY <1>9, <2>1 DEF Filled
<1>11. ASSUME c[0] = 128, c[1] = 129 PROVE c[4] + 6 <= n
  <2>1. n # 1
    <3>1. n = 1 => c[1] = d[1]
      <4>1. 1 \in 1..Len(d) /\ 1 + 1 - 1 = 1
        BY <1>5, <1>6
      <4> QED
        BY <1>10, <4>1
    <3> QED
      BY <1>6, <1>11, <3>1
  <2>2. ASSUME NEW i \in 0..(BufferSize - 1), i < n PROVE c[i] = b[i]
    BY <1>7, <1>9, <2>2 DEF Filled
  <2>3. n >= 2 /\ 0 \in 0..(BufferSize - 1) /\ 1 \in 1..(BufferSize - 1) /\ 1 \in 0..(BufferSize - 1)
        /\ 1 - 1 = 0
    BY <1>5, <1>7, <2>1
  <2>4. b[0] = 128 /\ b[1] = 129
    BY <1>7, <1>11, <2>2, <2>3
  <2>5. BufferOK(b, received[k], n)
    BY <1>2, <1>8, <1>15 DEF Buffers
  <2>6. RestReceived(b, received[k], n, 1)
    BY <2>3, <2>4, <2>5 DEF BufferOK
  <2>7. PICK m \in DOMAIN received[k] : \E i \in 1..(Len(received[k][m]) - 5) :
          /\ StartOfFrame(received[k][m], i) /\ RestAt(b, 1, received[k][m], i)
          /\ 1 < n => 1 + received[k][m][i + 4] + 5 <= n
    BY <2>6 DEF RestReceived
  <2>8. PICK e \in Seq(Byte) : e = received[k][m]
    BY DEF Shape
  <2>9. PICK i \in Nat : FrameInside(e, i) /\ RestAt(b, 1, e, i) /\ (1 < n => 1 + e[i + 4] + 5 <= n)
    BY <2>7, <2>8, StartFact
  <2>10. PICK length \in 0..255 : length = e[i + 4]
    BY <2>9, InsideFact
  <2>11. 1 + length + 5 <= n
    <3>1. 1 < n
      BY <1>7, <2>3
    <3> QED
      BY <2>9, <2>10, <3>1
  <2>12. b[4] = length
    <3>1. \A j \in 1..(length + 5) : b[1 + j - 1] = e[i + j]
      BY <2>9, <2>10 DEF RestAt
    <3>2. b[1 + 4 - 1] = e[i + 4]
      BY <3>1
    <3>3. 1 + 4 - 1 = 4
      OBVIOUS
    <3> QED
      BY <2>10, <3>2, <3>3
  <2>13. 4 \in 0..(BufferSize - 1) /\ 4 < n /\ length + 6 <= n
    BY <1>5, <1>7, <2>11
  <2> QED
    BY <2>2, <2>12, <2>13
<1>12. k \in parsing' /\ rxIndex'[k] = n + Len(d) /\ n \in 1..(MinimumBytes - 1)
  BY <1>1, <1>2, <1>5, <1>6, <1>7, Sizes
<1>13. FirstPass(k, d)'
  BY <1>3, <1>8, <1>10, <1>11, <1>12 DEF FirstPass, Behind
<1> QED
  BY <1>4, <1>13 DEF FirstPass, Behind

\* An unknown start ends the call with an empty buffer.
LEMMA UnknownEnds ==
  ASSUME TypeOK, Shape, NEW k \in Sockets, UnknownStart(k)
  PROVE  k \notin parsing' /\ rxIndex'[k] = 0
<1>1. k \in parsing /\ MoveToFront(k, 0, Advance(index[k], 2))
  BY DEF UnknownStart
<1>2. Advance(index[k], 2) \in Nat
  BY Positions, Sizes
<1>3. BytesLeft(0, Advance(index[k], 2)) = 0
  BY <1>2 DEF BytesLeft
<1>4. rxIndex'[k] = 0 /\ (k \in parsing' <=> 0 >= MinimumBytes)
  BY <1>1, <1>3, MoveStep
<1> QED
  BY <1>4, Sizes

\* A frame in what is left over is handled first; the read position then points
\* into the datagram behind it, which has moved to the front.
LEMMA FirstToSecond ==
  ASSUME ShortMinimum, FramesFit, TypeOK, Shape, Buffers, NEW k \in Sockets, AllUnambiguous(k),
         NEW d \in Seq(Byte), Unambiguous(d), LongEnough(d), FirstPass(k, d), HandleFrame(k)
  PROVE  SecondPass(k, d)'
<1>1. PICK b : b = rxBuffer[k]
  OBVIOUS
<1>2. /\ index[k] = 0 /\ k \in parsing /\ rxIndex[k] = leftover[k] + Len(d)
      /\ \A i \in 1..Len(d) : b[leftover[k] + i - 1] = d[i]
      /\ b[0] = 128 /\ b[1] = 129 => b[4] + 6 <= leftover[k]
      /\ leftover[k] \in 1..(MinimumBytes - 1)
  BY <1>1 DEF FirstPass, Behind
<1>3. StartsFrame(k) /\ MoveToFront(k, rxIndex[k], AfterFrame(k, FrameAt(k)))
  BY DEF HandleFrame
<1>4. IndexModulus \in Nat /\ IndexModulus > 13 /\ MinimumBytes \in Nat /\ MinimumBytes <= 8
      /\ BufferSize \in Nat
  BY Sizes DEF FramesFit, ShortMinimum
<1>5. Advance(index[k], 0) = 0 /\ Advance(index[k], 1) = 1 /\ Advance(index[k], 4) = 4
  BY <1>2, <1>4, AdvanceFact
<1>6. b[0] = 128 /\ b[1] = 129 /\ ByteAt(k, 4) = b[4]
  BY <1>1, <1>3, <1>5 DEF StartsFrame, ByteAt
<1>7. PICK length \in 0..255 : length = ByteAt(k, 4)
  BY ByteFact DEF Byte
<1>8. PICK x \in 1..(MinimumBytes - 1) : x = leftover[k]
  BY <1>2
<1>9. length + 6 <= x /\ x <= 7 /\ x < MinimumBytes /\ x \in Nat
  <2>1. length + 6 <= x
    BY <1>2, <1>6, <1>7, <1>8
  <2> QED
    BY <1>4, <2>1
<1>10. AfterFrame(k, FrameAt(k)) = length + 6
  <2>1. PICK s \in 0..2 : /\ AfterFrame(k, FrameAt(k)) = index[k] + ByteAt(k, 4) + 6 + s
                          /\ s # 0 => ByteAt(k, 4) = 5
    <3>1. NoWrap(k)
      BY <1>3, ReadFrame
    <3> QED
      BY <3>1 DEF NoWrap
  <2>2. AfterFrame(k, FrameAt(k)) = 0 + length + 6 + s /\ (s # 0 => length = 5)
    BY <1>2, <1>7, <2>1
  <2>3. s = 0
    BY <1>9, <2>2
  <2> QED
    BY <2>2, <2>3
<1>11. Len(d) \in Nat /\ Len(d) >= MinimumBytes /\ Len(d) + MinimumBytes <= Top + 1
       /\ Top \in Nat /\ Top < BufferSize
  BY CleanFact DEF LongEnough
<1>12. PICK q \in 6..7 : q = length + 6 /\ q <= x
  BY <1>9
<1>13. PICK left \in Nat : left = (x - q) + Len(d)
  <2>1. x - q \in Nat /\ Len(d) \in Nat
    BY <1>9, <1>11, <1>12
  <2> QED
    BY <2>1
<1>14. BytesLeft(rxIndex[k], q) = left
  <2>1. rxIndex[k] = x + Len(d) /\ MinimumBytes > 0
    BY <1>2, <1>8, Sizes
  <2>2. q < x + Len(d) /\ (x + Len(d)) - q = left
    BY <1>4, <1>9, <1>11, <1>12, <1>13, <2>1
  <2> QED
    BY <2>1, <2>2 DEF BytesLeft
<1>15. /\ Moved(rxBuffer'[k], b, q, left) /\ rxIndex'[k] = left /\ index'[k] = q
       /\ k \in parsing' <=> left >= MinimumBytes
  <2>1. MoveToFront(k, rxIndex[k], q)
    BY <1>3, <1>10, <1>12
  <2> QED
    BY <1>1, <1>2, <1>14, <2>1, MoveStep
<1>16. PICK y \in {0, 1} : y = x - q
  BY <1>9, <1>12
<1>17. left = y + Len(d) /\ left >= MinimumBytes /\ q < MinimumBytes
  BY <1>4, <1>9, <1>11, <1>12, <1>13, <1>16
<1>18. ASSUME NEW i \in 1..Len(d) PROVE rxBuffer'[k][y + i - 1] = d[i]
  <2>1. y + i - 1 \in 0..(BufferSize - 1) /\ y + i - 1 < left /\ q + (y + i - 1) = x + i - 1
    BY <1>4, <1>9, <1>11, <1>12, <1>16, <1>17
  <2>2. rxBuffer'[k][y + i - 1] = b[q + (y + i - 1)]
    BY <1>15, <2>1 DEF Moved
  <2>3. b[x + i - 1] = d[i]
    BY <1>2, <1>8
  <2> QED
    BY <2>1, <2>2, <2>3
<1>19. Behind(k, d, y)'
  BY <1>15, <1>17, <1>18 DEF Behind
<1> QED
  BY <1>15, <1>17, <1>19 DEF SecondPass

\* The second pass finds no header and throws the rest away.
LEMMA SecondEnds ==
  ASSUME TypeOK, Shape, NEW k \in Sockets,
         NEW d \in Seq(Byte), Unambiguous(d), LongEnough(d), SecondPass(k, d), StartsFrame(k)
  PROVE  FALSE
<1>1. PICK b : b = rxBuffer[k]
  OBVIOUS
<1>2. PICK x \in {0, 1} : Behind(k, d, x) /\ index[k] \in 6..7 /\ index[k] < MinimumBytes
  BY DEF SecondPass
<1>3. PICK p \in 6..7 : p = index[k] /\ p < MinimumBytes
  BY <1>2
<1>4. k \in parsing /\ rxIndex[k] = x + Len(d) /\ \A i \in 1..Len(d) : b[x + i - 1] = d[i]
  BY <1>1, <1>2 DEF Behind
<1>5. /\ Len(d) \in Nat /\ Len(d) >= MinimumBytes /\ MinimumBytes \in Nat
      /\ Len(d) + MinimumBytes <= Top + 1 /\ Top \in Nat /\ Top < IndexModulus /\ IndexModulus \in Nat
      /\ \A i \in 1..(Len(d) - 1) : (d[i] = 128 /\ d[i + 1] = 129) => StartOfFrame(d, i)
      /\ d # <<>> => d[Len(d)] # 128
  BY CleanFact, Sizes DEF LongEnough
<1>6. b[p] = 128 /\ b[p + 1] = 129
  <2>1. p \in Nat /\ p + 0 < IndexModulus /\ p + 1 < IndexModulus /\ p + 0 = p
    BY <1>3, <1>5
  <2>2. Advance(p, 0) = p + 0 /\ Advance(p, 1) = p + 1
    BY <2>1, AdvanceFact
  <2> QED
    BY <1>1, <1>3, <2>1, <2>2 DEF StartsFrame, ByteAt
<1>7. PICK i \in 6..8 : i = p - x + 1
  OBVIOUS
<1>8. i \in 1..Len(d) /\ x + i - 1 = p
  BY <1>3, <1>5, <1>7
<1>9. d[i] = 128
  BY <1>4, <1>6, <1>8
<1>10. i # Len(d) /\ i \in 1..(Len(d) - 1)
  <2>1. d # <<>>
    BY <1>5, <1>8
  <2>2. i # Len(d)
    BY <1>5, <1>9, <2>1
  <2> QED
    BY <1>5, <1>8, <2>2
<1>11. d[i + 1] = 129
  <2>1. i + 1 \in 1..Len(d) /\ x + (i + 1) - 1 = p + 1
    BY <1>5, <1>8, <1>10
  <2> QED
    BY <1>4, <1>6, <2>1
<1>12. StartOfFrame(d, i) /\ i # 1
  BY <1>5, <1>7, <1>9, <1>10, <1>11
<1>13. PICK h \in 1..(i - 1) : FrameInside(d, h) /\ i = h + d[h + 4] + 6
  BY <1>12 DEF StartOfFrame
<1>14. PICK length \in 0..255 : length = d[h + 4] /\ d[h] = 128
  BY <1>13, InsideFact
<1>15. h = 1 \/ h = 2
  <2>1. i = h + length + 6
    BY <1>13, <1>14
  <2> QED
    BY <1>7, <2>1
<1>16. d[2] = 129 /\ Len(d) = d[5] + 6
  BY DEF LongEnough, IsFrame
<1>17. h = 1
  BY <1>14, <1>15, <1>16
<1>18. length = d[5] /\ i = length + 7
  <2>1. 1 + 4 = 5
    OBVIOUS
  <2>2. i = 1 + length + 6
    BY <1>13, <1>14, <1>17
  <2> QED
    BY <1>14, <1>17, <2>1, <2>2
<1> QED
  BY <1>8, <1>16, <1>18

\* A step keeps the invariant for the socket j.
LEMMA StepInvStep ==
  ASSUME ShortMinimum, FramesFit, TypeOK, Shape, Buffers, StepInv, [Next]_vars, NEW j \in Sockets,
         received'[j] # <<>>, leftover'[j] # 0, AllUnambiguous(j)', LongEnough(LastDatagram(j)')
  PROVE  \/ j \notin parsing' /\ rxIndex'[j] = 0
         \/ FirstPass(j, LastDatagram(j))' \/ SecondPass(j, LastDatagram(j))'
<1>1. CASE Receive(j)
  BY <1>1, FirstReceive
<1>2. CASE Untouched(j)
  <2>1. PICK d : d = LastDatagram(j)
    OBVIOUS
  <2>2. LastDatagram(j)' = d
    BY <1>2, <2>1 DEF LastDatagram, Untouched
  <2>3. (j \notin parsing /\ rxIndex[j] = 0) \/ FirstPass(j, d) \/ SecondPass(j, d)
    BY <1>2, <2>1, <2>2, UnambiguousSame DEF StepInv, Untouched
  <2>4. (j \notin parsing' /\ rxIndex'[j] = 0) \/ FirstPass(j, d)' \/ SecondPass(j, d)'
    BY <1>2, <2>3 DEF FirstPass, SecondPass, Behind, Untouched
  <2> QED
    BY <2>2, <2>4 DEF FirstPass, SecondPass, Behind
<1>3. CASE UnknownStart(j)
  BY <1>3, UnknownEnds
<1>4. CASE HandleFrame(j)
  <2>1. PICK d : d = LastDatagram(j)
    OBVIOUS
  <2>2. received' = received /\ leftover' = leftover /\ j \in parsing
    BY <1>4 DEF HandleFrame
  <2>3. LastDatagram(j)' = d
    BY <2>1, <2>2 DEF LastDatagram
  <2>8. AllUnambiguous(j)
    BY <2>2, UnambiguousSame
  <2>4. LongEnough(d) /\ (FirstPass(j, d) \/ SecondPass(j, d))
    BY <2>1, <2>2, <2>3, <2>8 DEF StepInv
  <2>5. d \in Seq(Byte) /\ Unambiguous(d)
    <3>1. received[j] \in Seq(Seq(Byte)) /\ received[j] # <<>>
      BY <2>2 DEF Shape
    <3>2. Len(received[j]) \in DOMAIN received[j]
      BY <3>1
    <3> QED
      BY <2>1, <2>8, <3>1, <3>2 DEF LastDatagram, AllUnambiguous
  <2>6. CASE FirstPass(j, d)
    <3>1. SecondPass(j, d)'
      BY <1>4, <2>4, <2>5, <2>6, <2>8, FirstToSecond
    <3> QED
      BY <2>3, <3>1 DEF SecondPass, Behind
  <2>7. CASE SecondPass(j, d)
    BY <1>4, <2>4, <2>5, <2>7, SecondEnds DEF HandleFrame
  <2> QED
    BY <2>4, <2>6, <2>7
<1>5. ASSUME NEW k \in Sockets, k # j, Receive(k) \/ HandleFrame(k) \/ UnknownStart(k)
      PROVE  Untouched(j)
  BY <1>5, ReceiveStep, PassStep
<1>6. CASE UNCHANGED vars
  BY <1>2, <1>6 DEF vars, Untouched
<1> QED
  BY <1>1, <1>2, <1>3, <1>4, <1>5, <1>6 DEF Next, LoopPass

\* The parser falls back into step: a frame of at least MinimumBytes leaves the
\* buffer empty, with any payload when nothing was left over, and behind any
\* left-over bytes as long as no datagram so far holds the header bytes inside a
\* frame.
THEOREM ParserFallsBackIntoStep ==
  ASSUME ShortMinimum, FramesFit
  PROVE  Spec => []BackInStep
<1>1. Init => StepInv
  BY DEF Init, StepInv
<1>2. TypeOK /\ Shape /\ Buffers /\ StepInv /\ [Next]_vars => StepInv'
  <2> SUFFICES ASSUME TypeOK, Shape, Buffers, StepInv, [Next]_vars PROVE StepInv'
    OBVIOUS
  <2>1. \A j \in Sockets :
          (/\ received'[j] # <<>> /\ leftover'[j] # 0 /\ AllUnambiguous(j)'
           /\ LongEnough(LastDatagram(j)')) =>
            \/ j \notin parsing' /\ rxIndex'[j] = 0
            \/ FirstPass(j, LastDatagram(j))' \/ SecondPass(j, LastDatagram(j))'
    BY StepInvStep
  <2> QED
    BY <2>1 DEF StepInv, LongEnough, IsFrame
<1>3. StepInv /\ FrameIsHandled => BackInStep
  BY DEF StepInv, FrameIsHandled, BackInStep, LongEnough, FirstPass, SecondPass, Behind
<1> QED
  BY <1>1, <1>2, <1>3, FramesAreHandled, TypeInvariance, BuffersInvariance, PTL DEF Spec
=============================================================================
