----------------------------- MODULE UdpFraming -----------------------------
(***************************************************************************)
(* The framed UDP protocol of src/udp_connections.cpp: how the two receive *)
(* handlers of the main loop cut frames out of their static buffers.       *)
(*                                                                         *)
(*   "main"       handle_incoming_packets(), which calls the packet handler*)
(*   "detection"  handle_address_detection(), which sets the subnet        *)
(*                                                                         *)
(* The frame is <<0x80, 0x81, source, PGN, length>> \o payload \o <<crc>>; *)
(* the crc is not looked at.  The buffers outlive the calls, what is left  *)
(* of one datagram is put in front of the next.                            *)
(***************************************************************************)
EXTENDS Naturals, Sequences, FiniteSets, Functions

CONSTANTS
  Sockets,         \* the handlers looked at, a subset of {"main", "detection"}
  Datagrams,       \* per socket: the datagrams that arrive on it
  IndexModulus,    \* 256: `index' is a std::uint8_t
  BufferSize,      \* 512 bytes
  MinimumBytes,    \* 8: the least number of bytes the loop looks at
  MaxDatagrams,    \* bound: datagrams received on all sockets together
  MaxHandled       \* bound: frames of one call that are recorded

Byte == 0..255

ASSUME FramingAssumption ==
  /\ Sockets \subseteq {"main", "detection"}
  /\ IndexModulus \in 1..256 /\ BufferSize \in Nat /\ MinimumBytes \in 1..BufferSize
  /\ BufferSize >= IndexModulus + 255 /\ MinimumBytes + 2 <= IndexModulus
  /\ DOMAIN Datagrams = Sockets
  /\ \A k \in Sockets : \A d \in Datagrams[k] : d \in Seq(Byte) /\ Len(d) <= BufferSize
  /\ MaxDatagrams \in Nat /\ MaxHandled \in Nat

VARIABLES
  rxBuffer,   \* per socket: the static buffer, indexed from 0
  rxIndex,    \* per socket: the number of bytes in it
  index,      \* per socket: the read position of the call
  parsing,    \* sockets whose handler is inside its loop
  handled,    \* per socket: the frames this call has handled
  subnet,     \* settings->get_subnet(), or <<>> for the configured one
  received,   \* history, per socket: the datagrams received
  leftover    \* history, per socket: rxIndex before the last datagram

vars == <<rxBuffer, rxIndex, index, parsing, handled, subnet, received, leftover>>

\* The frame send() builds, and the peers with it.
Frame(src, pgn, data) ==
  LET body == <<src, pgn, Len(data)>> \o data
      sum == Cardinality({unit \in (1..Len(body)) \X (1..255) : unit[2] <= body[unit[1]]})
  IN  <<128, 129>> \o body \o <<sum % 256>>

Init ==
  /\ rxBuffer = [k \in Sockets |-> [i \in 0..(BufferSize - 1) |-> 0]]
  /\ rxIndex = [k \in Sockets |-> 0]
  /\ index = [k \in Sockets |-> 0]
  /\ parsing = {}
  /\ handled = [k \in Sockets |-> <<>>]
  /\ subnet = <<>>
  /\ received = [k \in Sockets |-> <<>>]
  /\ leftover = [k \in Sockets |-> 0]

\* Slip: exactly MinimumBytes are not enough.
MoreThanMinimum(bytes) == bytes > MinimumBytes

\* The condition of the loop.
LoopGoesOn(bytes) == bytes >= MinimumBytes

TotalReceived == FoldFunction(LAMBDA d, n : n + Len(d), 0, received)

\* receive_from() behind the bytes that were left over; a datagram that does
\* not fit is cut off.  An empty socket and a receive error change nothing, and
\* a handler is called when the other one has returned.
Receive(k) ==
  /\ parsing = {} /\ TotalReceived < MaxDatagrams
  /\ \E datagram \in Datagrams[k] :
       LET room == BufferSize - rxIndex[k]
           size == IF Len(datagram) <= room THEN Len(datagram) ELSE room
           In(i) == rxIndex[k] <= i /\ i < rxIndex[k] + size
       IN  /\ rxBuffer' = [rxBuffer EXCEPT ![k] =
                [i \in 0..(BufferSize - 1) |->
                   IF In(i) THEN datagram[i - rxIndex[k] + 1] ELSE @[i]]]
           /\ rxIndex' = [rxIndex EXCEPT ![k] = @ + size]
           /\ parsing' = IF LoopGoesOn(rxIndex[k] + size) THEN parsing \cup {k} ELSE parsing
           /\ received' = [received EXCEPT ![k] = Append(@, datagram)]
  /\ index' = [index EXCEPT ![k] = 0]
  /\ handled' = [handled EXCEPT ![k] = <<>>]
  /\ leftover' = [leftover EXCEPT ![k] = rxIndex[k]]
  /\ UNCHANGED subnet

\* The position `offset' bytes on, in a std::uint8_t.
Advance(i, offset) == (i + offset) % IndexModulus

\* The bytes of one pass of the loop, read at the position `index' has.
ByteAt(k, offset) == rxBuffer[k][Advance(index[k], offset)]
StartsFrame(k) == ByteAt(k, 0) = 128 /\ ByteAt(k, 1) = 129

\* Slip: the payload is taken from the length byte on.
FrameFromLength(k) ==
  [src |-> ByteAt(k, 2), pgn |-> ByteAt(k, 3),
   data |-> [j \in 1..ByteAt(k, 4) |-> rxBuffer[k][Advance(index[k], 4) + j - 1]]]

\* The frame as the handler is given it; the payload is not checked against
\* the number of bytes received.  handle_address_detection() reads its payload
\* with index++, which wraps around; the packet handler gets a span.
FrameAt(k) ==
  [src |-> ByteAt(k, 2), pgn |-> ByteAt(k, 3),
   data |-> [j \in 1..ByteAt(k, 4) |->
               IF k = "detection" THEN ByteAt(k, 4 + j)
               ELSE rxBuffer[k][Advance(index[k], 5) + j - 1]]]

\* Slip: one byte of the magic is enough.
OneMagicByte(frame) ==
  frame.src = 127 /\ frame.pgn = 201 /\ Len(frame.data) = 5 /\ frame.data[1] = 201

\* A subnet announcement: PGN 201 of AgIO with its two magic bytes.
IsSubnet(frame) ==
  /\ frame.src = 127 /\ frame.pgn = 201 /\ Len(frame.data) = 5
  /\ frame.data[1] = 201 /\ frame.data[2] = 201

\* The magic bytes handle_address_detection() has stepped over before it knows
\* that the frame is not a subnet announcement.
SteppedOver(frame) ==
  IF frame.src = 127 /\ frame.pgn = 201 /\ Len(frame.data) = 5 /\ ~IsSubnet(frame)
  THEN IF frame.data[1] = 201 THEN 2 ELSE 1
  ELSE 0

\* Slip: the crc byte is not skipped.
AfterPayload(k, frame) == Advance(index[k], 5 + ByteAt(k, 4))

\* The position behind a frame.
AfterFrame(k, frame) ==
  Advance(index[k], 5 + ByteAt(k, 4) + 1
                    + IF k = "detection" THEN SteppedOver(frame) ELSE 0)

\* Nothing is left when the position is past what was received.
BytesLeft(bytes, position) == IF position < bytes THEN bytes - position ELSE 0

\* The end of a pass: the `bytes' of the buffer from `position' on move to its
\* front; `index' keeps its value.
MoveToFront(k, bytes, position) ==
  LET left == BytesLeft(bytes, position)
  IN  /\ rxBuffer' = [rxBuffer EXCEPT ![k] =
           [i \in 0..(BufferSize - 1) |-> IF i < left THEN @[position + i] ELSE @[i]]]
      /\ rxIndex' = [rxIndex EXCEPT ![k] = left]
      /\ index' = [index EXCEPT ![k] = position]
      /\ parsing' = IF LoopGoesOn(left) THEN parsing ELSE parsing \ {k}

HandleFrame(k) ==
  /\ k \in parsing /\ StartsFrame(k)
  /\ LET frame == FrameAt(k)
     IN  /\ handled' = [handled EXCEPT ![k] = IF Len(@) < MaxHandled THEN Append(@, frame) ELSE @]
         /\ subnet' = IF k = "detection" /\ IsSubnet(frame) THEN SubSeq(frame.data, 3, 5) ELSE subnet
         /\ MoveToFront(k, rxIndex[k], AfterFrame(k, frame))
  /\ UNCHANGED <<received, leftover>>

\* Slip: the bytes are left where they are.
PeekStart(k) ==
  /\ k \in parsing /\ ~StartsFrame(k)
  /\ MoveToFront(k, rxIndex[k], 0)
  /\ UNCHANGED <<handled, subnet, received, leftover>>

\* Slip: only the two bytes looked at are thrown away.
SkipTwoBytes(k) ==
  /\ k \in parsing /\ ~StartsFrame(k)
  /\ MoveToFront(k, rxIndex[k], Advance(index[k], 2))
  /\ UNCHANGED <<handled, subnet, received, leftover>>

\* Anything else than a start of frame throws the buffer away.
UnknownStart(k) ==
  /\ k \in parsing /\ ~StartsFrame(k)
  /\ MoveToFront(k, 0, Advance(index[k], 2))
  /\ UNCHANGED <<handled, subnet, received, leftover>>

LoopPass == \E k \in Sockets : HandleFrame(k) \/ UnknownStart(k)
Next == LoopPass \/ \E k \in Sockets : Receive(k)

\* The loop runs on.
Spec == Init /\ [][Next]_vars /\ WF_vars(LoopPass)

---------------------------------------------------------------------------
(* Properties. *)

\* The type invariant: the position stays in the buffer whatever lengths the
\* peers announce, and less than MinimumBytes are carried over to the next call.
TypeOK ==
  /\ rxBuffer \in [Sockets -> [0..(BufferSize - 1) -> Byte]]
  /\ index \in [Sockets -> 0..(IndexModulus - 1)]
  /\ parsing \subseteq Sockets
  /\ \A k \in Sockets : rxIndex[k] \in (IF k \in parsing THEN MinimumBytes ELSE 0)
                                        ..(IF k \in parsing THEN BufferSize ELSE MinimumBytes - 1)

IsFrame(d) == Len(d) >= 6 /\ d[1] = 128 /\ d[2] = 129 /\ Len(d) = d[5] + 6
Content(d) == [src |-> d[3], pgn |-> d[4], data |-> SubSeq(d, 6, Len(d) - 1)]
LastDatagram(k) == received[k][Len(received[k])]

\* A frame of at least MinimumBytes that finds the buffer empty is handled once,
\* intact and at once, and leaves the buffer empty.
FrameIsHandled ==
  \A k \in Sockets \ parsing :
     (/\ received[k] # <<>> /\ leftover[k] = 0
      /\ IsFrame(LastDatagram(k)) /\ Len(LastDatagram(k)) >= MinimumBytes)
     => handled[k] = <<Content(LastDatagram(k))>> /\ rxIndex[k] = 0

\* A complete frame lies at byte i of d, and one which the sender put there: it
\* comes first in d or directly behind another frame of d.
FrameInside(d, i) ==
  i \in 1..(Len(d) - 5) /\ d[i] = 128 /\ d[i + 1] = 129 /\ i + d[i + 4] + 5 <= Len(d)
StartOfFrame(d, i) ==
  /\ FrameInside(d, i)
  /\ i = 1 \/ \E h \in 1..(i - 1) : FrameInside(d, h) /\ i = h + d[h + 4] + 6

\* The header bytes only occur where a frame starts, the first of them is not
\* the last byte of d, and behind what is left over d is within the range of the
\* read position.  A payload or a checksum may break this: the bits of 0xE5 are
\* arbitrary, and nothing in the protocol escapes the header.
Unambiguous(d) ==
  /\ Len(d) + MinimumBytes + 2 <= IndexModulus
  /\ \A i \in 1..Len(d) :
       d[i] = 128 => i < Len(d) /\ (d[i + 1] = 129 => StartOfFrame(d, i))
AllUnambiguous(k) == \A m \in DOMAIN received[k] : Unambiguous(received[k][m])

\* The last datagram is a frame of at least MinimumBytes, with any payload, and
\* found the buffer empty.
FrameAlone(k) ==
  /\ received[k] # <<>> /\ leftover[k] = 0
  /\ IsFrame(LastDatagram(k)) /\ Len(LastDatagram(k)) >= MinimumBytes

\* The parser falls back into step: a frame of at least MinimumBytes leaves the
\* buffer empty for the next one, whatever its payload if nothing was left over,
\* and whatever was left over if no datagram so far holds the header bytes
\* inside a frame.  So noise and short frames cost no more than one following
\* frame.  Not claimed, because it is false: that this also holds when bytes were
\* left over and a payload holds 0x80 0x81 (the frame is then read from inside).
BackInStep ==
  \A k \in Sockets \ parsing :
     (/\ received[k] # <<>> /\ (leftover[k] = 0 \/ AllUnambiguous(k))
      /\ IsFrame(LastDatagram(k)) /\ Len(LastDatagram(k)) >= MinimumBytes)
     => rxIndex[k] = 0

\* Nothing is invented: every frame handed to the packet handler is one a peer
\* put in a datagram, not a piece of a payload and not a remnant of the buffer,
\* when the datagram is a frame that found the buffer empty, or when no datagram
\* so far holds the header bytes inside a frame: then also behind short frames
\* and noise, and when frames share a datagram.
NothingInvented ==
  \A k \in Sockets : FrameAlone(k) \/ AllUnambiguous(k) =>
     \A n \in DOMAIN handled[k] : \E m \in DOMAIN received[k] :
        LET d == received[k][m]
        IN  \E i \in 1..(Len(d) - 5) :
               /\ StartOfFrame(d, i)
               /\ handled[k][n] = Content(SubSeq(d, i, i + d[i + 4] + 5))

\* A receive handler returns: the main loop, which also paces every periodic
\* transmission on the bus, is not held up by what arrives on the network.
HandlerReturns == \A k \in Sockets : k \in parsing ~> k \notin parsing

\* The subnet is one AgIO announced on the detection socket, whatever other
\* frames and noise either socket gets.
SubnetWasAnnounced ==
  subnet # <<>> =>
     \E m \in DOMAIN received["detection"] :
        LET d == received["detection"][m]
        IN  /\ IsFrame(d) /\ Len(d) = 11 /\ SubSeq(d, 3, 7) = <<127, 201, 5, 201, 201>>
            /\ subnet = SubSeq(d, 8, 10)

---------------------------------------------------------------------------
(* What the documentation says and the code does not do. *)

\* docs/PROTOCOL.md on 0xE5: "The TC forwards these to the connected ISOBUS
\* implement".  A frame of at least MinimumBytes in a datagram of its own has
\* been handled when the receive handler returns, whatever frames AOG sent before.
EveryFrameIsHandled ==
  \A k \in Sockets \ parsing :
     (/\ received[k] # <<>>
      /\ IsFrame(LastDatagram(k)) /\ Len(LastDatagram(k)) >= MinimumBytes)
        => \E n \in DOMAIN handled[k] : handled[k][n] = Content(LastDatagram(k))
=============================================================================
