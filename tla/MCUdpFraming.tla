---------------------------- MODULE MCUdpFraming ----------------------------
(* Instances of UdpFraming for TLC: the frames of docs/PROTOCOL.md. *)
EXTENDS UdpFraming

ControlMode(on) == Frame(127, 241, <<on>>)
SectionStates(first) == Frame(127, 229, <<first, 0, 0, 0, 0, 0, 0, 255>>)
ProcessData == Frame(127, 242, <<156, 0, 16, 39, 0, 0>>)
Subnet(third) == Frame(127, 201, <<201, 201, 192, 168, third>>)
HalfSubnet == Frame(127, 201, <<201, 7, 7, 7, 7>>)
Largest == Frame(124, 214, [i \in 1..249 |-> i])
Longest == Frame(124, 214, [i \in 1..250 |-> i])

\* Noise of other programs on the port, shorter and longer than a header.
Noise == {<<36, 71, 80>>, [i \in 1..8 |-> i]}

\* Section states that hold the header bytes: behind a left-over ControlMode()
\* the first is read as a frame of its own payload, the second as one that runs
\* on into older bytes of the buffer; the last one ends with the first of them.
HeaderInside == Frame(127, 229, <<1, 0, 128, 129, 0, 0, 0, 0>>)
HeaderPastEnd == Frame(127, 229, <<128, 129, 128, 129, 3, 4, 40, 0>>)
HeaderAtEnd == Frame(127, 229, <<20, 0, 0, 0, 0, 0, 0, 0>>)

\* Frames alone, and two in a datagram.
AogDatagrams ==
  {ControlMode(1), SectionStates(3), ProcessData,
   SectionStates(1) \o ControlMode(1), ControlMode(1) \o SectionStates(7),
   HeaderInside, HeaderPastEnd, HeaderAtEnd}

Both ==
  [k \in {"main", "detection"} |->
     IF k = "main" THEN AogDatagrams \cup Noise \cup {Largest}
     ELSE {Subnet(1), Subnet(5), HalfSubnet, ControlMode(1)} \cup Noise]
SingleFrames == [k \in {"main"} |-> {ControlMode(0), ControlMode(1), SectionStates(3)}]
LongestFrame == [k \in {"main"} |-> {Longest, SectionStates(3)}]
=============================================================================
