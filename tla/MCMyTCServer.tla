---------------------------- MODULE MCMyTCServer ----------------------------
(***************************************************************************)
(* Pools and reports for model checking MyTCServer.                        *)
(***************************************************************************)
EXTENDS MyTCServer

NoObject == 65535    \* NULL_OBJECT_ID

PD(id, ddi, settable) ==
  [id |-> id, ddi |-> ddi, settable |-> settable, onChange |-> TRUE, timeInterval |-> ~settable]
Element(id, number, parent, children) ==
  [id |-> id, number |-> number, parent |-> parent, children |-> children]

\* A device element (object 1, number 0), a boom below it (object 2, number 1)
\* and `n' sections below the boom (objects 3.., numbers 2..).
Elements(n, onBoom, onSection) ==
  <<Element(1, 0, NoObject, {}), Element(2, 1, 1, onBoom)>>
  \o [i \in 1..n |-> Element(2 + i, 1 + i, 2, onSection)]
Boom(n) == <<[subBooms |-> <<>>, sections |-> [i \in 1..n |-> 1 + i]]>>
SplitBoom(n) == <<[subBooms |-> <<[i \in 1..(n - 1) |-> 1 + i]>>, sections |-> <<1 + n>>]>>

Modern(n) ==
  [ok |-> TRUE, hasDevice |-> TRUE, booms |-> SplitBoom(n),
   elements |-> Elements(n, {90, 91, 92, 93, 94, 95, 96}, {}),
   processData |-> <<PD(90, 290, TRUE), PD(91, 291, TRUE), PD(92, 289, TRUE),
                     PD(93, 160, TRUE), PD(94, 514, TRUE), PD(95, 161, FALSE), PD(96, 162, FALSE)>>]
Old(n) ==
  [Modern(n) EXCEPT !.booms = Boom(n),
     !.processData = <<PD(90, 161, TRUE), PD(91, 162, TRUE), PD(93, 160, TRUE)>>]
Oldest(n) ==
  [ok |-> TRUE, hasDevice |-> TRUE, booms |-> Boom(n),
   elements |-> Elements(n, {92, 93}, {97}),
   processData |-> <<PD(92, 289, TRUE), PD(93, 160, TRUE), PD(97, 141, TRUE)>>]
\* A tractor: no sections, but the control and GNSS DDIs are there.
Tractor ==
  [Modern(1) EXCEPT !.booms = <<>>, !.elements = Elements(0, {93, 94}, {})]
\* 256 sections: the std::uint8_t count wraps to zero.
Wrapped == [Modern(1) EXCEPT !.booms = <<[subBooms |-> <<>>, sections |-> [i \in 1..256 |-> 2]]>>]
Broken == [Tractor EXCEPT !.ok = FALSE]
NoDevice == [Tractor EXCEPT !.hasDevice = FALSE]

ModernPools == {Modern(3)}
ControlPools == {Modern(4), Old(3), Oldest(3), NoDevice, Broken}
ReportingModernPools == {Modern(2), Wrapped, Broken}
Reports == {[i \in 0..(SectionsPerMessage - 1) |-> ON]}
NoReports == {}
=============================================================================
