------------------------------ MODULE LossyLog ------------------------------
(***************************************************************************)
(* What src/async_log.cpp promises: one log for all threads, first in,     *)
(* first out, which no thread waits for.  Instead the log may drop what    *)
(* has not been written yet, but never the line just submitted, and never  *)
(* without a notice in its place.                                          *)
(***************************************************************************)
EXTENDS Naturals, Sequences

CONSTANT Announce(_)   \* what stands for a run of dropped entries: a notice, or nothing

VARIABLES
  out,        \* what has been written, notices included
  waiting,    \* what is still to be written
  submitted   \* the lines submitted

logVars == <<out, waiting, submitted>>

Init == out = <<>> /\ waiting = <<>> /\ submitted = <<>>

\* A line is submitted, and a run of entries in front of it may be dropped.
Submit ==
  /\ Len(submitted') = Len(submitted) + 1
  /\ LET line == submitted'[Len(submitted')]
         queue == Append(waiting, line)
     IN  /\ submitted' = Append(submitted, line)
         /\ \E i \in 0..Len(waiting) : \E j \in i..Len(waiting) :
              waiting' = SubSeq(queue, 1, i) \o Announce(SubSeq(queue, i + 1, j))
                           \o SubSeq(queue, j + 1, Len(queue))
  /\ UNCHANGED out

\* The oldest entry is written.
Write ==
  /\ waiting # <<>>
  /\ out' = Append(out, Head(waiting)) /\ waiting' = Tail(waiting)
  /\ UNCHANGED submitted

Next == Submit \/ Write

Spec == Init /\ [][Next]_logVars
=============================================================================
