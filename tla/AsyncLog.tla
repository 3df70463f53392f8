------------------------------ MODULE AsyncLog ------------------------------
(***************************************************************************)
(* The asynchronous log of src/async_log.cpp: the per-thread line buffers, *)
(* the bounded queue they submit lines to, the detached writer thread that *)
(* drains it to std::cout, and flush(), which the shutdown path and the    *)
(* crash handler (src/crash_handler.cpp) wait on.                          *)
(*                                                                         *)
(* A section of code under the queue's mutex that cannot block is one      *)
(* action; submit() takes the mutex in a step of its own, so that a thread *)
(* can crash while it holds it.  A line is its size and the number of its  *)
(* push_back().                                                            *)
(***************************************************************************)
EXTENDS Naturals, Sequences, FiniteSetsExt

CONSTANTS
  Threads,          \* threads that log: the main and the CAN stack thread
  Flushers,         \* threads that call flush() themselves: the main thread
  Crashers,         \* threads that may crash
  Writer,           \* the detached thread in write_lines()
  MaxQueuedBytes,   \* maxQueuedBytes, 8 MiB
  Pieces,           \* sizes of the pieces of text threads append
  MaxPartial,       \* bound: bytes of an unfinished line
  MaxLines          \* bound: lines submitted

ASSUME LogAssumption ==
  /\ Writer \notin Threads /\ Flushers \subseteq Threads
  /\ Crashers \subseteq Threads \cup {Writer}
  /\ "free" \notin Threads \cup {Writer}
  /\ MaxQueuedBytes \in Nat
  /\ Pieces \subseteq Nat \ {0}
  /\ MaxPartial \in Nat /\ MaxLines \in Nat

VARIABLES
  lines,         \* Queue::lines
  bytes,         \* Queue::bytes
  droppedBytes,  \* Queue::droppedBytes
  writing,       \* Queue::writing
  mutex,         \* the thread that holds Queue::mutex, or "free"
  batch,         \* write_lines(): lines of the batch not written yet
  dropped,       \* write_lines(): dropped bytes not announced yet
  out,           \* what std::cout has received: lines, and notices with n = 0
  partial,       \* per thread: the size of LineBuffer::line
  pending,       \* per thread: the size of the line it is submitting
  at,            \* per thread: where it is
  ending,        \* threads that are exiting or in the crash handler
  expired,       \* threads whose flush() has passed its deadline
  notified,      \* threads in flush() that `drained' has woken
  result,        \* per thread: what its last flush() returned
  asked,         \* history, per thread: lines submitted when it called flush()
  submitted      \* history: the lines submitted, by number

queueVars == <<lines, bytes, droppedBytes, writing>>
writerVars == <<batch, dropped, out>>
threadVars == <<partial, pending, ending>>
flushVars == <<expired, notified, asked, result>>
vars == <<queueVars, mutex, writerVars, threadVars, at, flushVars, submitted>>

Everyone == Threads \cup {Writer}
Line == [n : Nat, size : Nat]

\* The bytes of a sequence of lines.
BytesOf(queue) ==
  LET sum[k \in 0..Len(queue)] == IF k = 0 THEN 0 ELSE sum[k - 1] + queue[k].size
  IN  sum[Len(queue)]

Init ==
  /\ lines = <<>> /\ bytes = 0 /\ droppedBytes = 0 /\ writing = FALSE
  /\ mutex = "free"
  /\ batch = <<>> /\ dropped = 0 /\ out = <<>>
  /\ partial = [t \in Threads |-> 0] /\ pending = [t \in Threads |-> 0]
  /\ ending = {}
  /\ at = [t \in Everyone |-> IF t = Writer THEN "woken" ELSE "running"]
  /\ expired = {} /\ notified = {}
  /\ result = [t \in Everyone |-> "none"]
  /\ asked = [t \in Everyone |-> 0]
  /\ submitted = <<>>

Goto(t, place) == at' = [at EXCEPT ![t] = place]

---------------------------------------------------------------------------
(* LineBuffer and submit(). *)

\* LineBuffer::append(): text whose last newline ends `ended' bytes (none if
\* 0) and leaves `rest' bytes; everything up to that newline is submitted.
AppendText(t) ==
  /\ at[t] = "running"
  /\ \E ended \in Pieces \cup {0}, rest \in Pieces \cup {0} :
       \/ /\ ended = 0 /\ rest > 0
          /\ partial[t] + rest <= MaxPartial
          /\ partial' = [partial EXCEPT ![t] = @ + rest]
          /\ UNCHANGED <<pending, at>>
       \/ /\ ended > 0 /\ rest <= MaxPartial
          /\ pending' = [pending EXCEPT ![t] = partial[t] + ended]
          /\ partial' = [partial EXCEPT ![t] = rest]
          /\ Goto(t, "submitting")
  /\ UNCHANGED <<queueVars, mutex, writerVars, ending, flushVars, submitted>>

\* ~LineBuffer() at the end of the thread: the unfinished line is submitted.
Exit(t) ==
  /\ at[t] = "running"
  /\ ending' = ending \cup {t}
  /\ \/ /\ partial[t] > 0
        /\ pending' = [pending EXCEPT ![t] = partial[t]]
        /\ partial' = [partial EXCEPT ![t] = 0]
        /\ Goto(t, "submitting")
     \/ partial[t] = 0 /\ Goto(t, "gone") /\ UNCHANGED <<pending, partial>>
  /\ UNCHANGED <<queueVars, mutex, writerVars, flushVars, submitted>>

Lock(t) ==
  /\ at[t] = "submitting" /\ mutex = "free"
  /\ Len(submitted) < MaxLines
  /\ mutex' = t
  /\ Goto(t, "locked")
  /\ UNCHANGED <<queueVars, writerVars, threadVars, flushVars, submitted>>

\* Slip: one line over the limit is kept.
TooFewDropped(queue, total) ==
  Min({k \in 0..(Len(queue) - 1) :
         k + 2 >= Len(queue) \/ total - BytesOf(SubSeq(queue, 1, k)) <= MaxQueuedBytes})

\* The number of lines the loop of submit() drops from the front of a queue of
\* `total' bytes: as few as bring it to the limit, but never the newest line.
Dropped(queue, total) ==
  Min({k \in 0..(Len(queue) - 1) :
         k + 1 = Len(queue) \/ total - BytesOf(SubSeq(queue, 1, k)) <= MaxQueuedBytes})

Push(t) ==
  /\ at[t] = "locked"
  /\ LET line == [n |-> Len(submitted) + 1, size |-> pending[t]]
         queue == Append(lines, line)
         total == bytes + line.size
         k == Dropped(queue, total)
         gone == BytesOf(SubSeq(queue, 1, k))
     IN  /\ submitted' = Append(submitted, line)
         /\ lines' = SubSeq(queue, k + 1, Len(queue))
         /\ bytes' = total - gone
         /\ droppedBytes' = droppedBytes + gone
  /\ pending' = [pending EXCEPT ![t] = 0]
  /\ mutex' = "free"
  /\ Goto(t, "notifying")
  /\ UNCHANGED <<writing, writerVars, partial, ending, flushVars>>

\* Slip: the writer is not woken.
NoWakeUp(t, places) == places

\* hasLines.notify_one(), after the mutex was released.
WakeWriter(t, places) == [places EXCEPT ![Writer] = IF @ = "waiting" THEN "woken" ELSE @]

Notify(t) ==
  /\ at[t] = "notifying"
  /\ at' = WakeWriter(t, [at EXCEPT ![t] = IF t \in ending THEN "gone" ELSE "running"])
  /\ UNCHANGED <<queueVars, mutex, writerVars, threadVars, flushVars, submitted>>

---------------------------------------------------------------------------
(* write_lines(): the writer thread. *)

\* Slip: the count of dropped bytes is not reset.
TakeAndKeepCount ==
  /\ lines # <<>>
  /\ batch' = lines /\ lines' = <<>> /\ bytes' = 0
  /\ dropped' = droppedBytes /\ UNCHANGED droppedBytes
  /\ writing' = TRUE
  /\ Goto(Writer, "writing")

\* The wait on hasLines returns at once when there are lines; they and the
\* count of dropped bytes are taken over before the mutex is released.
TakeBatch ==
  /\ lines # <<>>
  /\ batch' = lines /\ lines' = <<>> /\ bytes' = 0
  /\ dropped' = droppedBytes /\ droppedBytes' = 0
  /\ writing' = TRUE
  /\ Goto(Writer, "writing")

\* Without lines the wait releases the mutex and sleeps.
AwaitLines ==
  /\ lines = <<>>
  /\ writing' = FALSE
  /\ Goto(Writer, "waiting")
  /\ UNCHANGED <<lines, bytes, droppedBytes, batch, dropped>>

WriterStarts ==
  /\ at[Writer] = "woken" /\ mutex = "free"
  /\ TakeBatch \/ AwaitLines
  /\ UNCHANGED <<mutex, out, threadVars, flushVars, submitted>>

WriteNotice ==
  /\ at[Writer] = "writing" /\ dropped # 0
  /\ out' = Append(out, [n |-> 0, size |-> dropped])
  /\ dropped' = 0
  /\ UNCHANGED <<queueVars, mutex, batch, threadVars, at, flushVars, submitted>>

\* Slip: the notice is left for the end of the batch.
LineBeforeNotice ==
  /\ at[Writer] = "writing" /\ batch # <<>>
  /\ out' = Append(out, Head(batch))
  /\ batch' = Tail(batch)
  /\ UNCHANGED <<queueVars, mutex, dropped, threadVars, at, flushVars, submitted>>

WriteLine ==
  /\ at[Writer] = "writing" /\ dropped = 0 /\ batch # <<>>
  /\ out' = Append(out, Head(batch))
  /\ batch' = Tail(batch)
  /\ UNCHANGED <<queueVars, mutex, dropped, threadVars, at, flushVars, submitted>>

\* The batch is out: with the mutex held until the next wait, the writer clears
\* `writing', wakes flush() if nothing was queued meanwhile, and waits again.
FinishBatch ==
  /\ at[Writer] = "writing" /\ dropped = 0 /\ batch = <<>> /\ mutex = "free"
  /\ notified' = IF lines = <<>> THEN {t \in Everyone : at[t] = "draining"} ELSE notified
  /\ TakeBatch \/ AwaitLines
  /\ UNCHANGED <<mutex, out, threadVars, expired, asked, result, submitted>>

---------------------------------------------------------------------------
(* flush() and the crash handler. *)

BeginFlush(t) ==
  /\ asked' = [asked EXCEPT ![t] = Len(submitted)]
  /\ result' = [result EXCEPT ![t] = "none"]
  /\ expired' = expired \ {t} /\ notified' = notified \ {t}
  /\ Goto(t, "trying")

Flush(t) ==
  /\ at[t] = "running"
  /\ BeginFlush(t)
  /\ UNCHANGED <<queueVars, mutex, writerVars, threadVars, submitted>>

\* A crash anywhere, in the critical section of submit() and in the writer
\* too: log_crash() flushes before it writes its reason.
Crash(t) ==
  /\ at[t] \in {"running", "submitting", "locked", "notifying", "writing"}
  /\ t \notin ending
  /\ ending' = ending \cup {t}
  /\ BeginFlush(t)
  /\ UNCHANGED <<queueVars, mutex, writerVars, partial, pending, submitted>>

Deadline(t) ==
  /\ at[t] \in {"trying", "draining"} /\ t \notin expired
  /\ expired' = expired \cup {t}
  /\ UNCHANGED <<queueVars, mutex, writerVars, threadVars, at, notified, asked, result, submitted>>

\* A flush() called by the crash handler is followed by the end of the process.
Return(t, value) ==
  /\ result' = [result EXCEPT ![t] = value]
  /\ expired' = expired \ {t} /\ notified' = notified \ {t}
  /\ Goto(t, IF t \in ending THEN "died" ELSE "running")

\* Slip: a batch that is being written counts as drained.
QueueEmpty == lines = <<>>

Drained == lines = <<>> /\ ~writing

\* One evaluation of the predicate of wait_until(), under the mutex.
CheckDrained(t) ==
  \/ Drained /\ Return(t, "drained")
  \/ ~Drained /\ t \in expired /\ Return(t, "timeout")
  \/ ~Drained /\ t \notin expired /\ Goto(t, "draining")
     /\ notified' = notified \ {t} /\ UNCHANGED <<expired, result>>

\* Slip: flush() locks the mutex instead of trying to.
BlockingLock(t) ==
  /\ at[t] = "trying" /\ mutex = "free" /\ CheckDrained(t)
  /\ UNCHANGED <<queueVars, mutex, writerVars, threadVars, asked, submitted>>

\* The loop on try_lock(), which gives up at the deadline.
TryLock(t) ==
  /\ at[t] = "trying"
  /\ \/ mutex = "free" /\ CheckDrained(t)
     \/ mutex # "free" /\ t \in expired /\ Return(t, "timeout")
  /\ UNCHANGED <<queueVars, mutex, writerVars, threadVars, asked, submitted>>

\* wait_until() wakes on drained.notify_all() and at the deadline, and takes
\* the mutex again before it looks.
WakeInFlush(t) ==
  /\ at[t] = "draining" /\ t \in notified \cup expired /\ mutex = "free"
  /\ CheckDrained(t)
  /\ UNCHANGED <<queueVars, mutex, writerVars, threadVars, asked, submitted>>

---------------------------------------------------------------------------

Dead == \E t \in Everyone : at[t] = "died"

WriterStep == WriterStarts \/ WriteNotice \/ WriteLine \/ FinishBatch
SubmitStep(t) == Lock(t) \/ Push(t) \/ Notify(t)
FlushStep(t) == TryLock(t) \/ WakeInFlush(t)

Next ==
  /\ ~Dead
  /\ \/ \E t \in Threads : AppendText(t) \/ Exit(t) \/ SubmitStep(t)
     \/ \E t \in Flushers : Flush(t)
     \/ WriterStep
     \/ \E t \in Crashers : Crash(t)
     \/ \E t \in Everyone : Deadline(t) \/ FlushStep(t)

\* Threads inside submit() and flush() keep running and time passes; the
\* writer, which may be stuck in std::cout, is not assumed to.
Fairness ==
  /\ \A t \in Threads : WF_vars(~Dead /\ SubmitStep(t))
  /\ \A t \in Everyone : WF_vars(~Dead /\ FlushStep(t)) /\ WF_vars(~Dead /\ Deadline(t))

Spec == Init /\ [][Next]_vars /\ Fairness

---------------------------------------------------------------------------
(* Properties. *)

Places == {"running", "submitting", "locked", "notifying", "gone", "woken",
           "waiting", "writing", "trying", "draining", "died"}

\* The type invariant, with what ties the flags to the threads' places: the
\* writer that waits is not writing and has nothing left to write, the mutex is
\* held by a thread inside submit() or by one that crashed there.
TypeOK ==
  /\ lines \in Seq(Line) /\ batch \in Seq(Line)
  /\ out \in Seq(Line) /\ submitted \in Seq(Line)
  /\ bytes \in Nat /\ droppedBytes \in Nat /\ dropped \in Nat
  /\ writing \in BOOLEAN
  /\ mutex \in Threads \cup {"free"}
  /\ partial \in [Threads -> Nat] /\ pending \in [Threads -> Nat]
  /\ ending \subseteq Everyone
  /\ at \in [Everyone -> Places]
  /\ expired \subseteq Everyone /\ notified \subseteq Everyone
  /\ result \in [Everyone -> {"none", "drained", "timeout"}]
  /\ asked \in [Everyone -> Nat]
  /\ at[Writer] \in {"woken", "waiting"} => ~writing /\ batch = <<>> /\ dropped = 0
  /\ mutex # "free" => at[mutex] = "locked" \/ mutex \in ending

\* Memory is bounded with a sink that never recovers (comment on maxQueuedBytes):
\* `bytes' is exactly what is queued, and more than the limit is only ever
\* queued as one single line.
QueueBounded ==
  /\ bytes = BytesOf(lines)
  /\ bytes <= MaxQueuedBytes \/ Len(lines) = 1

\* The notice of dropped bytes, if there are any.
Notice(count) == IF count = 0 THEN <<>> ELSE <<[n |-> 0, size |-> count]>>

\* Everything that left the queue, in the order it reaches std::cout.
Stream == out \o Notice(dropped) \o batch \o Notice(droppedBytes) \o lines

\* No byte vanishes silently, and none moves: wherever a line appears in the
\* output, the lines and drop notices before it account for exactly the bytes
\* submitted before it by all threads, so a notice stands where its gap is.
NothingVanishes ==
  \A k \in DOMAIN Stream :
     Stream[k].n # 0 =>
        /\ Stream[k] = submitted[Stream[k].n]
        /\ BytesOf(SubSeq(Stream, 1, k)) = BytesOf(SubSeq(submitted, 1, Stream[k].n))

\* What the log still owes std::cout, and how dropped lines appear in it.
Waiting == Notice(dropped) \o batch \o Notice(droppedBytes) \o lines
Announcement(queue) == Notice(BytesOf(queue))

Lossy == INSTANCE LossyLog WITH waiting <- Waiting, Announce <- Announcement

\* Queue, batch, counters and threads implement LossyLog: seen from outside, the
\* log is one queue whose entries reach std::cout unchanged and in order, and
\* from which only submit() removes lines, in favour of a notice in their place.
LogIsLossyFifo == Lossy!Spec

\* flush() that returns true has put everything submitted before the call in
\* front of the reader: every byte is written or announced as dropped.
FlushAccountsForAll ==
  \A t \in Everyone :
     result[t] = "drained" => BytesOf(out) >= BytesOf(SubSeq(submitted, 1, asked[t]))

\* flush() returns, in the crash handler too, whoever died holding the mutex
\* and however stuck the writer is: the process cannot hang on its log.
FlushReturns ==
  \A t \in Everyone :
     at[t] \in {"trying", "draining"} ~> (at[t] \notin {"trying", "draining"} \/ Dead)

\* Every submitted line is written or dropped unless the process dies, provided
\* that std::cout is not stuck for ever: the writer, when it is not kept from
\* running, never sleeps on a queue with lines in it.
LinesAreWritten ==
  WF_vars(~Dead /\ WriterStep) =>
    ((lines # <<>> \/ batch # <<>>) ~> (lines = <<>> /\ batch = <<>>) \/ Dead)
=============================================================================
