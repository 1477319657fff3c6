---------------------------- MODULE BulkStream ----------------------------
(***************************************************************************)
(* The sample path of librtlsdr-rs: every way a program can read IQ data   *)
(* from one opened dongle, and the reader-busy flag that keeps two of them *)
(* from reading the bulk endpoint 0x81 at the same time.                   *)
(*                                                                         *)
(* A session is one call of an entry point: RtlSdrDevice/RtlSdrReader      *)
(* read_sync, an iterator made by iter_samples, a tokio or smol stream     *)
(* with its worker closure, or read_async_blocking with its callback loop. *)
(* pc says where the session's thread is in that code; the consumer side   *)
(* (next, poll_next, dropping the iterator or the stream, setting the      *)
(* cancel flag, unplugging the dongle) runs concurrently with it.          *)
(***************************************************************************)
EXTENDS Integers, Sequences, FiniteSets

CONSTANTS
    Sessions,     \* the sessions, each one call of an entry point
    Kinds,        \* the entry points the sessions may call
    Depth,        \* STREAM_BACKPRESSURE_DEPTH: slots of a stream's channel
    ZeroLimit,    \* MAX_CONSECUTIVE_ZERO_READS of read_async_blocking
    MaxChunks     \* bound: non-empty transfers the dongle completes

Streams == {"tokio", "smol"}
AllKinds == {"read_sync", "iter_samples", "async"} \cup Streams

ASSUME BulkStreamAssumption ==
    /\ Kinds \subseteq AllKinds
    /\ Depth \in Nat \ {0}
    /\ ZeroLimit \in Nat \ {0}
    /\ MaxChunks \in Nat

VARIABLES
    busy,         \* reader_busy, the AtomicBool every session shares
    devLost,      \* dev_lost, the AtomicBool Drop of the device consults
    present,      \* the dongle is plugged in
    completed,    \* number of non-empty transfers completed so far
    kind,         \* entry point of each session
    pc,           \* where the session's thread is
    guard,        \* the session owns a ReaderBusyGuard
    buf,          \* result of the session's last transfer, not yet delivered
    chan,         \* the stream's channel
    rx,           \* the stream's receiver is alive
    cancel,       \* cancel_flag of read_async_blocking
    zeros,        \* consecutive_zero_reads of read_async_blocking
    got,          \* history: the items the consumer has been handed
    ended         \* history: the consumer has been told there is no more

device == <<devLost, present, completed>>
consumer == <<rx, cancel, got, ended>>
vars == <<busy, device, kind, pc, guard, buf, chan, zeros, consumer>>

---------------------------------------------------------------------------
(* Items: a chunk is named by its position in the order in which the       *)
(* dongle completed the non-empty transfers.                               *)

ReadErrors == {"DeviceLost", "Timeout", "Usb"}
Errors == ReadErrors \cup {"DeviceBusy", "InvalidParameter"}
Item == [chunk : Nat, err : Errors \cup {"none"}]

Chunk(n) == [chunk |-> n, err |-> "none"]
Fail(e) == [chunk |-> 0, err |-> e]
Nothing == Chunk(0)        \* Ok(0), Ok(()) or None: no item

PCs == {"new", "ready", "reading", "returning", "done", "deferred", "held",
        "yielding", "fused", "queued", "sending", "ending", "closing",
        "callback"}

Goto(s, label) == pc' = [pc EXCEPT ![s] = label]
SetBuf(s, item) == buf' = [buf EXCEPT ![s] = item]

(* The caller of session s is handed item, or told that nothing comes.     *)
Observe(s, item) ==
    IF item = Nothing
    THEN ended' = [ended EXCEPT ![s] = TRUE] /\ UNCHANGED got
    ELSE got' = [got EXCEPT ![s] = Append(@, item)] /\ UNCHANGED ended

Init ==
    /\ busy = FALSE /\ devLost = FALSE /\ present = TRUE /\ completed = 0
    /\ kind \in [Sessions -> Kinds]
    /\ pc = [s \in Sessions |-> "new"]
    /\ guard = [s \in Sessions |-> FALSE]
    /\ buf = [s \in Sessions |-> Nothing]
    /\ chan = [s \in Sessions |-> <<>>]
    /\ rx = [s \in Sessions |-> FALSE]
    /\ cancel = [s \in Sessions |-> FALSE]
    /\ zeros = [s \in Sessions |-> 0]
    /\ got = [s \in Sessions |-> <<>>]
    /\ ended = [s \in Sessions |-> FALSE]

---------------------------------------------------------------------------
(* ReaderBusyGuard                                                         *)

(* Mutant: the flag is stored without looking at its old value.            *)
TryAcquireUnchecked(s) ==
    /\ busy' = TRUE
    /\ guard' = [guard EXCEPT ![s] = TRUE]

(* compare_exchange(false, true) succeeds.                                 *)
TryAcquire(s) ==
    /\ ~busy
    /\ busy' = TRUE
    /\ guard' = [guard EXCEPT ![s] = TRUE]

(* Mutant: the guard's drop forgets to clear the flag.                     *)
ReleaseGuardLeaky(s) ==
    /\ busy' = busy
    /\ guard' = [guard EXCEPT ![s] = FALSE]

(* Drop of an Option<ReaderBusyGuard>: only a guard clears the flag.       *)
ReleaseGuard(s) ==
    /\ busy' = (busy /\ ~guard[s])
    /\ guard' = [guard EXCEPT ![s] = FALSE]

---------------------------------------------------------------------------
(* Entry points                                                            *)

FirstStop(k) ==
    CASE k \in Streams       -> "queued"
      [] k = "iter_samples"  -> "held"
      [] OTHER               -> "ready"

StartOk(s) ==
    /\ pc[s] = "new"
    /\ TryAcquire(s)
    /\ Goto(s, FirstStop(kind[s]))
    /\ rx' = [rx EXCEPT ![s] = kind[s] \in Streams]
    /\ UNCHANGED <<device, kind, buf, chan, zeros, cancel, got, ended>>

(* compare_exchange fails: an iterator keeps the error for its first next, *)
(* the other entry points return it.                                       *)
StartBusy(s) ==
    /\ pc[s] = "new" /\ busy
    /\ IF kind[s] = "iter_samples"
       THEN Goto(s, "deferred") /\ UNCHANGED <<got, ended>>
       ELSE Goto(s, "done") /\ Observe(s, Fail("DeviceBusy"))
    /\ UNCHANGED <<busy, device, kind, guard, buf, chan, zeros, rx, cancel>>

(* stream_samples_tokio outside a runtime: refused before the flag.        *)
StartNoRuntime(s) ==
    /\ pc[s] = "new" /\ kind[s] = "tokio"
    /\ Goto(s, "done")
    /\ Observe(s, Fail("InvalidParameter"))
    /\ UNCHANGED <<busy, device, kind, guard, buf, chan, zeros, rx, cancel>>

(* read_async_blocking with a bad buf_len: refused after the flag is taken.*)
StartBadLength(s) ==
    /\ pc[s] = "new" /\ kind[s] = "async"
    /\ TryAcquire(s)
    /\ SetBuf(s, Fail("InvalidParameter"))
    /\ Goto(s, "returning")
    /\ UNCHANGED <<device, kind, chan, zeros, consumer>>

---------------------------------------------------------------------------
(* Starting a transfer                                                     *)

(* read_sync holds its guard and calls bulk_read.                          *)
SyncRead(s) ==
    /\ pc[s] = "ready" /\ kind[s] = "read_sync"
    /\ Goto(s, "reading")
    /\ UNCHANGED <<busy, device, kind, guard, buf, chan, zeros, consumer>>

(* next() on a live iterator.                                              *)
IterNext(s) ==
    /\ pc[s] = "held"
    /\ Goto(s, "reading")
    /\ UNCHANGED <<busy, device, kind, guard, buf, chan, zeros, consumer>>

(* next() yields the deferred DeviceBusy and fuses.                        *)
IterNextDeferred(s) ==
    /\ pc[s] = "deferred"
    /\ Observe(s, Fail("DeviceBusy"))
    /\ Goto(s, "fused")
    /\ UNCHANGED <<busy, device, kind, guard, buf, chan, zeros, rx, cancel>>

(* next() on a fused iterator returns None.                                *)
IterNextFused(s) ==
    /\ pc[s] = "fused" /\ ~ended[s]
    /\ Observe(s, Nothing)
    /\ UNCHANGED <<busy, device, kind, pc, guard, buf, chan, zeros, rx, cancel>>

(* The runtime's blocking pool runs the worker closure ...                 *)
WorkerStart(s) ==
    /\ pc[s] = "queued"
    /\ Goto(s, "ready")
    /\ UNCHANGED <<busy, device, kind, guard, buf, chan, zeros, consumer>>

(* ... or a tokio runtime that shuts down drops it unrun, with its guard   *)
(* and sender.                                                             *)
WorkerDiscard(s) ==
    /\ pc[s] = "queued" /\ kind[s] = "tokio"
    /\ Goto(s, "ending")
    /\ UNCHANGED <<busy, device, kind, guard, buf, chan, zeros, consumer>>

(* Head of the worker's loop: tx.is_closed() before the read.              *)
StreamHead(s) ==
    /\ pc[s] = "ready" /\ kind[s] \in Streams
    /\ Goto(s, IF rx[s] THEN "reading" ELSE "ending")
    /\ UNCHANGED <<busy, device, kind, guard, buf, chan, zeros, consumer>>

(* Mutant: the loop never looks at the cancel flag.                        *)
AsyncHeadUncancellable(s) ==
    /\ pc[s] = "ready" /\ kind[s] = "async"
    /\ Goto(s, "reading")
    /\ UNCHANGED <<busy, device, kind, guard, buf, chan, zeros, consumer>>

(* Head of read_async_blocking's loop.                                     *)
AsyncHead(s) ==
    /\ pc[s] = "ready" /\ kind[s] = "async"
    /\ Goto(s, IF cancel[s] THEN "returning" ELSE "reading")
    /\ UNCHANGED <<busy, device, kind, guard, buf, chan, zeros, consumer>>

---------------------------------------------------------------------------
(* A transfer completes                                                    *)

(* Where the code that called the read goes with a result to hand over.    *)
Landing(k) ==
    CASE k \in Streams       -> "sending"
      [] k = "iter_samples"  -> "yielding"
      [] OTHER               -> "returning"

(* Ok(n), n > 0.                                                           *)
ReadChunk(s) ==
    /\ pc[s] = "reading" /\ present /\ completed < MaxChunks
    /\ completed' = completed + 1
    /\ SetBuf(s, Chunk(completed + 1))
    /\ zeros' = [zeros EXCEPT ![s] = 0]
    /\ Goto(s, IF kind[s] = "async" THEN "callback" ELSE Landing(kind[s]))
    /\ UNCHANGED <<busy, devLost, present, kind, guard, chan, consumer>>

(* Mutant: read_async_blocking tolerates one zero-length read too many.    *)
ReadZeroOffByOne(s) ==
    /\ pc[s] = "reading" /\ present
    /\ zeros' = [zeros EXCEPT ![s] = IF kind[s] = "async" THEN @ + 1 ELSE @]
    /\ Goto(s, CASE kind[s] \in Streams -> "ending"
                 [] kind[s] = "async" /\ zeros'[s] <= ZeroLimit -> "ready"
                 [] OTHER -> Landing(kind[s]))
    /\ UNCHANGED <<busy, device, kind, guard, buf, chan, consumer>>

(* Ok(0): a stream worker just returns, the callback loop counts.          *)
ReadZero(s) ==
    /\ pc[s] = "reading" /\ present
    /\ zeros' = [zeros EXCEPT ![s] = IF kind[s] = "async" THEN @ + 1 ELSE @]
    /\ Goto(s, CASE kind[s] \in Streams -> "ending"
                 [] kind[s] = "async" /\ zeros'[s] < ZeroLimit -> "ready"
                 [] OTHER -> Landing(kind[s]))
    /\ UNCHANGED <<busy, device, kind, guard, buf, chan, consumer>>

(* Mutant: a stall or I/O error is reported as a lost device without the   *)
(* flag being set (only NoDevice, of a dongle that is gone, sets it).      *)
ReadFailedUnrecorded(s, e) ==
    /\ pc[s] = "reading"
    /\ present \/ e = "DeviceLost"
    /\ devLost' = (devLost \/ ~present)
    /\ IF kind[s] = "async" /\ e = "Timeout"
       THEN Goto(s, "ready") /\ UNCHANGED buf
       ELSE Goto(s, Landing(kind[s])) /\ SetBuf(s, Fail(e))
    /\ UNCHANGED <<busy, present, completed, kind, guard, chan, zeros, consumer>>

(* Mutant: a worker goes on reading after a failed transfer.               *)
ReadFailedRetried(s, e) ==
    /\ pc[s] = "reading"
    /\ present \/ e = "DeviceLost"
    /\ devLost' = (devLost \/ e = "DeviceLost")
    /\ IF kind[s] = "iter_samples"
       THEN Goto(s, Landing(kind[s])) /\ SetBuf(s, Fail(e))
       ELSE Goto(s, "ready") /\ UNCHANGED buf
    /\ UNCHANGED <<busy, present, completed, kind, guard, chan, zeros, consumer>>

(* The transfer fails. NoDevice, Pipe and Io all become DeviceLost and set *)
(* dev_lost; the last two also happen to a dongle that is still there. A   *)
(* dongle that is gone fails every transfer with NoDevice. Only            *)
(* read_async_blocking ignores a timeout.                                  *)
ReadFailed(s, e) ==
    /\ pc[s] = "reading"
    /\ present \/ e = "DeviceLost"
    /\ devLost' = (devLost \/ e = "DeviceLost")
    /\ IF kind[s] = "async" /\ e = "Timeout"
       THEN Goto(s, "ready") /\ UNCHANGED buf
       ELSE Goto(s, Landing(kind[s])) /\ SetBuf(s, Fail(e))
    /\ UNCHANGED <<busy, present, completed, kind, guard, chan, zeros, consumer>>

---------------------------------------------------------------------------
(* Handing the result over                                                 *)

(* read_sync and read_async_blocking return: the local guard is dropped    *)
(* before the caller has the result.                                       *)
Return(s) ==
    /\ pc[s] = "returning"
    /\ ReleaseGuard(s)
    /\ Observe(s, buf[s])
    /\ SetBuf(s, Nothing)
    /\ Goto(s, "done")
    /\ UNCHANGED <<device, kind, chan, zeros, rx, cancel>>

(* next() returns: the iterator keeps its guard, and fuses unless it       *)
(* yielded a chunk.                                                        *)
Yield(s) ==
    /\ pc[s] = "yielding"
    /\ Observe(s, buf[s])
    /\ SetBuf(s, Nothing)
    /\ Goto(s, IF buf[s].chunk > 0 THEN "held" ELSE "fused")
    /\ UNCHANGED <<busy, device, kind, guard, chan, zeros, rx, cancel>>

(* The user's callback runs on the chunk and returns.                      *)
Callback(s) ==
    /\ pc[s] = "callback"
    /\ Observe(s, buf[s])
    /\ SetBuf(s, Nothing)
    /\ Goto(s, "ready")
    /\ UNCHANGED <<busy, device, kind, guard, chan, zeros, rx, cancel>>

AfterSend(item) == IF item.err = "none" THEN "ready" ELSE "ending"

(* Mutant: try_send, which loses the chunk when the channel is full.       *)
SendLossy(s) ==
    /\ pc[s] = "sending"
    /\ chan' = [chan EXCEPT ![s] = IF Len(@) < Depth THEN Append(@, buf[s]) ELSE @]
    /\ Goto(s, AfterSend(buf[s]))
    /\ SetBuf(s, Nothing)
    /\ UNCHANGED <<busy, device, kind, guard, zeros, consumer>>

(* Mutant: the worker goes on reading after it sent an error.              *)
SendAndContinue(s) ==
    /\ pc[s] = "sending"
    /\ rx[s] /\ Len(chan[s]) < Depth
    /\ chan' = [chan EXCEPT ![s] = Append(@, buf[s])]
    /\ Goto(s, "ready")
    /\ SetBuf(s, Nothing)
    /\ UNCHANGED <<busy, device, kind, guard, zeros, consumer>>

(* blocking_send / send_blocking waits for a slot; an error ends the loop. *)
Send(s) ==
    /\ pc[s] = "sending"
    /\ rx[s] /\ Len(chan[s]) < Depth
    /\ chan' = [chan EXCEPT ![s] = Append(@, buf[s])]
    /\ Goto(s, AfterSend(buf[s]))
    /\ SetBuf(s, Nothing)
    /\ UNCHANGED <<busy, device, kind, guard, zeros, consumer>>

(* Mutant: a sender blocked on a full channel is not woken by the close.   *)
SendClosedUnnoticed(s) ==
    /\ pc[s] = "sending" /\ ~rx[s] /\ buf[s].err # "none"
    /\ Goto(s, "ending")
    /\ SetBuf(s, Nothing)
    /\ UNCHANGED <<busy, device, kind, guard, chan, zeros, consumer>>

(* The send fails because the receiver is gone.                            *)
SendClosed(s) ==
    /\ pc[s] = "sending" /\ ~rx[s]
    /\ Goto(s, "ending")
    /\ SetBuf(s, Nothing)
    /\ UNCHANGED <<busy, device, kind, guard, chan, zeros, consumer>>

---------------------------------------------------------------------------
(* The worker closure is over: its locals (reader, then _guard) are        *)
(* dropped before the sender it captured.                                  *)

DropWorkerGuard(s) ==
    /\ pc[s] = "ending"
    /\ ReleaseGuard(s)
    /\ Goto(s, "closing")
    /\ UNCHANGED <<device, kind, buf, chan, zeros, consumer>>

(* Mutant: the sender goes first, while the guard is still held.           *)
SenderDroppedFirst(s) == pc[s] \in {"ending", "closing", "done"}

(* The channel is closed once the closure's captured tx has been dropped.  *)
SenderDropped(s) == pc[s] = "done"

DropSender(s) ==
    /\ pc[s] = "closing"
    /\ Goto(s, "done")
    /\ UNCHANGED <<busy, device, kind, guard, buf, chan, zeros, consumer>>

---------------------------------------------------------------------------
(* Consumers and the dongle                                                *)

(* poll_next takes the oldest item ...                                     *)
Recv(s) ==
    /\ rx[s] /\ chan[s] # <<>>
    /\ got' = [got EXCEPT ![s] = Append(@, Head(chan[s]))]
    /\ chan' = [chan EXCEPT ![s] = Tail(@)]
    /\ UNCHANGED <<busy, device, kind, pc, guard, buf, zeros, rx, cancel, ended>>

(* ... and None once the channel is empty and the sender is gone.          *)
RecvEnd(s) ==
    /\ rx[s] /\ chan[s] = <<>> /\ SenderDropped(s) /\ ~ended[s]
    /\ Observe(s, Nothing)
    /\ UNCHANGED <<busy, device, kind, pc, guard, buf, chan, zeros, rx, cancel>>

DropStream(s) ==
    /\ rx[s]
    /\ rx' = [rx EXCEPT ![s] = FALSE]
    /\ chan' = [chan EXCEPT ![s] = <<>>]
    /\ UNCHANGED <<busy, device, kind, pc, guard, buf, zeros, cancel, got, ended>>

(* Dropping a SampleIter or ReaderIter between two calls of next.          *)
DropIter(s) ==
    /\ pc[s] \in {"held", "deferred", "fused"}
    /\ ReleaseGuard(s)
    /\ Goto(s, "done")
    /\ UNCHANGED <<device, kind, buf, chan, zeros, consumer>>

SetCancel(s) ==
    /\ kind[s] = "async" /\ pc[s] # "done" /\ ~cancel[s]
    /\ cancel' = [cancel EXCEPT ![s] = TRUE]
    /\ UNCHANGED <<busy, device, kind, pc, guard, buf, chan, zeros, rx, got, ended>>

Unplug ==
    /\ present
    /\ present' = FALSE
    /\ UNCHANGED <<busy, devLost, completed, kind, pc, guard, buf, chan, zeros, consumer>>

(* Every session is over: the program may stay there for ever.             *)
AllDone == (\A s \in Sessions : pc[s] = "done") /\ UNCHANGED vars

---------------------------------------------------------------------------
Start(s) == StartOk(s) \/ StartBusy(s) \/ StartNoRuntime(s) \/ StartBadLength(s)

(* Steps of the thread that runs the session's loop.                       *)
Thread(s) ==
    \/ SyncRead(s) \/ WorkerStart(s) \/ StreamHead(s) \/ AsyncHead(s)
    \/ ReadChunk(s) \/ ReadZero(s) \/ (\E e \in ReadErrors : ReadFailed(s, e))
    \/ Return(s) \/ Yield(s) \/ Callback(s) \/ Send(s) \/ SendClosed(s)
    \/ DropWorkerGuard(s) \/ DropSender(s)

(* Steps of the program that uses the session.                             *)
Consume(s) ==
    \/ IterNext(s) \/ IterNextDeferred(s) \/ IterNextFused(s) \/ DropIter(s)
    \/ Recv(s) \/ RecvEnd(s) \/ DropStream(s) \/ SetCancel(s)

Next ==
    \/ \E s \in Sessions : Start(s) \/ Thread(s) \/ Consume(s) \/ WorkerDiscard(s)
    \/ Unplug \/ AllDone

Spec == Init /\ [][Next]_vars

(* A thread that can take a step takes one: the scheduler runs it, a       *)
(* transfer ends within its timeout, a callback returns.                   *)
FairSpec == Spec /\ \A s \in Sessions : WF_vars(Thread(s))

---------------------------------------------------------------------------
(* Properties                                                              *)

(* The type invariant. A channel never holds more than Depth items and the *)
(* callback loop never counts past its limit.                              *)
TypeOK ==
    /\ busy \in BOOLEAN /\ devLost \in BOOLEAN /\ present \in BOOLEAN
    /\ completed \in 0..MaxChunks
    /\ kind \in [Sessions -> Kinds]
    /\ pc \in [Sessions -> PCs]
    /\ guard \in [Sessions -> BOOLEAN]
    /\ buf \in [Sessions -> Item]
    /\ chan \in [Sessions -> Seq(Item)]
    /\ \A s \in Sessions : Len(chan[s]) <= Depth
    /\ rx \in [Sessions -> BOOLEAN]
    /\ cancel \in [Sessions -> BOOLEAN]
    /\ zeros \in [Sessions -> 0..ZeroLimit]
    /\ got \in [Sessions -> Seq(Item)]
    /\ ended \in [Sessions -> BOOLEAN]

(* No two sessions ever have a transfer pending on the endpoint, however   *)
(* their entry points, workers and drops interleave: ReaderBusyGuard's     *)
(* claim that "at most one bulk-read activity" is in flight.               *)
OneTransfer ==
    \A s, t \in Sessions : pc[s] = "reading" /\ pc[t] = "reading" => s = t

(* The items of s that its consumer has, or may still get, oldest first.   *)
Pipeline(s) ==
    got[s] \o (IF kind[s] \in Streams /\ ~rx[s] THEN <<>>
               ELSE chan[s] \o (IF buf[s] = Nothing THEN <<>> ELSE <<buf[s]>>))

(* A session hands over consecutive transfers: no chunk is stolen by       *)
(* another session, lost to a full channel, repeated or overtaken.         *)
SamplesContiguous ==
    \A s \in Sessions : \A i \in 1..(Len(Pipeline(s)) - 1) :
        LET a == Pipeline(s)[i]
            b == Pipeline(s)[i + 1]
        IN  a.err = "none" /\ b.err = "none" => b.chunk = a.chunk + 1

(* An error is the last item of its session ("yields the error then        *)
(* None"): nothing is read, queued or delivered after it.                  *)
ErrorIsLast ==
    \A s \in Sessions : \A i \in 1..Len(Pipeline(s)) :
        Pipeline(s)[i].err # "none" =>
            i = Len(Pipeline(s)) /\ pc[s] \notin {"ready", "reading", "held"}

(* A consumer that has seen the end of its stream can open the next one:   *)
(* the worker gave up the guard before it closed the channel.              *)
EndMeansReleased ==
    \A s \in Sessions : kind[s] \in Streams /\ ended[s] => ~guard[s]

(* When every session is over the flag is clear: no path through an error, *)
(* a refusal, a discarded worker or a drop leaves the device busy for good.*)
IdleMeansFree ==
    (\A s \in Sessions : pc[s] \in {"new", "done"}) => ~busy

(* Whoever has been told DeviceLost can rely on Drop skipping its cleanup: *)
(* the flag was set before the error became visible to anyone.             *)
DeviceLostRecorded ==
    \A s \in Sessions : \A i \in 1..Len(Pipeline(s)) :
        Pipeline(s)[i].err = "DeviceLost" => devLost

SR == INSTANCE SingleReader WITH
          owner <- {s \in Sessions : guard[s]},
          inFlight <- {s \in Sessions : pc[s] = "reading"}

(* The busy flag with its guards implements an exclusive owner of the      *)
(* endpoint that acquires, transfers and releases one step at a time.      *)
ImplementsSingleReader == SR!SRSpec

(* A dropped stream gives the device back: its worker notices, whether it  *)
(* was queued, reading or blocked on a full channel.                       *)
DroppedStreamFrees ==
    \A s \in Sessions :
        (kind[s] \in Streams /\ ~rx[s] /\ guard[s]) ~> ~guard[s]

(* A cancelled read_async_blocking returns, even from a dongle that        *)
(* answers every transfer with data, with nothing or with a timeout.       *)
CancelReturns ==
    \A s \in Sessions : (cancel[s] /\ pc[s] # "new") ~> (pc[s] = "done")

(* After the dongle is unplugged every stream that its consumer goes on    *)
(* polling comes to its end.                                               *)
UnplugEndsStreams ==
    \A s \in Sessions :
        WF_vars(Recv(s) \/ RecvEnd(s)) => ((~present /\ rx[s]) ~> (ended[s] \/ ~rx[s]))
===========================================================================
