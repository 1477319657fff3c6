------------------------- MODULE BulkStream_proofs -------------------------
(***************************************************************************)
(* Proofs about BulkStream for any set of sessions, any channel depth, any *)
(* limit of zero-length reads and any number of chunks.                    *)
(***************************************************************************)
EXTENDS BulkStream, SequenceTheorems, TLAPS

(* The type invariant is inductive on its own: the only steps with         *)
(* something to show are those that move an item.                          *)
LEMMA ItemTypes ==
    /\ Nothing \in Item
    /\ \A e \in Errors : Fail(e) \in Item
    /\ \A n \in Nat : Chunk(n) \in Item
BY DEF Nothing, Item, Fail, Chunk, Errors, ReadErrors

LEMMA LandingType == \A k : Landing(k) \in PCs
BY DEF Landing, PCs

(* The count of zero-length reads stays in its type only because the loop  *)
(* returns as soon as it reaches the limit: the strengthening that makes   *)
(* the type invariant inductive.                                           *)
ZeroCount ==
    \A s \in Sessions : zeros[s] = ZeroLimit => pc[s] \in {"returning", "done"}

TypeInv == TypeOK /\ ZeroCount

(* Handing over an item keeps the histories well typed.                    *)
LEMMA ObserveType ==
    ASSUME NEW s \in Sessions, NEW item \in Item,
           got \in [Sessions -> Seq(Item)], ended \in [Sessions -> BOOLEAN],
           Observe(s, item)
    PROVE  got' \in [Sessions -> Seq(Item)] /\ ended' \in [Sessions -> BOOLEAN]
<1>1. CASE item = Nothing
  <2>1. ended' = [ended EXCEPT ![s] = TRUE] /\ got' = got
        BY <1>1 DEF Observe
  <2> QED BY <2>1
<1>2. CASE item # Nothing
  <2>1. got' = [got EXCEPT ![s] = Append(@, item)] /\ ended' = ended
        BY <1>2 DEF Observe
  <2>2. Append(got[s], item) \in Seq(Item)
        OBVIOUS
  <2> QED BY <2>1, <2>2
<1> QED BY <1>1, <1>2

(* A bounded channel stays well typed when an item is put into a free slot *)
(* and when its oldest item is taken.                                      *)
ChanOK == chan \in [Sessions -> Seq(Item)] /\ \A s \in Sessions : Len(chan[s]) <= Depth

LEMMA ChanPut ==
    ASSUME NEW s \in Sessions, NEW item \in Item, ChanOK, Len(chan[s]) < Depth,
           chan' = [chan EXCEPT ![s] = Append(@, item)]
    PROVE  ChanOK'
<1>1. /\ Append(chan[s], item) \in Seq(Item)
      /\ Len(Append(chan[s], item)) = Len(chan[s]) + 1
      BY DEF ChanOK
<1>2. Len(chan[s]) \in Nat
      BY DEF ChanOK
<1> QED BY <1>1, <1>2, BulkStreamAssumption DEF ChanOK

LEMMA ChanTake ==
    ASSUME NEW s \in Sessions, ChanOK, chan[s] # <<>>,
           chan' = [chan EXCEPT ![s] = Tail(@)]
    PROVE  ChanOK' /\ Head(chan[s]) \in Item
<1>1. /\ Tail(chan[s]) \in Seq(Item)
      /\ Len(Tail(chan[s])) = Len(chan[s]) - 1
      /\ Head(chan[s]) \in Item
      BY DEF ChanOK
<1>2. Len(chan[s]) \in Nat
      BY DEF ChanOK
<1> QED BY <1>1, <1>2, BulkStreamAssumption DEF ChanOK

LEMMA ChanClear ==
    ASSUME NEW s \in Sessions, ChanOK, chan' = [chan EXCEPT ![s] = <<>>]
    PROVE  ChanOK'
<1>1. <<>> \in Seq(Item) /\ Len(<<>>) = 0
      OBVIOUS
<1> QED BY <1>1, BulkStreamAssumption DEF ChanOK

LEMMA TypeInit == Init => TypeOK
<1> SUFFICES ASSUME Init
             PROVE  TypeOK
    OBVIOUS
<1>1. ChanOK
  <2>1. chan \in [Sessions -> Seq(Item)] /\ \A s \in Sessions : chan[s] = <<>>
        BY DEF Init
  <2>2. Len(<<>>) = 0
        OBVIOUS
  <2> QED BY <2>1, <2>2, BulkStreamAssumption DEF ChanOK
<1>2. completed \in 0..MaxChunks /\ zeros \in [Sessions -> 0..ZeroLimit]
      BY BulkStreamAssumption DEF Init
<1>3. /\ busy \in BOOLEAN /\ devLost \in BOOLEAN /\ present \in BOOLEAN
      /\ kind \in [Sessions -> Kinds] /\ pc \in [Sessions -> PCs]
      /\ guard \in [Sessions -> BOOLEAN] /\ rx \in [Sessions -> BOOLEAN]
      /\ cancel \in [Sessions -> BOOLEAN] /\ ended \in [Sessions -> BOOLEAN]
      BY DEF Init, PCs
<1>4. buf \in [Sessions -> Item] /\ got \in [Sessions -> Seq(Item)]
      BY ItemTypes DEF Init
<1> QED BY <1>1, <1>2, <1>3, <1>4 DEF TypeOK, ChanOK

LEMMA TypeStep == TypeInv /\ [Next]_vars => TypeOK'
<1> SUFFICES ASSUME TypeOK, ZeroCount, [Next]_vars
             PROVE  TypeOK'
    BY DEF TypeInv
<1> USE BulkStreamAssumption, ItemTypes, ObserveType
    DEF TypeOK, device, consumer, Goto, SetBuf, PCs
<1>1. ASSUME NEW s \in Sessions, Start(s)
      PROVE  TypeOK'
  <2>1. CASE StartOk(s)
        BY <2>1 DEF StartOk, TryAcquire, FirstStop
  <2>2. CASE StartBusy(s)
        BY <2>2 DEF StartBusy, Errors
  <2>3. CASE StartNoRuntime(s)
        BY <2>3 DEF StartNoRuntime, Errors
  <2>4. CASE StartBadLength(s)
        BY <2>4 DEF StartBadLength, TryAcquire, Errors
  <2> QED BY <1>1, <2>1, <2>2, <2>3, <2>4 DEF Start
<1>2. ASSUME NEW s \in Sessions, Thread(s)
      PROVE  TypeOK'
  <2>1. CASE SyncRead(s)
        BY <2>1 DEF SyncRead
  <2>2. CASE WorkerStart(s)
        BY <2>2 DEF WorkerStart
  <2>3. CASE StreamHead(s)
        BY <2>3 DEF StreamHead
  <2>4. CASE AsyncHead(s)
        BY <2>4 DEF AsyncHead
  <2>5. CASE ReadChunk(s)
    <3>1. pc' \in [Sessions -> PCs]
          BY <2>5 DEF ReadChunk, Landing
    <3>2. completed' \in 0..MaxChunks /\ Chunk(completed + 1) \in Item
          BY <2>5 DEF ReadChunk
    <3>3. zeros' \in [Sessions -> 0..ZeroLimit]
          BY <2>5 DEF ReadChunk
    <3> QED BY <2>5, <3>1, <3>2, <3>3 DEF ReadChunk
  <2>6. CASE ReadZero(s)
    <3>1. pc' \in [Sessions -> PCs]
      <4>1. Landing(kind[s]) \in PCs
            BY LandingType
      <4> QED BY <2>6, <4>1 DEF ReadZero
    <3>2. zeros[s] + 1 \in 0..ZeroLimit
      <4>1. zeros[s] # ZeroLimit
            BY <2>6 DEF ReadZero, ZeroCount
      <4>2. zeros[s] \in 0..ZeroLimit /\ ZeroLimit \in Nat
            OBVIOUS
      <4> QED BY <4>1, <4>2
    <3>3. zeros' \in [Sessions -> 0..ZeroLimit]
          BY <2>6, <3>2 DEF ReadZero
    <3> QED BY <2>6, <3>1, <3>3 DEF ReadZero
  <2>7. ASSUME NEW e \in ReadErrors, ReadFailed(s, e)
        PROVE  TypeOK'
    <3>1. pc' \in [Sessions -> PCs]
      <4>1. Landing(kind[s]) \in PCs
            BY LandingType
      <4>2. \/ pc' = [pc EXCEPT ![s] = "ready"]
            \/ pc' = [pc EXCEPT ![s] = Landing(kind[s])]
            BY <2>7 DEF ReadFailed
      <4> QED BY <4>1, <4>2
    <3>2. Fail(e) \in Item
          BY DEF Errors
    <3>3. buf' \in [Sessions -> Item]
          BY <2>7, <3>2 DEF ReadFailed
    <3>4. devLost' \in BOOLEAN
          BY <2>7 DEF ReadFailed
    <3> QED BY <2>7, <3>1, <3>3, <3>4 DEF ReadFailed
  <2>8. CASE Return(s)
        BY <2>8 DEF Return, ReleaseGuard
  <2>9. CASE Yield(s)
        BY <2>9 DEF Yield
  <2>10. CASE Callback(s)
        BY <2>10 DEF Callback
  <2>11. CASE Send(s)
    <3>1. ChanOK'
          BY <2>11, ChanPut DEF Send, ChanOK
    <3> QED BY <2>11, <3>1 DEF Send, AfterSend, ChanOK
  <2>12. CASE SendClosed(s)
        BY <2>12 DEF SendClosed
  <2>13. CASE DropWorkerGuard(s)
        BY <2>13 DEF DropWorkerGuard, ReleaseGuard
  <2>14. CASE DropSender(s)
        BY <2>14 DEF DropSender
  <2> QED BY <1>2, <2>1, <2>2, <2>3, <2>4, <2>5, <2>6, <2>7, <2>8, <2>9,
             <2>10, <2>11, <2>12, <2>13, <2>14 DEF Thread
<1>3. ASSUME NEW s \in Sessions, Consume(s)
      PROVE  TypeOK'
  <2>1. CASE IterNext(s)
        BY <2>1 DEF IterNext
  <2>2. CASE IterNextDeferred(s)
        BY <2>2 DEF IterNextDeferred, Errors
  <2>3. CASE IterNextFused(s)
        BY <2>3 DEF IterNextFused
  <2>4. CASE DropIter(s)
        BY <2>4 DEF DropIter, ReleaseGuard
  <2>5. CASE Recv(s)
    <3>1. ChanOK' /\ Head(chan[s]) \in Item
          BY <2>5, ChanTake DEF Recv, ChanOK
    <3>2. Append(got[s], Head(chan[s])) \in Seq(Item)
          BY <3>1
    <3>3. got' \in [Sessions -> Seq(Item)]
          BY <2>5, <3>2 DEF Recv
    <3> QED BY <2>5, <3>1, <3>3 DEF Recv, ChanOK
  <2>6. CASE RecvEnd(s)
        BY <2>6 DEF RecvEnd
  <2>7. CASE DropStream(s)
    <3>1. ChanOK'
          BY <2>7, ChanClear DEF DropStream, ChanOK
    <3> QED BY <2>7, <3>1 DEF DropStream, ChanOK
  <2>8. CASE SetCancel(s)
        BY <2>8 DEF SetCancel
  <2> QED BY <1>3, <2>1, <2>2, <2>3, <2>4, <2>5, <2>6, <2>7, <2>8 DEF Consume
<1>4. ASSUME NEW s \in Sessions, WorkerDiscard(s)
      PROVE  TypeOK'
      BY <1>4 DEF WorkerDiscard
<1>5. CASE Unplug
      BY <1>5 DEF Unplug
<1>6. CASE AllDone \/ UNCHANGED vars
      BY <1>6 DEF AllDone, vars
<1> QED BY <1>1, <1>2, <1>3, <1>4, <1>5, <1>6 DEF Next

LEMMA ZeroCountStep == TypeInv /\ [Next]_vars => ZeroCount'
<1> SUFFICES ASSUME TypeOK, ZeroCount, [Next]_vars, NEW t \in Sessions,
                    zeros'[t] = ZeroLimit
             PROVE  pc'[t] \in {"returning", "done"}
    BY DEF TypeInv, ZeroCount
<1>1. CASE zeros' = zeros
  <2>1. pc[t] \in {"returning", "done"}
        BY <1>1 DEF ZeroCount
  <2> QED BY <2>1 DEF Next, Start, Thread, Consume, Goto, device, consumer, vars,
             TypeOK, StartOk, StartBusy, StartNoRuntime, StartBadLength, SyncRead,
             WorkerStart, StreamHead, AsyncHead, ReadChunk, ReadZero, ReadFailed,
             Return, Yield, Callback, Send, SendClosed, DropWorkerGuard, DropSender,
             IterNext, IterNextDeferred, IterNextFused, DropIter, Recv, RecvEnd,
             DropStream, SetCancel, WorkerDiscard, Unplug, AllDone
<1>2. CASE zeros' # zeros
  <2>1. PICK s \in Sessions : ReadChunk(s) \/ ReadZero(s)
        BY <1>2 DEF Next, Start, Thread, Consume, device, consumer, vars,
             StartOk, StartBusy, StartNoRuntime, StartBadLength, SyncRead,
             WorkerStart, StreamHead, AsyncHead, ReadFailed,
             Return, Yield, Callback, Send, SendClosed, DropWorkerGuard, DropSender,
             IterNext, IterNextDeferred, IterNextFused, DropIter, Recv, RecvEnd,
             DropStream, SetCancel, WorkerDiscard, Unplug, AllDone
  <2>2. CASE s # t
        BY <2>1, <2>2 DEF ReadChunk, ReadZero, Goto, TypeOK, ZeroCount
  <2>3. CASE s = t /\ ReadChunk(s)
        BY <2>3, BulkStreamAssumption DEF ReadChunk, TypeOK
  <2>4. CASE s = t /\ ReadZero(s)
    <3>1. kind[s] = "async" /\ zeros'[s] = ZeroLimit
          BY <2>4 DEF ReadZero, TypeOK, ZeroCount
    <3>2. pc' = [pc EXCEPT ![s] = Landing(kind[s])]
      <4>1. kind[s] \notin Streams /\ ~(zeros'[s] < ZeroLimit)
            BY <3>1, BulkStreamAssumption DEF Streams
      <4> QED BY <2>4, <4>1 DEF ReadZero, Goto
    <3> QED BY <2>4, <3>1, <3>2 DEF Landing, TypeOK, Streams
  <2> QED BY <2>1, <2>2, <2>3, <2>4
<1> QED BY <1>1, <1>2

LEMMA TypeInvariant == Spec => []TypeInv
<1>1. Init => TypeInv
  <2>1. Init => ZeroCount
        BY BulkStreamAssumption DEF Init, ZeroCount
  <2> QED BY <2>1, TypeInit DEF TypeInv
<1>2. TypeInv /\ [Next]_vars => TypeInv'
      BY TypeStep, ZeroCountStep DEF TypeInv
<1> QED BY <1>1, <1>2, PTL DEF Spec

(* Every reachable state is well typed; in particular no channel ever      *)
(* holds more than Depth items.                                            *)
THEOREM TypeCorrect == Spec => []TypeOK
<1>1. TypeInv => TypeOK
      BY DEF TypeInv
<1> QED BY <1>1, TypeInvariant, PTL

---------------------------------------------------------------------------
(* Exclusion: which stops of a thread own a guard, at most one session has *)
(* one, and the flag says whether anyone does.                             *)

Holding == {"ready", "reading", "returning", "held", "yielding", "queued",
            "sending", "ending", "callback"}
Free == {"new", "deferred", "closing", "done"}

GuardAtPC ==
    \A s \in Sessions : /\ pc[s] \in Holding => guard[s]
                        /\ pc[s] \in Free => ~guard[s]

Exclusive ==
    /\ \A s, t \in Sessions : guard[s] /\ guard[t] => s = t
    /\ busy <=> \E s \in Sessions : guard[s]

(* What a session's entry point says about where its thread can be.        *)
KindAtPC ==
    \A s \in Sessions :
        /\ pc[s] \in {"queued", "sending", "ending", "closing"} => kind[s] \in Streams
        /\ pc[s] \in {"held", "yielding", "fused", "deferred"} => kind[s] = "iter_samples"
        /\ pc[s] = "returning" => kind[s] \in {"read_sync", "async"}
        /\ pc[s] = "callback" => kind[s] = "async"
        /\ rx[s] => kind[s] \in Streams
        /\ kind[s] \in Streams /\ ended[s] => pc[s] = "done"

IInv == TypeInv /\ GuardAtPC /\ Exclusive /\ KindAtPC

LEMMA AcquireKeepsExclusive ==
    ASSUME NEW s \in Sessions, TypeOK, Exclusive, TryAcquire(s)
    PROVE  Exclusive'
BY DEF TypeOK, Exclusive, TryAcquire

LEMMA ReleaseKeepsExclusive ==
    ASSUME NEW s \in Sessions, TypeOK, Exclusive, ReleaseGuard(s)
    PROVE  Exclusive'
BY DEF TypeOK, Exclusive, ReleaseGuard

LEMMA ExclusiveStep == IInv /\ [Next]_vars => Exclusive'
<1> SUFFICES ASSUME TypeOK, Exclusive, [Next]_vars
             PROVE  Exclusive'
    BY DEF IInv, TypeInv
<1>1. CASE UNCHANGED <<busy, guard>>
      BY <1>1 DEF Exclusive
<1>2. CASE \E s \in Sessions : TryAcquire(s)
      BY <1>2, AcquireKeepsExclusive
<1>3. CASE \E s \in Sessions : ReleaseGuard(s)
      BY <1>3, ReleaseKeepsExclusive
<1> QED BY <1>1, <1>2, <1>3
        DEF Next, Start, Thread, Consume, device, consumer, vars,
            StartOk, StartBusy, StartNoRuntime, StartBadLength, SyncRead,
            WorkerStart, StreamHead, AsyncHead, ReadChunk, ReadZero, ReadFailed,
            Return, Yield, Callback, Send, SendClosed, DropWorkerGuard, DropSender,
            IterNext, IterNextDeferred, IterNextFused, DropIter, Recv, RecvEnd,
            DropStream, SetCancel, WorkerDiscard, Unplug, AllDone

LEMMA GuardAtPCStep == IInv /\ [Next]_vars => GuardAtPC'
<1> SUFFICES ASSUME TypeOK, GuardAtPC, KindAtPC, [Next]_vars
             PROVE  GuardAtPC'
    BY DEF IInv, TypeInv
<1> USE DEF TypeOK, GuardAtPC, KindAtPC, Holding, Free, Streams, Goto, device, consumer
<1>1. ASSUME NEW s \in Sessions, Start(s)
      PROVE  GuardAtPC'
  <2>1. CASE StartOk(s)
        BY <2>1 DEF StartOk, TryAcquire, FirstStop
  <2>2. CASE StartBusy(s)
        BY <2>2 DEF StartBusy
  <2>3. CASE StartNoRuntime(s)
        BY <2>3 DEF StartNoRuntime
  <2>4. CASE StartBadLength(s)
        BY <2>4 DEF StartBadLength, TryAcquire
  <2> QED BY <1>1, <2>1, <2>2, <2>3, <2>4 DEF Start
<1>2. ASSUME NEW s \in Sessions, Thread(s)
      PROVE  GuardAtPC'
  <2>1. CASE SyncRead(s)
        BY <2>1 DEF SyncRead
  <2>2. CASE WorkerStart(s)
        BY <2>2 DEF WorkerStart
  <2>3. CASE StreamHead(s)
        BY <2>3 DEF StreamHead
  <2>4. CASE AsyncHead(s)
        BY <2>4 DEF AsyncHead
  <2>5. CASE ReadChunk(s)
        BY <2>5 DEF ReadChunk, Landing
  <2>6. CASE ReadZero(s)
        BY <2>6 DEF ReadZero, Landing
  <2>7. ASSUME NEW e \in ReadErrors, ReadFailed(s, e)
        PROVE  GuardAtPC'
        BY <2>7 DEF ReadFailed, Landing
  <2>8. CASE Return(s)
        BY <2>8 DEF Return, ReleaseGuard
  <2>9. CASE Yield(s)
        BY <2>9 DEF Yield
  <2>10. CASE Callback(s)
        BY <2>10 DEF Callback
  <2>11. CASE Send(s)
        BY <2>11 DEF Send, AfterSend
  <2>12. CASE SendClosed(s)
        BY <2>12 DEF SendClosed
  <2>13. CASE DropWorkerGuard(s)
        BY <2>13 DEF DropWorkerGuard, ReleaseGuard
  <2>14. CASE DropSender(s)
        BY <2>14 DEF DropSender
  <2> QED BY <1>2, <2>1, <2>2, <2>3, <2>4, <2>5, <2>6, <2>7, <2>8, <2>9, <2>10, <2>11, <2>12, <2>13, <2>14 DEF Thread
<1>3. ASSUME NEW s \in Sessions, Consume(s)
      PROVE  GuardAtPC'
  <2>1. CASE IterNext(s)
        BY <2>1 DEF IterNext
  <2>2. CASE IterNextDeferred(s)
        BY <2>2 DEF IterNextDeferred
  <2>3. CASE IterNextFused(s)
        BY <2>3 DEF IterNextFused
  <2>4. CASE DropIter(s)
        BY <2>4 DEF DropIter, ReleaseGuard
  <2>5. CASE Recv(s)
        BY <2>5 DEF Recv
  <2>6. CASE RecvEnd(s)
        BY <2>6 DEF RecvEnd
  <2>7. CASE DropStream(s)
        BY <2>7 DEF DropStream
  <2>8. CASE SetCancel(s)
        BY <2>8 DEF SetCancel
  <2> QED BY <1>3, <2>1, <2>2, <2>3, <2>4, <2>5, <2>6, <2>7, <2>8 DEF Consume
<1>4. CASE \E s \in Sessions : WorkerDiscard(s)
      BY <1>4 DEF WorkerDiscard
<1>5. CASE Unplug \/ AllDone \/ UNCHANGED vars
      BY <1>5 DEF Unplug, AllDone, vars
<1> QED BY <1>1, <1>2, <1>3, <1>4, <1>5 DEF Next

LEMMA KindAtPCStep == IInv /\ [Next]_vars => KindAtPC'
<1> SUFFICES ASSUME TypeOK, KindAtPC, [Next]_vars
             PROVE  KindAtPC'
    BY DEF IInv, TypeInv
<1> USE DEF TypeOK, KindAtPC, Streams, Goto, device, consumer
<1>1. ASSUME NEW s \in Sessions, Start(s)
      PROVE  KindAtPC'
  <2>1. CASE StartOk(s)
        BY <2>1 DEF StartOk, TryAcquire, FirstStop
  <2>2. CASE StartBusy(s)
        BY <2>2 DEF StartBusy, Observe, Fail, Nothing, Chunk
  <2>3. CASE StartNoRuntime(s)
        BY <2>3 DEF StartNoRuntime, Observe, Fail, Nothing, Chunk
  <2>4. CASE StartBadLength(s)
        BY <2>4 DEF StartBadLength, TryAcquire
  <2> QED BY <1>1, <2>1, <2>2, <2>3, <2>4 DEF Start
<1>2. ASSUME NEW s \in Sessions, Thread(s)
      PROVE  KindAtPC'
  <2>1. CASE SyncRead(s)
        BY <2>1 DEF SyncRead
  <2>2. CASE WorkerStart(s)
        BY <2>2 DEF WorkerStart
  <2>3. CASE StreamHead(s)
        BY <2>3 DEF StreamHead
  <2>4. CASE AsyncHead(s)
        BY <2>4 DEF AsyncHead
  <2>5. CASE ReadChunk(s)
        BY <2>5, BulkStreamAssumption DEF ReadChunk, Landing, AllKinds
  <2>6. CASE ReadZero(s)
        BY <2>6, BulkStreamAssumption DEF ReadZero, Landing, AllKinds
  <2>7. ASSUME NEW e \in ReadErrors, ReadFailed(s, e)
        PROVE  KindAtPC'
        BY <2>7, BulkStreamAssumption DEF ReadFailed, Landing, AllKinds
  <2>8. CASE Return(s)
        BY <2>8 DEF Return, ReleaseGuard, Observe
  <2>9. CASE Yield(s)
        BY <2>9 DEF Yield, Observe
  <2>10. CASE Callback(s)
        BY <2>10 DEF Callback, Observe
  <2>11. CASE Send(s)
        BY <2>11 DEF Send, AfterSend
  <2>12. CASE SendClosed(s)
        BY <2>12 DEF SendClosed
  <2>13. CASE DropWorkerGuard(s)
        BY <2>13 DEF DropWorkerGuard, ReleaseGuard
  <2>14. CASE DropSender(s)
        BY <2>14 DEF DropSender
  <2> QED BY <1>2, <2>1, <2>2, <2>3, <2>4, <2>5, <2>6, <2>7, <2>8, <2>9, <2>10, <2>11, <2>12, <2>13, <2>14 DEF Thread
<1>3. ASSUME NEW s \in Sessions, Consume(s)
      PROVE  KindAtPC'
  <2>1. CASE IterNext(s)
        BY <2>1 DEF IterNext
  <2>2. CASE IterNextDeferred(s)
        BY <2>2 DEF IterNextDeferred, Observe, Fail, Nothing, Chunk
  <2>3. CASE IterNextFused(s)
        BY <2>3 DEF IterNextFused, Observe
  <2>4. CASE DropIter(s)
        BY <2>4 DEF DropIter, ReleaseGuard
  <2>5. CASE Recv(s)
        BY <2>5 DEF Recv
  <2>6. CASE RecvEnd(s)
    <3>1. pc[s] = "done" /\ ended' = [ended EXCEPT ![s] = TRUE]
          BY <2>6 DEF RecvEnd, Observe, SenderDropped
    <3>2. pc' = pc /\ kind' = kind /\ rx' = rx
          BY <2>6 DEF RecvEnd
    <3> QED BY <3>1, <3>2
  <2>7. CASE DropStream(s)
        BY <2>7 DEF DropStream
  <2>8. CASE SetCancel(s)
        BY <2>8 DEF SetCancel
  <2> QED BY <1>3, <2>1, <2>2, <2>3, <2>4, <2>5, <2>6, <2>7, <2>8 DEF Consume
<1>4. CASE \E s \in Sessions : WorkerDiscard(s)
      BY <1>4 DEF WorkerDiscard
<1>5. CASE Unplug \/ AllDone \/ UNCHANGED vars
      BY <1>5 DEF Unplug, AllDone, vars
<1> QED BY <1>1, <1>2, <1>3, <1>4, <1>5 DEF Next

LEMMA InductiveInvariant == Spec => []IInv
<1>1. Init => IInv
  <2>1. Init => GuardAtPC /\ Exclusive /\ KindAtPC
        BY DEF Init, GuardAtPC, Exclusive, KindAtPC, Holding, Free
  <2>2. Init => TypeInv
    <3>1. Init => ZeroCount
          BY BulkStreamAssumption DEF Init, ZeroCount
    <3> QED BY <3>1, TypeInit DEF TypeInv
  <2> QED BY <2>1, <2>2 DEF IInv
<1>2. IInv /\ [Next]_vars => IInv'
      BY TypeStep, ZeroCountStep, ExclusiveStep, GuardAtPCStep, KindAtPCStep
      DEF IInv, TypeInv
<1> QED BY <1>1, <1>2, PTL DEF Spec

(* No two sessions ever have a transfer pending: for any number of         *)
(* sessions and whatever their entry points, at most one bulk-read         *)
(* activity is in flight on the endpoint.                                  *)
THEOREM ExclusiveTransfer == Spec => []OneTransfer
<1>1. IInv => OneTransfer
      BY DEF IInv, GuardAtPC, Exclusive, Holding, OneTransfer
<1> QED BY <1>1, InductiveInvariant, PTL

(* No path leaves the device busy for ever: once every session is over the *)
(* flag is clear.                                                          *)
THEOREM NoGuardLeak == Spec => []IdleMeansFree
<1>1. IInv => IdleMeansFree
      BY DEF IInv, GuardAtPC, Exclusive, Free, IdleMeansFree
<1> QED BY <1>1, InductiveInvariant, PTL

(* The end of a stream reaches its consumer only after its worker gave the *)
(* guard up.                                                               *)
THEOREM StreamEndReleased == Spec => []EndMeansReleased
<1>1. IInv => EndMeansReleased
      BY DEF IInv, GuardAtPC, KindAtPC, Free, EndMeansReleased
<1> QED BY <1>1, InductiveInvariant, PTL

---------------------------------------------------------------------------
(* Refinement: a step of BulkStream is a step of SingleReader or leaves    *)
(* its variables alone. One lemma per way a step can move a session.       *)

LEMMA OwnerUnique ==
    ASSUME IInv, NEW s \in Sessions, guard[s]
    PROVE  /\ {t \in Sessions : guard[t]} = {s}
           /\ {t \in Sessions : pc[t] = "reading"} \subseteq {s}
BY DEF IInv, Exclusive, GuardAtPC, Holding

LEMMA StepStutters ==
    ASSUME IInv, NEW s \in Sessions, NEW l, pc[s] # "reading", l # "reading",
           pc' = [pc EXCEPT ![s] = l], guard' = guard
    PROVE  UNCHANGED SR!srVars
BY DEF IInv, TypeInv, TypeOK, SR!srVars

LEMMA StepAcquires ==
    ASSUME IInv, NEW s \in Sessions, NEW l, pc[s] # "reading", l # "reading",
           pc' = [pc EXCEPT ![s] = l], TryAcquire(s)
    PROVE  SR!Acquire(s)
<1>1. \A t \in Sessions : ~guard[t]
      BY DEF IInv, Exclusive, TryAcquire
<1>2. {t \in Sessions : guard'[t]} = {s}
      BY <1>1 DEF IInv, TypeInv, TypeOK, TryAcquire
<1>3. {t \in Sessions : pc'[t] = "reading"} = {t \in Sessions : pc[t] = "reading"}
      BY DEF IInv, TypeInv, TypeOK
<1> QED BY <1>1, <1>2, <1>3 DEF SR!Acquire

LEMMA StepBegins ==
    ASSUME IInv, NEW s \in Sessions, pc[s] \in {"ready", "held"},
           pc' = [pc EXCEPT ![s] = "reading"], guard' = guard
    PROVE  SR!Begin(s)
<1>1. guard[s]
      BY DEF IInv, GuardAtPC, Holding
<1>2. {t \in Sessions : guard[t]} = {s} /\ {t \in Sessions : pc[t] = "reading"} = {}
      BY <1>1, OwnerUnique
<1>3. {t \in Sessions : pc'[t] = "reading"} = {s}
      BY <1>2 DEF IInv, TypeInv, TypeOK
<1> QED BY <1>2, <1>3 DEF SR!Begin

LEMMA StepCompletes ==
    ASSUME IInv, NEW s \in Sessions, NEW l, pc[s] = "reading", l # "reading",
           pc' = [pc EXCEPT ![s] = l], guard' = guard
    PROVE  SR!Complete(s)
<1>1. guard[s]
      BY DEF IInv, GuardAtPC, Holding
<1>2. {t \in Sessions : pc[t] = "reading"} = {s}
      BY <1>1, OwnerUnique
<1>3. {t \in Sessions : pc'[t] = "reading"} = {}
      BY <1>2 DEF IInv, TypeInv, TypeOK
<1> QED BY <1>2, <1>3 DEF SR!Complete

LEMMA StepReleases ==
    ASSUME IInv, NEW s \in Sessions, NEW l, pc[s] # "reading", l # "reading",
           pc' = [pc EXCEPT ![s] = l], ReleaseGuard(s)
    PROVE  SR!Release(s) \/ UNCHANGED SR!srVars
<1>1. {t \in Sessions : pc'[t] = "reading"} = {t \in Sessions : pc[t] = "reading"}
      BY DEF IInv, TypeInv, TypeOK
<1>2. CASE guard[s]
  <2>1. {t \in Sessions : guard[t]} = {s} /\ {t \in Sessions : pc[t] = "reading"} = {}
        BY <1>2, OwnerUnique
  <2>2. {t \in Sessions : guard'[t]} = {}
        BY <2>1 DEF IInv, TypeInv, TypeOK, ReleaseGuard
  <2> QED BY <1>1, <2>1, <2>2 DEF SR!Release
<1>3. CASE ~guard[s]
  <2>1. {t \in Sessions : guard'[t]} = {t \in Sessions : guard[t]}
        BY <1>3 DEF IInv, TypeInv, TypeOK, ReleaseGuard
  <2> QED BY <1>1, <2>1 DEF SR!srVars
<1> QED BY <1>2, <1>3

LEMMA RefinementStep == IInv /\ [Next]_vars => [SR!SRNext]_(SR!srVars)
<1> SUFFICES ASSUME IInv, [Next]_vars
             PROVE  SR!SRNext \/ UNCHANGED SR!srVars
    OBVIOUS
<1> DEFINE Simulated == SR!SRNext \/ UNCHANGED SR!srVars
<1>1. ASSUME NEW s \in Sessions, Start(s)
      PROVE  Simulated
  <2>1. CASE StartOk(s)
    <3>1. FirstStop(kind[s]) # "reading"
          BY DEF FirstStop
    <3>2. SR!Acquire(s)
          BY <2>1, <3>1, StepAcquires DEF StartOk, Goto
    <3> QED BY <3>2 DEF SR!SRNext
  <2>2. CASE StartBusy(s)
        BY <2>2, StepStutters DEF StartBusy, Goto
  <2>3. CASE StartNoRuntime(s)
        BY <2>3, StepStutters DEF StartNoRuntime, Goto
  <2>4. CASE StartBadLength(s)
    <3>1. SR!Acquire(s)
          BY <2>4, StepAcquires DEF StartBadLength, Goto
    <3> QED BY <3>1 DEF SR!SRNext
  <2> QED BY <1>1, <2>1, <2>2, <2>3, <2>4 DEF Start
<1>2. ASSUME NEW s \in Sessions, SyncRead(s) \/ StreamHead(s) \/ AsyncHead(s) \/ IterNext(s)
      PROVE  Simulated
  <2>1. CASE pc' = [pc EXCEPT ![s] = "reading"]
    <3>1. SR!Begin(s)
          BY <1>2, <2>1, StepBegins DEF SyncRead, StreamHead, AsyncHead, IterNext
    <3> QED BY <3>1 DEF SR!SRNext
  <2>2. CASE pc' # [pc EXCEPT ![s] = "reading"]
    <3>1. PICK l \in {"ending", "returning"} :
              pc' = [pc EXCEPT ![s] = l] /\ pc[s] = "ready" /\ guard' = guard
          BY <1>2, <2>2 DEF SyncRead, StreamHead, AsyncHead, IterNext, Goto
    <3> QED BY <3>1, StepStutters
  <2> QED BY <2>1, <2>2
<1>3. ASSUME NEW s \in Sessions,
             ReadChunk(s) \/ ReadZero(s) \/ \E e \in ReadErrors : ReadFailed(s, e)
      PROVE  Simulated
  <2>1. PICK l \in {"sending", "yielding", "returning", "callback", "ending", "ready"} :
            pc' = [pc EXCEPT ![s] = l] /\ pc[s] = "reading" /\ guard' = guard
        BY <1>3 DEF ReadChunk, ReadZero, ReadFailed, Landing, Goto
  <2>2. SR!Complete(s)
        BY <2>1, StepCompletes
  <2> QED BY <2>2 DEF SR!SRNext
<1>4. ASSUME NEW s \in Sessions, Return(s) \/ DropWorkerGuard(s) \/ DropIter(s)
      PROVE  Simulated
  <2>1. PICK l \in {"done", "closing"} :
            pc' = [pc EXCEPT ![s] = l] /\ pc[s] # "reading" /\ ReleaseGuard(s)
        BY <1>4 DEF Return, DropWorkerGuard, DropIter, Goto
  <2> QED BY <2>1, StepReleases DEF SR!SRNext
<1>5. ASSUME NEW s \in Sessions,
             \/ WorkerStart(s) \/ Yield(s) \/ Callback(s) \/ Send(s) \/ SendClosed(s)
             \/ DropSender(s) \/ IterNextDeferred(s) \/ WorkerDiscard(s)
      PROVE  Simulated
  <2>1. PICK l \in {"ready", "held", "fused", "ending", "done"} :
            pc' = [pc EXCEPT ![s] = l] /\ pc[s] # "reading" /\ guard' = guard
        BY <1>5 DEF WorkerStart, Yield, Callback, Send, AfterSend, SendClosed,
                    DropSender, IterNextDeferred, WorkerDiscard, Goto
  <2> QED BY <2>1, StepStutters
<1>6. ASSUME UNCHANGED <<pc, guard>>
      PROVE  Simulated
      BY <1>6 DEF SR!srVars
<1>7. ASSUME NEW s \in Sessions,
             \/ IterNextFused(s) \/ Recv(s) \/ RecvEnd(s) \/ DropStream(s) \/ SetCancel(s)
      PROVE  Simulated
      BY <1>7, <1>6 DEF IterNextFused, Recv, RecvEnd, DropStream, SetCancel
<1>8. CASE Unplug \/ AllDone \/ UNCHANGED vars
      BY <1>8, <1>6 DEF Unplug, AllDone, vars
<1> QED BY <1>1, <1>2, <1>3, <1>4, <1>5, <1>7, <1>8 DEF Next, Thread, Consume

(* The busy flag and its guards implement the exclusive owner that the     *)
(* reader documentation promises.                                          *)
THEOREM Refinement == Spec => ImplementsSingleReader
<1>1. Init => SR!SRInit
      BY DEF Init, SR!SRInit
<1>2. IInv /\ [Next]_vars => [SR!SRNext]_(SR!srVars)
      BY RefinementStep
<1> QED BY <1>1, <1>2, InductiveInvariant, PTL DEF Spec, ImplementsSingleReader, SR!SRSpec
---------------------------------------------------------------------------
(* What the sessions hand over is in order: for any set of sessions, any   *)
(* channel depth and any number of chunks. These proofs rest on IInv, by   *)
(* which a transfer is only ever run under the guard.                      *)

(* What a session's thread has in hand, and when its channel is in use.    *)
BufAtPC ==
    \A s \in Sessions :
        /\ buf[s] # Nothing => pc[s] \in {"sending", "yielding", "callback", "returning"}
        /\ pc[s] = "sending" => buf[s] # Nothing
        /\ pc[s] = "callback" => buf[s].err = "none"
        /\ buf[s].err # "none" => buf[s].chunk = 0
        /\ chan[s] # <<>> => rx[s]
        /\ pc[s] = "new" => ~rx[s]

LEMMA ItemFacts ==
    /\ \A e \in Errors : Fail(e) # Nothing /\ Fail(e).err = e /\ Fail(e).chunk = 0 /\ e # "none"
    /\ \A n \in Nat : Chunk(n + 1) # Nothing /\ Chunk(n + 1).err = "none" /\ Chunk(n + 1).chunk = n + 1
    /\ Nothing.err = "none" /\ Nothing.chunk = 0
BY DEF Fail, Chunk, Nothing, Errors, ReadErrors

LEMMA BufAtPCStep == IInv /\ BufAtPC /\ [Next]_vars => BufAtPC'
<1> SUFFICES ASSUME TypeOK, KindAtPC, BufAtPC, [Next]_vars
             PROVE  BufAtPC'
    BY DEF IInv, TypeInv
<1> USE ItemFacts DEF TypeOK, KindAtPC, BufAtPC, Streams, Goto, SetBuf, device, consumer
<1>1. ASSUME NEW s \in Sessions, Start(s)
      PROVE  BufAtPC'
  <2>1. CASE StartOk(s)
        BY <2>1 DEF StartOk, TryAcquire, FirstStop
  <2>2. CASE StartBusy(s)
    <3>1. PICK l \in {"deferred", "done"} : Goto(s, l)
          BY <2>2 DEF StartBusy
    <3>2. pc[s] = "new" /\ UNCHANGED <<buf, chan, rx>>
          BY <2>2 DEF StartBusy
    <3> QED BY <3>1, <3>2
  <2>3. CASE StartNoRuntime(s)
        BY <2>3 DEF StartNoRuntime
  <2>4. CASE StartBadLength(s)
        BY <2>4 DEF StartBadLength, TryAcquire, Errors
  <2> QED BY <1>1, <2>1, <2>2, <2>3, <2>4 DEF Start
<1>2. ASSUME NEW s \in Sessions, Thread(s)
      PROVE  BufAtPC'
  <2>1. CASE SyncRead(s) \/ WorkerStart(s) \/ StreamHead(s) \/ AsyncHead(s)
        BY <2>1 DEF SyncRead, WorkerStart, StreamHead, AsyncHead
  <2>2. CASE ReadChunk(s)
        BY <2>2 DEF ReadChunk, Landing
  <2>3. CASE ReadZero(s)
        BY <2>3 DEF ReadZero, Landing
  <2>4. ASSUME NEW e \in ReadErrors, ReadFailed(s, e)
        PROVE  BufAtPC'
        BY <2>4 DEF ReadFailed, Landing, Errors
  <2>5. CASE Return(s) \/ Yield(s) \/ Callback(s)
        BY <2>5 DEF Return, Yield, Callback
  <2>6. CASE Send(s)
        BY <2>6 DEF Send, AfterSend
  <2>7. CASE SendClosed(s)
        BY <2>7 DEF SendClosed
  <2>8. CASE DropWorkerGuard(s)
        BY <2>8 DEF DropWorkerGuard
  <2>9. CASE DropSender(s)
        BY <2>9 DEF DropSender
  <2> QED BY <1>2, <2>1, <2>2, <2>3, <2>4, <2>5, <2>6, <2>7, <2>8, <2>9 DEF Thread
<1>3. ASSUME NEW s \in Sessions, Consume(s)
      PROVE  BufAtPC'
  <2>1. CASE IterNext(s) \/ IterNextDeferred(s) \/ IterNextFused(s)
        BY <2>1 DEF IterNext, IterNextDeferred, IterNextFused
  <2>6. CASE DropIter(s)
        BY <2>6 DEF DropIter
  <2>2. CASE Recv(s)
        BY <2>2 DEF Recv
  <2>3. CASE RecvEnd(s)
        BY <2>3 DEF RecvEnd
  <2>4. CASE DropStream(s)
        BY <2>4 DEF DropStream
  <2>5. CASE SetCancel(s)
        BY <2>5 DEF SetCancel
  <2> QED BY <1>3, <2>1, <2>2, <2>3, <2>4, <2>5, <2>6 DEF Consume
<1>4. ASSUME NEW s \in Sessions, WorkerDiscard(s)
      PROVE  BufAtPC'
      BY <1>4 DEF WorkerDiscard
<1>5. CASE Unplug \/ AllDone \/ UNCHANGED vars
      BY <1>5 DEF Unplug, AllDone, vars
<1> QED BY <1>1, <1>2, <1>3, <1>4, <1>5 DEF Next

---------------------------------------------------------------------------
(* Sequences of items                                                      *)

Healthy(q) == \A i \in 1..Len(q) : q[i].err = "none"

(* An error only at the end, chunks without a gap.                         *)
Orderly(q) ==
    \A i \in 1..(Len(q) - 1) :
        q[i].err = "none" /\ (q[i + 1].err = "none" => q[i + 1].chunk = q[i].chunk + 1)

Recorded(q, lost) == \A i \in 1..Len(q) : q[i].err = "DeviceLost" => lost

LEMMA OrderlyAppend ==
    ASSUME NEW q \in Seq(Item), NEW x \in Item, Orderly(q), Healthy(q),
           q = <<>> \/ x.err # "none" \/ x.chunk = q[Len(q)].chunk + 1
    PROVE  Orderly(Append(q, x))
<1>1. /\ Len(q) \in Nat /\ Len(Append(q, x)) = Len(q) + 1
      /\ Append(q, x)[Len(q) + 1] = x
      /\ \A i \in 1..Len(q) : Append(q, x)[i] = q[i]
      BY AppendProperties
<1>2. ASSUME NEW i \in 1..Len(q)
      PROVE  /\ Append(q, x)[i].err = "none"
             /\ Append(q, x)[i + 1].err = "none" =>
                    Append(q, x)[i + 1].chunk = Append(q, x)[i].chunk + 1
  <2>1. CASE i = Len(q)
        BY <1>1, <2>1 DEF Healthy
  <2>2. CASE i # Len(q)
    <3>1. i \in 1..(Len(q) - 1) /\ i + 1 \in 1..Len(q)
          BY <1>1, <2>2
    <3> QED BY <1>1, <3>1 DEF Orderly
  <2> QED BY <2>1, <2>2
<1> QED BY <1>1, <1>2 DEF Orderly

(* The last item tells whether an orderly sequence has an error.           *)
LEMMA HealthyIfLast ==
    ASSUME NEW q \in Seq(Item), NEW x \in Item, Orderly(Append(q, x)), x.err = "none"
    PROVE  Healthy(Append(q, x))
<1>1. /\ Len(q) \in Nat /\ Len(Append(q, x)) = Len(q) + 1
      /\ Append(q, x)[Len(q) + 1] = x
      BY AppendProperties
<1> QED BY <1>1 DEF Healthy, Orderly

LEMMA RecordedAppend ==
    ASSUME NEW q \in Seq(Item), NEW x \in Item, NEW lost, Recorded(q, lost),
           x.err = "DeviceLost" => lost
    PROVE  Recorded(Append(q, x), lost)
<1>1. /\ Len(q) \in Nat /\ Len(Append(q, x)) = Len(q) + 1
      /\ Append(q, x)[Len(q) + 1] = x
      /\ \A i \in 1..Len(q) : Append(q, x)[i] = q[i]
      BY AppendProperties
<1> QED BY <1>1 DEF Recorded

(* What is true of the items in order is true of the first few of them.    *)
LEMMA PrefixKeeps ==
    ASSUME NEW q \in Seq(Item), NEW r \in Seq(Item), NEW lost
    PROVE  /\ Orderly(q \o r) => Orderly(q)
           /\ Healthy(q \o r) => Healthy(q)
           /\ Recorded(q \o r, lost) => Recorded(q, lost)
<1>1. /\ Len(q) \in Nat /\ Len(r) \in Nat /\ Len(q \o r) = Len(q) + Len(r)
      /\ \A i \in 1..Len(q) : (q \o r)[i] = q[i]
      BY ConcatProperties
<1>2. Orderly(q \o r) => Orderly(q)
  <2>1. \A i \in 1..(Len(q) - 1) :
            i \in 1..(Len(q \o r) - 1) /\ (q \o r)[i] = q[i] /\ (q \o r)[i + 1] = q[i + 1]
        BY <1>1
  <2> QED BY <2>1 DEF Orderly
<1>3. Healthy(q \o r) => Healthy(q)
  <2>1. \A i \in 1..Len(q) : i \in 1..Len(q \o r) /\ (q \o r)[i] = q[i]
        BY <1>1
  <2> QED BY <2>1 DEF Healthy
<1>4. Recorded(q \o r, lost) => Recorded(q, lost)
  <2>1. \A i \in 1..Len(q) : i \in 1..Len(q \o r) /\ (q \o r)[i] = q[i]
        BY <1>1
  <2> QED BY <2>1 DEF Recorded
<1> QED BY <1>2, <1>3, <1>4

(* The oldest item of a channel moves to the consumer.                     *)
LEMMA MoveHead ==
    ASSUME NEW q \in Seq(Item), NEW c \in Seq(Item), c # <<>>
    PROVE  Append(q, Head(c)) \o Tail(c) = q \o c
<1>1. /\ Head(c) \in Item /\ Tail(c) \in Seq(Item) /\ <<Head(c)>> \in Seq(Item)
      /\ Len(Tail(c)) = Len(c) - 1 /\ Len(c) \in Nat \ {0} /\ Head(c) = c[1]
      /\ \A i \in 1..Len(Tail(c)) : Tail(c)[i] = c[i + 1]
      BY HeadTailProperties, EmptySeq
<1>2. <<Head(c)>> \o Tail(c) = c
  <2>1. /\ <<Head(c)>> \o Tail(c) \in Seq(Item)
        /\ Len(<<Head(c)>> \o Tail(c)) = Len(c)
        /\ \A i \in 1..Len(c) :
               (<<Head(c)>> \o Tail(c))[i] = IF i <= 1 THEN <<Head(c)>>[i] ELSE Tail(c)[i - 1]
        BY <1>1, ConcatProperties
  <2>2. \A i \in 1..Len(c) : (<<Head(c)>> \o Tail(c))[i] = c[i]
        BY <1>1, <2>1
  <2> QED BY <2>1, <2>2, SeqEqual
<1>3. Append(q, Head(c)) = q \o <<Head(c)>>
      BY <1>1, AppendIsConcat
<1> QED BY <1>1, <1>2, <1>3, ConcatAssociative

(* An item is put behind what is already in the channel.                   *)
LEMMA PutBehind ==
    ASSUME NEW q \in Seq(Item), NEW c \in Seq(Item), NEW x \in Item
    PROVE  q \o Append(c, x) = Append(q \o c, x)
<1>1. q \o c \in Seq(Item) /\ <<x>> \in Seq(Item)
      BY ConcatProperties
<1>2. q \o (c \o <<x>>) = (q \o c) \o <<x>>
      BY <1>1, ConcatAssociative
<1>3. Append(c, x) = c \o <<x>> /\ Append(q \o c, x) = (q \o c) \o <<x>>
      BY <1>1, AppendIsConcat
<1> QED BY <1>2, <1>3

---------------------------------------------------------------------------
(* The items of a session, and the invariant that keeps them in order: a   *)
(* session that can still read, because it holds the guard and has someone *)
(* to read for, has the newest chunk as its last item. So the chunk that   *)
(* it reads next continues it, and no other session can read one meanwhile.*)

Gone(s) == kind[s] \in Streams /\ ~rx[s]

NothingYet == {"new", "queued", "deferred"}
NoErrorYet == NothingYet \cup {"ready", "reading", "held", "callback"}

InOrder(items, at, live, newest, lost) ==
    /\ Orderly(items)
    /\ Recorded(items, lost)
    /\ at \in NothingYet => items = <<>>
    /\ at \in NoErrorYet => Healthy(items)
    /\ live /\ items # <<>> =>
           items[Len(items)].err # "none" \/ items[Len(items)].chunk = newest

DeliveryAt(s) == InOrder(Pipeline(s), pc[s], guard[s] /\ ~Gone(s), completed, devLost)
DeliveryInv == \A s \in Sessions : DeliveryAt(s)

DInv == IInv /\ BufAtPC /\ DeliveryInv

(* Pipeline, in the terms of the variables a step changes. (The lemma is   *)
(* about values, so that it serves the next state too.)                    *)
ItemsOf(g, c, b, gone) ==
    g \o (IF gone THEN <<>> ELSE c \o (IF b = Nothing THEN <<>> ELSE <<b>>))

LEMMA PipelineValue ==
    ASSUME NEW g \in Seq(Item), NEW c \in Seq(Item), NEW b \in Item, NEW gone \in BOOLEAN,
           gone => c = <<>>
    PROVE  /\ ItemsOf(g, c, b, gone) \in Seq(Item)
           /\ gone \/ b = Nothing => ItemsOf(g, c, b, gone) = g \o c
           /\ ~gone /\ b # Nothing => ItemsOf(g, c, b, gone) = Append(g \o c, b)
<1>1. g \o c \in Seq(Item) /\ <<>> \in Seq(Item) /\ <<b>> \in Seq(Item)
      BY ConcatProperties, EmptySeq
<1>2. g \o <<>> = g /\ c \o <<>> = c
      BY ConcatEmptySeq
<1>3. g \o (c \o <<b>>) = Append(g \o c, b)
      BY <1>1, ConcatAssociative, AppendIsConcat
<1>4. Append(g \o c, b) \in Seq(Item)
      BY <1>1, AppendProperties
<1>5. CASE gone
  <2>1. c = <<>> /\ ItemsOf(g, c, b, gone) = g \o <<>>
        BY <1>5 DEF ItemsOf
  <2> QED BY <1>1, <1>2, <1>5, <2>1
<1>6. CASE ~gone /\ b = Nothing
  <2>1. ItemsOf(g, c, b, gone) = g \o (c \o <<>>)
        BY <1>6 DEF ItemsOf
  <2> QED BY <1>1, <1>2, <1>6, <2>1
<1>7. CASE ~gone /\ b # Nothing
  <2>1. ItemsOf(g, c, b, gone) = g \o (c \o <<b>>)
        BY <1>7 DEF ItemsOf
  <2> QED BY <1>3, <1>4, <1>7, <2>1
<1> QED BY <1>5, <1>6, <1>7

LEMMA PipelineNow ==
    ASSUME TypeOK, BufAtPC, NEW s \in Sessions
    PROVE  /\ Pipeline(s) \in Seq(Item)
           /\ Gone(s) \/ buf[s] = Nothing => Pipeline(s) = got[s] \o chan[s]
           /\ ~Gone(s) /\ buf[s] # Nothing => Pipeline(s) = Append(got[s] \o chan[s], buf[s])
<1>1. /\ got[s] \in Seq(Item) /\ chan[s] \in Seq(Item) /\ buf[s] \in Item
      /\ Gone(s) \in BOOLEAN /\ (Gone(s) => chan[s] = <<>>)
      BY DEF TypeOK, BufAtPC, Gone
<1>2. Pipeline(s) = ItemsOf(got[s], chan[s], buf[s], Gone(s))
      BY DEF Pipeline, ItemsOf, Gone
<1>3. /\ ItemsOf(got[s], chan[s], buf[s], Gone(s)) \in Seq(Item)
      /\ Gone(s) \/ buf[s] = Nothing =>
             ItemsOf(got[s], chan[s], buf[s], Gone(s)) = got[s] \o chan[s]
      /\ ~Gone(s) /\ buf[s] # Nothing =>
             ItemsOf(got[s], chan[s], buf[s], Gone(s)) = Append(got[s] \o chan[s], buf[s])
      BY <1>1, PipelineValue
<1> QED BY <1>2, <1>3

LEMMA PipelineNext ==
    ASSUME TypeOK', BufAtPC', NEW s \in Sessions
    PROVE  /\ Pipeline(s)' \in Seq(Item)
           /\ Gone(s)' \/ buf'[s] = Nothing => Pipeline(s)' = got'[s] \o chan'[s]
           /\ ~Gone(s)' /\ buf'[s] # Nothing => Pipeline(s)' = Append(got'[s] \o chan'[s], buf'[s])
<1> DEFINE gone == kind'[s] \in Streams /\ ~rx'[s]
<1>1. /\ got'[s] \in Seq(Item) /\ chan'[s] \in Seq(Item) /\ buf'[s] \in Item
      /\ gone \in BOOLEAN /\ (gone => chan'[s] = <<>>)
      BY DEF TypeOK, BufAtPC
<1>2. Pipeline(s)' = ItemsOf(got'[s], chan'[s], buf'[s], gone)
      BY DEF Pipeline, ItemsOf
<1>3. Gone(s)' = gone
      BY DEF Gone
<1> HIDE DEF gone
<1> DEFINE items == ItemsOf(got'[s], chan'[s], buf'[s], gone)
<1>4. /\ items \in Seq(Item)
      /\ gone \/ buf'[s] = Nothing => items = got'[s] \o chan'[s]
      /\ ~gone /\ buf'[s] # Nothing => items = Append(got'[s] \o chan'[s], buf'[s])
      BY <1>1, PipelineValue
<1>5. Pipeline(s)' = items
      BY <1>2
<1> HIDE DEF items
<1> QED BY <1>3, <1>4, <1>5

---------------------------------------------------------------------------
(* What an item that arrives does to the items in order.                   *)

(* The next chunk: the session is one that can read.                       *)
LEMMA InOrderChunk ==
    ASSUME NEW q \in Seq(Item), NEW at, NEW at2, NEW n \in Nat, NEW lost \in BOOLEAN,
           InOrder(q, at, TRUE, n, lost), at \in NoErrorYet, at2 \notin NothingYet
    PROVE  InOrder(Append(q, Chunk(n + 1)), at2, TRUE, n + 1, lost)
<1> DEFINE x == Chunk(n + 1)
<1>1. x \in Item /\ x.err = "none" /\ x.chunk = n + 1
      BY ItemTypes, ItemFacts
<1>2. q = <<>> \/ q[Len(q)].chunk = n
  <2>1. q # <<>> => Len(q) \in 1..Len(q)
        BY EmptySeq
  <2> QED BY <2>1 DEF InOrder, Healthy
<1>3. Orderly(Append(q, x))
      BY <1>1, <1>2, OrderlyAppend DEF InOrder
<1>4. Healthy(Append(q, x))
      BY <1>1, <1>3, HealthyIfLast
<1>5. Recorded(Append(q, x), lost)
      BY <1>1, RecordedAppend DEF InOrder
<1>6. Append(q, x)[Len(Append(q, x))] = x
      BY <1>1, AppendProperties
<1> QED BY <1>1, <1>3, <1>4, <1>5, <1>6 DEF InOrder

(* An error.                                                               *)
LEMMA ErrorAppended ==
    ASSUME NEW q \in Seq(Item), NEW e \in Errors, NEW lost \in BOOLEAN, NEW lost2 \in BOOLEAN,
           Orderly(q), Healthy(q), Recorded(q, lost), lost => lost2, e = "DeviceLost" => lost2
    PROVE  /\ Orderly(Append(q, Fail(e))) /\ Recorded(Append(q, Fail(e)), lost2)
           /\ Append(q, Fail(e))[Len(Append(q, Fail(e)))].err # "none"
<1> DEFINE x == Fail(e)
<1>1. x \in Item /\ x.err = e /\ e # "none"
      BY ItemTypes, ItemFacts
<1>2. Orderly(Append(q, x))
      BY <1>1, OrderlyAppend
<1>3. Recorded(Append(q, x), lost2)
  <2>1. Recorded(q, lost2)
        BY DEF Recorded
  <2> QED BY <1>1, <2>1, RecordedAppend
<1>4. Append(q, x)[Len(Append(q, x))] = x
      BY <1>1, AppendProperties
<1> QED BY <1>1, <1>2, <1>3, <1>4

---------------------------------------------------------------------------
(* A step of session s leaves alone what the others have.                  *)

Acts(s) == Start(s) \/ Thread(s) \/ Consume(s) \/ WorkerDiscard(s)

LEMMA OthersKeep ==
    ASSUME TypeOK, NEW s \in Sessions, Acts(s), NEW t \in Sessions, t # s
    PROVE  /\ pc'[t] = pc[t] /\ guard'[t] = guard[t] /\ kind' = kind
           /\ got'[t] = got[t] /\ chan'[t] = chan[t] /\ buf'[t] = buf[t] /\ rx'[t] = rx[t]
           /\ devLost => devLost'
           /\ completed' = completed \/ pc[s] = "reading"
<1> DEFINE Kept ==
        /\ pc'[t] = pc[t] /\ guard'[t] = guard[t] /\ kind' = kind
        /\ got'[t] = got[t] /\ chan'[t] = chan[t] /\ buf'[t] = buf[t] /\ rx'[t] = rx[t]
        /\ (devLost => devLost')
        /\ completed' = completed \/ pc[s] = "reading"
<1> USE DEF TypeOK, Goto, SetBuf, Observe, TryAcquire, ReleaseGuard, device, consumer
<1>1. CASE Start(s)
      BY <1>1 DEF Start, StartOk, StartBusy, StartNoRuntime, StartBadLength
<1>2. CASE SyncRead(s) \/ WorkerStart(s) \/ StreamHead(s) \/ AsyncHead(s) \/ WorkerDiscard(s)
      BY <1>2 DEF SyncRead, WorkerStart, StreamHead, AsyncHead, WorkerDiscard
<1>3. CASE ReadChunk(s) \/ ReadZero(s) \/ \E e \in ReadErrors : ReadFailed(s, e)
      BY <1>3 DEF ReadChunk, ReadZero, ReadFailed
<1>4. CASE Return(s) \/ Yield(s) \/ Callback(s)
      BY <1>4 DEF Return, Yield, Callback
<1>5. CASE Send(s) \/ SendClosed(s) \/ DropWorkerGuard(s) \/ DropSender(s)
      BY <1>5 DEF Send, SendClosed, DropWorkerGuard, DropSender
<1>6. CASE Consume(s)
      BY <1>6 DEF Consume, IterNext, IterNextDeferred, IterNextFused, DropIter, Recv, RecvEnd,
                  DropStream, SetCancel
<1>7. Kept
      BY <1>1, <1>2, <1>3, <1>4, <1>5, <1>6 DEF Acts, Thread
<1> QED BY <1>7

LEMMA OthersInOrder ==
    ASSUME DInv, NEW s \in Sessions, Acts(s), NEW t \in Sessions, t # s
    PROVE  DeliveryAt(t)'
<1>1. TypeOK /\ BufAtPC /\ GuardAtPC /\ Exclusive /\ DeliveryAt(t)
      BY DEF DInv, IInv, TypeInv, DeliveryInv
<1>2. Pipeline(t)' = Pipeline(t) /\ Gone(t)' = Gone(t) /\ pc'[t] = pc[t] /\ guard'[t] = guard[t]
      BY <1>1, OthersKeep DEF Pipeline, Gone
<1>3. completed' = completed \/ ~guard[t]
      BY <1>1, OthersKeep DEF GuardAtPC, Exclusive, Holding
<1>4. devLost => devLost'
      BY <1>1, OthersKeep
<1> QED BY <1>1, <1>2, <1>3, <1>4 DEF DeliveryAt, InOrder, Recorded

(* A step of s that leaves the items of s as they are.                     *)
LEMMA Moves ==
    ASSUME DInv, NEW s \in Sessions, Acts(s),
           Pipeline(s)' = Pipeline(s),
           pc'[s] \in NothingYet => pc[s] \in NothingYet,
           pc'[s] \in NoErrorYet => pc[s] \in NoErrorYet \/ Healthy(Pipeline(s)),
           guard'[s] /\ ~Gone(s)' =>
               (guard[s] /\ ~Gone(s) /\ completed' = completed) \/ pc[s] \in NothingYet,
           devLost => devLost'
    PROVE  DeliveryAt(s)'
BY DEF DInv, DeliveryInv, DeliveryAt, InOrder, Recorded

(* One that changes none of the variables they are in, ...                 *)
LEMMA QuietSteps ==
    ASSUME DInv, NEW s \in Sessions,
           \/ SyncRead(s) \/ IterNext(s) \/ WorkerStart(s) \/ WorkerDiscard(s) \/ StreamHead(s)
           \/ AsyncHead(s) \/ ReadZero(s) \/ DropWorkerGuard(s) \/ DropSender(s) \/ DropIter(s)
           \/ IterNextFused(s) \/ RecvEnd(s) \/ SetCancel(s)
    PROVE  DeliveryAt(s)'
<1> USE DEF Goto, device, consumer, NothingYet, NoErrorYet
<1>1. TypeOK
      BY DEF DInv, IInv, TypeInv
<1>2. /\ got' = got /\ chan' = chan /\ buf' = buf /\ kind' = kind /\ rx' = rx
      /\ completed' = completed /\ devLost' = devLost
      BY DEF SyncRead, IterNext, WorkerStart, WorkerDiscard, StreamHead, AsyncHead, ReadZero,
             DropWorkerGuard, DropSender, DropIter, IterNextFused, RecvEnd, SetCancel, Observe
<1>3. guard'[s] => guard[s]
      BY <1>1 DEF TypeOK, ReleaseGuard,
             SyncRead, IterNext, WorkerStart, WorkerDiscard, StreamHead, AsyncHead, ReadZero,
             DropWorkerGuard, DropSender, DropIter, IterNextFused, RecvEnd, SetCancel
<1>4. /\ pc'[s] \in NothingYet => pc[s] \in NothingYet
      /\ pc'[s] \in NoErrorYet => pc[s] \in NoErrorYet
  <2>1. CASE pc' = pc
        BY <2>1
  <2>2. CASE pc' # pc
    <3>1. PICK l \in {"ready", "reading", "ending", "returning", "sending", "yielding",
                      "closing", "done"} :
              pc' = [pc EXCEPT ![s] = l] /\ (l \in {"ready", "reading"} => pc[s] \in NoErrorYet)
          BY <2>2 DEF SyncRead, IterNext, WorkerStart, WorkerDiscard, StreamHead, AsyncHead,
                      ReadZero, Landing, DropWorkerGuard, DropSender, DropIter, IterNextFused,
                      RecvEnd, SetCancel
    <3> QED BY <1>1, <3>1 DEF TypeOK
  <2> QED BY <2>1, <2>2
<1>5. Pipeline(s)' = Pipeline(s) /\ Gone(s)' = Gone(s)
      BY <1>2 DEF Pipeline, Gone
<1>6. Acts(s)
      BY DEF Acts, Thread, Consume
<1> QED BY <1>2, <1>3, <1>4, <1>5, <1>6, Moves

(* ... and one that moves them along.                                      *)
LEMMA HandOverSteps ==
    ASSUME DInv, TypeOK', BufAtPC', NEW s \in Sessions,
           Return(s) \/ Yield(s) \/ Callback(s) \/ Send(s) \/ SendClosed(s) \/ Recv(s)
    PROVE  DeliveryAt(s)'
<1> USE DEF Goto, SetBuf, device, consumer, NothingYet, NoErrorYet
<1>1. TypeOK /\ BufAtPC /\ KindAtPC /\ DeliveryAt(s)
      BY DEF DInv, IInv, TypeInv, DeliveryInv
<1>2. /\ kind' = kind /\ rx' = rx /\ completed' = completed /\ devLost' = devLost
      /\ Gone(s)' = Gone(s) /\ Acts(s)
      BY DEF Return, Yield, Callback, Send, SendClosed, Recv, Gone, Acts, Thread, Consume
<1>3. guard'[s] => guard[s]
      BY <1>1 DEF TypeOK, ReleaseGuard, Return, Yield, Callback, Send, SendClosed, Recv
<1>4. /\ got[s] \in Seq(Item) /\ chan[s] \in Seq(Item) /\ buf[s] \in Item
      /\ Orderly(Pipeline(s)) /\ Nothing \in Item
      BY <1>1, ItemTypes DEF TypeOK, DeliveryAt, InOrder
<1>5. CASE Return(s) \/ Yield(s) \/ Callback(s)
  <2>1. kind[s] \notin Streams /\ chan[s] = <<>> /\ ~Gone(s)
        BY <1>1, <1>5 DEF Return, Yield, Callback, KindAtPC, BufAtPC, Streams, Gone
  <2>2. buf'[s] = Nothing /\ chan'[s] = <<>>
        BY <1>1, <1>5, <2>1 DEF TypeOK, Return, Yield, Callback
  <2>3. got'[s] = IF buf[s] = Nothing THEN got[s] ELSE Append(got[s], buf[s])
        BY <1>1, <1>5 DEF TypeOK, Return, Yield, Callback, Observe
  <2>4. Pipeline(s)' = got'[s] /\ got'[s] \in Seq(Item)
    <3>1. got'[s] \in Seq(Item)
          BY DEF TypeOK
    <3>2. Pipeline(s)' = got'[s] \o chan'[s]
          BY <2>2, PipelineNext
    <3> QED BY <2>2, <3>1, <3>2, ConcatEmptySeq
  <2>5. Pipeline(s) = got'[s]
    <3>1. got[s] \o chan[s] = got[s]
          BY <1>4, <2>1, ConcatEmptySeq
    <3> QED BY <1>1, <2>1, <2>3, <3>1, PipelineNow
  <2>6. pc'[s] \notin NothingYet
        BY <1>1, <1>5 DEF TypeOK, Return, Yield, Callback
  <2>7. pc'[s] \in NoErrorYet => pc[s] \in NoErrorYet \/ Healthy(Pipeline(s))
    <3>1. ASSUME Yield(s), buf[s].chunk > 0
          PROVE  Healthy(Pipeline(s))
      <4>1. buf[s] # Nothing /\ buf[s].err = "none"
            BY <1>1, <1>4, <3>1, ItemFacts DEF BufAtPC
      <4> QED BY <1>4, <2>3, <2>5, <4>1, HealthyIfLast
    <3>2. CASE Yield(s)
          BY <1>1, <3>1, <3>2 DEF TypeOK, Yield
    <3>3. CASE Return(s) \/ Callback(s)
          BY <1>1, <3>3 DEF TypeOK, Return, Callback
    <3> QED BY <1>5, <3>2, <3>3
  <2> QED BY <1>2, <1>3, <2>4, <2>5, <2>6, <2>7, Moves
<1>6. CASE Send(s)
  <2>1. /\ rx[s] /\ ~Gone(s) /\ buf[s] # Nothing /\ buf'[s] = Nothing
        /\ got'[s] = got[s] /\ chan'[s] = Append(chan[s], buf[s])
        BY <1>1, <1>6 DEF Send, Gone, BufAtPC, TypeOK
  <2>2. got[s] \o Append(chan[s], buf[s]) = Append(got[s] \o chan[s], buf[s])
        BY <1>4, PutBehind
  <2>3. Pipeline(s)' = Append(got[s] \o chan[s], buf[s])
        BY <2>1, <2>2, PipelineNext
  <2>4. Pipeline(s) = Append(got[s] \o chan[s], buf[s])
        BY <1>1, <2>1, PipelineNow
  <2>5. buf[s].err = "none" => Healthy(Pipeline(s))
    <3>1. got[s] \o chan[s] \in Seq(Item)
          BY <1>4, ConcatProperties
    <3> QED BY <1>4, <2>4, <3>1, HealthyIfLast
  <2>6. pc'[s] = IF buf[s].err = "none" THEN "ready" ELSE "ending"
        BY <1>1, <1>6 DEF Send, AfterSend, TypeOK
  <2> QED BY <1>2, <1>3, <2>3, <2>4, <2>5, <2>6, Moves
<1>7. CASE SendClosed(s)
  <2>1. Gone(s) /\ got'[s] = got[s] /\ chan'[s] = chan[s]
        BY <1>1, <1>7 DEF SendClosed, Gone, KindAtPC
  <2>2. Pipeline(s)' = Pipeline(s)
        BY <1>1, <1>2, <2>1, PipelineNow, PipelineNext
  <2>3. pc'[s] = "ending"
        BY <1>1, <1>7 DEF SendClosed, TypeOK
  <2> QED BY <1>2, <1>3, <2>2, <2>3, Moves
<1>8. CASE Recv(s)
  <2>1. /\ chan[s] # <<>> /\ got'[s] = Append(got[s], Head(chan[s])) /\ chan'[s] = Tail(chan[s])
        /\ buf'[s] = buf[s] /\ pc'[s] = pc[s]
        BY <1>1, <1>8 DEF Recv, TypeOK
  <2>2. got'[s] \o chan'[s] = got[s] \o chan[s]
        BY <1>4, <2>1, MoveHead
  <2>3. Pipeline(s)' = Pipeline(s)
        BY <1>1, <1>2, <2>1, <2>2, PipelineNow, PipelineNext
  <2> QED BY <1>2, <1>3, <2>1, <2>3, Moves
<1> QED BY <1>5, <1>6, <1>7, <1>8

(* The first step of a session: it gets the guard or it gets an error.     *)
LEMMA StartSteps ==
    ASSUME DInv, TypeOK', BufAtPC', NEW s \in Sessions, Start(s) \/ IterNextDeferred(s)
    PROVE  DeliveryAt(s)'
<1> USE DEF Goto, SetBuf, device, consumer
<1>1. TypeOK /\ BufAtPC /\ KindAtPC /\ DeliveryAt(s) /\ Acts(s)
      BY DEF DInv, IInv, TypeInv, DeliveryInv, Acts, Consume
<1>2. /\ pc[s] \in NothingYet /\ Pipeline(s) = <<>>
      BY <1>1 DEF DeliveryAt, InOrder, NothingYet, Start, StartOk, StartBusy, StartNoRuntime,
                  StartBadLength, IterNextDeferred
<1>3. buf[s] = Nothing /\ chan[s] = <<>> /\ got[s] = <<>> /\ ~rx[s]
  <2>1. buf[s] = Nothing /\ ~rx[s] /\ chan[s] = <<>>
        BY <1>1 DEF BufAtPC, KindAtPC, Streams, Start, StartOk, StartBusy, StartNoRuntime,
                    StartBadLength, IterNextDeferred
  <2>2. got[s] \o chan[s] = <<>> /\ got[s] \in Seq(Item) /\ chan[s] \in Seq(Item)
        BY <1>1, <1>2, <2>1, PipelineNow DEF TypeOK
  <2> QED BY <2>1, <2>2, ConcatEqualIffEmpty
<1>4. ASSUME Pipeline(s)' = <<>>, devLost' = devLost
      PROVE  DeliveryAt(s)'
  <2>1. Len(<<>>) = 0
        BY EmptySeq
  <2> QED BY <1>4, <2>1 DEF DeliveryAt, InOrder, Orderly, Healthy, Recorded
<1>5. ASSUME NEW e \in Errors, e # "DeviceLost", Pipeline(s)' = Append(<<>>, Fail(e)),
             pc'[s] \notin NoErrorYet, devLost' = devLost
      PROVE  DeliveryAt(s)'
  <2>1. <<>> \in Seq(Item) /\ Len(<<>>) = 0
        BY EmptySeq
  <2>2. Orderly(<<>>) /\ Healthy(<<>>) /\ Recorded(<<>>, devLost)
        BY <2>1 DEF Orderly, Healthy, Recorded
  <2>3. /\ Orderly(Pipeline(s)') /\ Recorded(Pipeline(s)', devLost)
        /\ Pipeline(s)'[Len(Pipeline(s)')].err # "none"
    <3>1. devLost \in BOOLEAN
          BY <1>1 DEF TypeOK
    <3>2. /\ Orderly(Append(<<>>, Fail(e))) /\ Recorded(Append(<<>>, Fail(e)), devLost)
          /\ Append(<<>>, Fail(e))[Len(Append(<<>>, Fail(e)))].err # "none"
          BY <1>5, <2>1, <2>2, <3>1, ErrorAppended
    <3> QED BY <1>5, <3>2
  <2> QED BY <1>5, <2>3 DEF DeliveryAt, InOrder, NoErrorYet
<1>6. <<>> \o <<>> = <<>> /\ \A x \in Item : Append(<<>>, x) \o <<>> = Append(<<>>, x)
  <2>1. <<>> \in Seq(Item) /\ \A x \in Item : Append(<<>>, x) \in Seq(Item)
        BY EmptySeq, AppendProperties
  <2> QED BY <2>1, ConcatEmptySeq
<1>7. CASE StartOk(s)
  <2>1. buf'[s] = Nothing /\ chan'[s] = <<>> /\ got'[s] = <<>> /\ devLost' = devLost
        BY <1>3, <1>7 DEF StartOk
  <2> QED BY <1>4, <1>6, <2>1, PipelineNext
<1>8. CASE StartBadLength(s)
  <2>1. /\ kind[s] = "async" /\ buf'[s] = Fail("InvalidParameter") /\ chan'[s] = <<>>
        /\ got'[s] = <<>> /\ devLost' = devLost /\ pc'[s] = "returning" /\ kind' = kind
        BY <1>1, <1>3, <1>8 DEF StartBadLength, TypeOK
  <2>2. ~Gone(s)' /\ buf'[s] # Nothing
        BY <2>1, ItemFacts DEF Gone, Streams, Errors
  <2>3. Pipeline(s)' = Append(<<>>, Fail("InvalidParameter"))
        BY <1>6, <2>1, <2>2, PipelineNext
  <2> QED BY <1>5, <2>1, <2>3 DEF Errors, NoErrorYet, NothingYet
<1>9. CASE StartBusy(s) /\ kind[s] = "iter_samples"
  <2>1. buf'[s] = Nothing /\ chan'[s] = <<>> /\ got'[s] = <<>> /\ devLost' = devLost
        BY <1>3, <1>9 DEF StartBusy
  <2> QED BY <1>4, <1>6, <2>1, PipelineNext
<1>10. CASE \/ StartBusy(s) /\ kind[s] # "iter_samples"
            \/ StartNoRuntime(s) \/ IterNextDeferred(s)
  <2>1. PICK e \in {"DeviceBusy", "InvalidParameter"} :
            Observe(s, Fail(e)) /\ pc'[s] \in {"done", "fused"}
        BY <1>1, <1>10 DEF StartBusy, StartNoRuntime, IterNextDeferred, TypeOK
  <2>2. buf' = buf /\ chan' = chan /\ devLost' = devLost
        BY <1>10 DEF StartBusy, StartNoRuntime, IterNextDeferred
  <2>3. e \in Errors /\ e # "DeviceLost" /\ Fail(e) \in Item
        BY <2>1, ItemTypes DEF Errors
  <2>4. got'[s] = Append(<<>>, Fail(e))
        BY <1>1, <1>3, <2>1, <2>3, ItemFacts DEF Observe, TypeOK
  <2>5. Pipeline(s)' = Append(<<>>, Fail(e))
        BY <1>3, <1>6, <2>2, <2>3, <2>4, PipelineNext
  <2> QED BY <1>5, <2>1, <2>2, <2>3, <2>5 DEF NoErrorYet, NothingYet
<1> QED BY <1>7, <1>8, <1>9, <1>10 DEF Start

(* A transfer that completes, or fails, adds an item, unless nobody is     *)
(* there to have it.                                                       *)
LEMMA ReadSteps ==
    ASSUME DInv, TypeOK', BufAtPC', NEW s \in Sessions,
           ReadChunk(s) \/ \E e \in ReadErrors : ReadFailed(s, e)
    PROVE  DeliveryAt(s)'
<1> USE DEF Goto, SetBuf, device, consumer
<1>1. TypeOK /\ BufAtPC /\ DeliveryAt(s) /\ Acts(s)
      BY DEF DInv, IInv, TypeInv, DeliveryInv, Acts, Thread
<1>2. pc[s] = "reading" /\ guard[s] /\ buf[s] = Nothing /\ pc[s] \in NoErrorYet
      BY <1>1 DEF DInv, IInv, GuardAtPC, Holding, BufAtPC, ReadChunk, ReadFailed, NoErrorYet
<1>3. /\ kind' = kind /\ rx' = rx /\ guard' = guard /\ chan' = chan /\ got' = got
      /\ Gone(s)' = Gone(s) /\ (devLost => devLost')
  <2>1. CASE ReadChunk(s)
        BY <2>1 DEF ReadChunk, Gone
  <2>2. ASSUME NEW e \in ReadErrors, ReadFailed(s, e)
        PROVE  /\ kind' = kind /\ rx' = rx /\ guard' = guard /\ chan' = chan /\ got' = got
               /\ Gone(s)' = Gone(s) /\ (devLost => devLost')
        BY <2>2 DEF ReadFailed, Gone
  <2> QED BY <2>1, <2>2
<1>4. Pipeline(s) = got[s] \o chan[s] /\ Pipeline(s) \in Seq(Item)
      BY <1>1, <1>2, PipelineNow
<1>5. devLost \in BOOLEAN /\ devLost' \in BOOLEAN /\ completed \in Nat
      BY <1>1 DEF TypeOK
<1>6. pc'[s] \in {"sending", "yielding", "returning", "callback", "ready"}
      BY <1>1 DEF TypeOK, ReadChunk, ReadFailed, Landing
<1>7. CASE Gone(s)
  <2>1. Pipeline(s)' = Pipeline(s)
        BY <1>3, <1>4, <1>7, PipelineNext
  <2>2. pc'[s] \in NoErrorYet => pc[s] \in NoErrorYet
        BY <1>2
  <2> QED BY <1>1, <1>3, <1>6, <1>7, <2>1, <2>2, Moves DEF NothingYet
<1>8. CASE ~Gone(s) /\ ReadChunk(s)
  <2>1. buf'[s] = Chunk(completed + 1) /\ completed' = completed + 1 /\ devLost' = devLost
        BY <1>1, <1>8 DEF ReadChunk, TypeOK
  <2>2. Pipeline(s)' = Append(Pipeline(s), Chunk(completed + 1))
        BY <1>3, <1>4, <1>5, <1>8, <2>1, ItemFacts, PipelineNext
  <2>3. InOrder(Pipeline(s), pc[s], TRUE, completed, devLost)
        BY <1>1, <1>2, <1>8 DEF DeliveryAt
  <2>4. InOrder(Append(Pipeline(s), Chunk(completed + 1)), pc'[s], TRUE, completed + 1, devLost)
        BY <1>2, <1>4, <1>5, <1>6, <2>3, InOrderChunk DEF NothingYet
  <2>5. (guard[s] /\ ~Gone(s))' = TRUE
        BY <1>2, <1>3, <1>8
  <2> QED BY <2>1, <2>2, <2>4, <2>5 DEF DeliveryAt
<1>9. ASSUME ~Gone(s), NEW e \in ReadErrors, ReadFailed(s, e)
      PROVE  DeliveryAt(s)'
  <2>1. completed' = completed /\ (e = "DeviceLost" => devLost')
        BY <1>9 DEF ReadFailed
  <2>2. CASE buf' = buf
    <3>1. Pipeline(s)' = Pipeline(s)
          BY <1>2, <1>3, <1>4, <2>2, PipelineNext
    <3> QED BY <1>1, <1>2, <1>3, <1>6, <1>9, <2>1, <3>1, Moves DEF NothingYet
  <2>3. CASE buf' # buf
    <3>1. buf'[s] = Fail(e) /\ pc'[s] = Landing(kind[s])
          BY <1>1, <1>9, <2>3 DEF ReadFailed, TypeOK
    <3>2. e \in Errors /\ pc'[s] \notin NoErrorYet
          BY <3>1 DEF Errors, Landing, NoErrorYet, NothingYet
    <3>3. Pipeline(s)' = Append(Pipeline(s), Fail(e))
          BY <1>3, <1>4, <1>9, <3>1, <3>2, ItemFacts, PipelineNext
    <3>4. Orderly(Pipeline(s)) /\ Healthy(Pipeline(s)) /\ Recorded(Pipeline(s), devLost)
          BY <1>1, <1>2 DEF DeliveryAt, InOrder
    <3>5. /\ Orderly(Pipeline(s)') /\ Recorded(Pipeline(s)', devLost')
          /\ Pipeline(s)'[Len(Pipeline(s)')].err # "none"
      <4> DEFINE q == Pipeline(s)
      <4>1. q \in Seq(Item) /\ Orderly(q) /\ Healthy(q) /\ Recorded(q, devLost)
            BY <1>4, <3>4
      <4> HIDE DEF q
      <4>2. /\ Orderly(Append(q, Fail(e))) /\ Recorded(Append(q, Fail(e)), devLost')
            /\ Append(q, Fail(e))[Len(Append(q, Fail(e)))].err # "none"
            BY <1>3, <1>5, <2>1, <3>2, <4>1, ErrorAppended
      <4> QED BY <3>3, <4>2 DEF q
    <3> QED BY <3>2, <3>5 DEF DeliveryAt, InOrder, NoErrorYet
  <2> QED BY <2>2, <2>3
<1> QED BY <1>7, <1>8, <1>9

LEMMA DropStreamStep ==
    ASSUME DInv, TypeOK', BufAtPC', NEW s \in Sessions, DropStream(s)
    PROVE  DeliveryAt(s)'
<1>1. TypeOK /\ BufAtPC /\ KindAtPC /\ DeliveryAt(s)
      BY DEF DInv, IInv, TypeInv, DeliveryInv
<1>2. /\ rx[s] /\ ~Gone(s) /\ Gone(s)' /\ chan'[s] = <<>> /\ got' = got /\ buf' = buf
      /\ pc' = pc /\ completed' = completed /\ devLost' = devLost
      BY <1>1 DEF DropStream, KindAtPC, Gone, TypeOK, device
<1>3. got[s] \in Seq(Item) /\ chan[s] \in Seq(Item) /\ buf[s] \in Item
      BY <1>1 DEF TypeOK
<1>4. Pipeline(s)' = got[s]
      BY <1>2, <1>3, PipelineNext, ConcatEmptySeq
<1>5. PICK r \in Seq(Item) : Pipeline(s) = got[s] \o r
  <2>1. CASE buf[s] = Nothing
        BY <1>1, <1>3, <2>1, PipelineNow
  <2>2. CASE buf[s] # Nothing
    <3>1. Append(chan[s], buf[s]) \in Seq(Item)
          BY <1>3, AppendProperties
    <3>2. Pipeline(s) = got[s] \o Append(chan[s], buf[s])
          BY <1>1, <1>2, <1>3, <2>2, PipelineNow, PutBehind
    <3> QED BY <3>1, <3>2
  <2> QED BY <2>1, <2>2
<1>6. Orderly(got[s]) /\ Recorded(got[s], devLost)
      BY <1>1, <1>3, <1>5, PrefixKeeps DEF DeliveryAt, InOrder
<1>7. /\ pc[s] \in NothingYet => got[s] = <<>>
      /\ pc[s] \in NoErrorYet => Healthy(got[s])
      BY <1>1, <1>3, <1>5, PrefixKeeps, ConcatEqualIffEmpty DEF DeliveryAt, InOrder
<1> QED BY <1>2, <1>4, <1>6, <1>7 DEF DeliveryAt, InOrder

LEMMA DeliveryStep == DInv /\ TypeOK' /\ BufAtPC' /\ [Next]_vars => DeliveryInv'
<1> SUFFICES ASSUME DInv, TypeOK', BufAtPC', [Next]_vars
             PROVE  \A t \in Sessions : DeliveryAt(t)'
    BY DEF DeliveryInv
<1>1. ASSUME NEW s \in Sessions, Acts(s)
      PROVE  DeliveryAt(s)'
  <2>1. CASE \/ SyncRead(s) \/ IterNext(s) \/ WorkerStart(s) \/ WorkerDiscard(s) \/ StreamHead(s)
             \/ AsyncHead(s) \/ ReadZero(s) \/ DropWorkerGuard(s) \/ DropSender(s) \/ DropIter(s)
             \/ IterNextFused(s) \/ RecvEnd(s) \/ SetCancel(s)
        BY <2>1, QuietSteps
  <2>2. CASE Return(s) \/ Yield(s) \/ Callback(s) \/ Send(s) \/ SendClosed(s) \/ Recv(s)
        BY <2>2, HandOverSteps
  <2>3. CASE Start(s) \/ IterNextDeferred(s)
        BY <2>3, StartSteps
  <2>4. CASE ReadChunk(s) \/ \E e \in ReadErrors : ReadFailed(s, e)
        BY <2>4, ReadSteps
  <2>5. CASE DropStream(s)
        BY <2>5, DropStreamStep
  <2> QED BY <1>1, <2>1, <2>2, <2>3, <2>4, <2>5 DEF Acts, Thread, Consume
<1>2. ASSUME NEW s \in Sessions, Acts(s), NEW t \in Sessions
      PROVE  DeliveryAt(t)'
  <2>1. CASE t = s
        BY <1>1, <1>2, <2>1
  <2>2. CASE t # s
        BY <1>2, <2>2, OthersInOrder
  <2> QED BY <2>1, <2>2
<1>3. ASSUME Unplug \/ AllDone \/ UNCHANGED vars, NEW t \in Sessions
      PROVE  DeliveryAt(t)'
  <2>1. UNCHANGED <<devLost, completed, kind, pc, guard, buf, chan, rx, got>>
        BY <1>3 DEF Unplug, AllDone, vars, device, consumer
  <2>2. Pipeline(t)' = Pipeline(t) /\ Gone(t)' = Gone(t)
        BY <2>1 DEF Pipeline, Gone
  <2> QED BY <2>1, <2>2 DEF DInv, DeliveryInv, DeliveryAt
<1> QED BY <1>2, <1>3 DEF Next, Acts

LEMMA DeliveryInit == Init => BufAtPC /\ DeliveryInv
<1> SUFFICES ASSUME Init
             PROVE  BufAtPC /\ DeliveryInv
    OBVIOUS
<1>1. BufAtPC
      BY ItemFacts DEF Init, BufAtPC
<1>2. ASSUME NEW s \in Sessions
      PROVE  DeliveryAt(s)
  <2>1. Pipeline(s) = <<>>
    <3>1. TypeOK
          BY TypeInit
    <3>2. got[s] = <<>> /\ chan[s] = <<>> /\ buf[s] = Nothing
          BY DEF Init
    <3>3. <<>> \o <<>> = <<>>
          BY EmptySeq, ConcatEmptySeq
    <3> QED BY <1>1, <3>1, <3>2, <3>3, PipelineNow
  <2>2. Len(<<>>) = 0
        BY EmptySeq
  <2> QED BY <2>1, <2>2 DEF DeliveryAt, InOrder, Orderly, Healthy, Recorded
<1> QED BY <1>1, <1>2 DEF DeliveryInv

LEMMA DeliveryInvariant == Spec => [](TypeOK /\ BufAtPC /\ DeliveryInv)
<1>1. Init => BufAtPC /\ DeliveryInv
      BY DeliveryInit
<1>2. IInv /\ IInv' /\ BufAtPC /\ DeliveryInv /\ [Next]_vars => BufAtPC' /\ DeliveryInv'
  <2>1. IInv' => TypeOK'
        BY DEF IInv, TypeInv
  <2> QED BY <2>1, BufAtPCStep, DeliveryStep DEF DInv
<1>3. IInv => TypeOK
      BY DEF IInv, TypeInv
<1> QED BY <1>1, <1>2, <1>3, InductiveInvariant, PTL DEF Spec

(* A session hands over consecutive transfers: no chunk is stolen by       *)
(* another session, lost to a full channel, repeated or overtaken.         *)
THEOREM NoGapInSamples == Spec => []SamplesContiguous
<1>1. TypeOK /\ BufAtPC /\ DeliveryInv => SamplesContiguous
  <2> SUFFICES ASSUME TypeOK, BufAtPC, DeliveryInv, NEW s \in Sessions,
                      NEW i \in 1..(Len(Pipeline(s)) - 1),
                      Pipeline(s)[i].err = "none", Pipeline(s)[i + 1].err = "none"
               PROVE  Pipeline(s)[i + 1].chunk = Pipeline(s)[i].chunk + 1
      BY DEF SamplesContiguous
  <2> QED BY DEF DeliveryInv, DeliveryAt, InOrder, Orderly
<1> QED BY <1>1, DeliveryInvariant, PTL

(* An error is the last item of its session: nothing is read, queued or    *)
(* delivered after it.                                                     *)
THEOREM ErrorEndsSession == Spec => []ErrorIsLast
<1>1. TypeOK /\ BufAtPC /\ DeliveryInv => ErrorIsLast
  <2> SUFFICES ASSUME TypeOK, BufAtPC, DeliveryInv, NEW s \in Sessions,
                      NEW i \in 1..Len(Pipeline(s)), Pipeline(s)[i].err # "none"
               PROVE  i = Len(Pipeline(s)) /\ pc[s] \notin {"ready", "reading", "held"}
      BY DEF ErrorIsLast
  <2>1. Len(Pipeline(s)) \in Nat
        BY PipelineNow
  <2>2. Orderly(Pipeline(s)) /\ (pc[s] \in NoErrorYet => Healthy(Pipeline(s)))
        BY DEF DeliveryInv, DeliveryAt, InOrder
  <2>3. i = Len(Pipeline(s))
        BY <2>1, <2>2 DEF Orderly
  <2>4. pc[s] \notin NoErrorYet
        BY <2>2 DEF Healthy
  <2> QED BY <2>3, <2>4 DEF NoErrorYet
<1> QED BY <1>1, DeliveryInvariant, PTL

(* The lost-device flag is set before anybody can learn of the error.      *)
THEOREM LossIsRecorded == Spec => []DeviceLostRecorded
<1>1. TypeOK /\ BufAtPC /\ DeliveryInv => DeviceLostRecorded
      BY DEF DeliveryInv, DeliveryAt, InOrder, Recorded, DeviceLostRecorded
<1> QED BY <1>1, DeliveryInvariant, PTL
=============================================================================
