-------------------------- MODULE StreamQueueProofs --------------------------
(***************************************************************************)
(* Proofs about StreamQueue, for any finite set of nodes, any buffers and  *)
(* releasing threads and any set of failing calls.  The inductive          *)
(* invariant IInv says where each node is, who owns each loan, and what    *)
(* each thread knows between two of its critical sections.  On it rest     *)
(* StopInv (the stop flag), OrderlyInv (opening and closing in order), the *)
(* two accounts of the loans, and the refinement of FrameLoan.             *)
(***************************************************************************)
EXTENDS StreamQueue, SequenceTheorems, FiniteSetTheorems, TLAPS

\* The callback's frame is set exactly while it is being handled.
CbInv == /\ cb = "idle" <=> cbBuf = NoBuf
         /\ cbBuf # NoBuf => loan[cbBuf] = "lent"

\* The stream thread has a node in hand between Dequeue and Dispatch; nobody
\* owes a release for it yet.  A forced removal finds an empty list.
ThrInv == /\ thr \in {"store", "dispatch"} => cur \in Nodes
          /\ cur # NoNode => owed[cur] = 0
          /\ thr = "force" => releaseList = {}

\* A releaser has a node exactly while it gives one back, and holds
\* release_stream_mutex exactly between the halves of the removal.
RelInv == \A r \in Releasers : /\ rel[r] # "idle" <=> relNode[r] # NoNode
                               /\ rel[r] = "push" <=> releaseLock = r

\* The count of a dispatched node is what the application owes for it, so the
\* decrement never goes below zero.
CountInv == \A n \in Nodes : owed[n] > 0 => counter[n] = owed[n]

IInv == /\ TypeOK /\ CbInv /\ ThrInv /\ RelInv /\ CountInv
        /\ NodesApart /\ LoansDistinct /\ HeldFramesPinned
-----------------------------------------------------------------------------
(* recv_queue as a set: what its two operations do to Queued.              *)

RangeOf(s) == {s[i] : i \in DOMAIN s}
NoRepeat(s) == \A i, j \in DOMAIN s : s[i] = s[j] => i = j

\* push_recv_queue adds one node and repeats none.
LEMMA AppendRange ==
    ASSUME NEW S, NEW s \in Seq(S), NEW e \in S, e \notin RangeOf(s), NoRepeat(s)
    PROVE  /\ Append(s, e) \in Seq(S)
           /\ RangeOf(Append(s, e)) = RangeOf(s) \cup {e}
           /\ NoRepeat(Append(s, e))
<1>1. /\ Append(s, e) \in Seq(S)
      /\ DOMAIN s = 1 .. Len(s) /\ Len(s) \in Nat
      /\ DOMAIN Append(s, e) = 1 .. Len(s) + 1
      /\ \A i \in 1 .. Len(s) : Append(s, e)[i] = s[i]
      /\ Append(s, e)[Len(s) + 1] = e
  BY AppendProperties, LenProperties
<1>2. RangeOf(Append(s, e)) = RangeOf(s) \cup {e}
  BY <1>1 DEF RangeOf
<1>3. NoRepeat(Append(s, e))
  BY <1>1 DEF RangeOf, NoRepeat
<1>4. QED BY <1>1, <1>2, <1>3

\* pop_recv_queue removes its head and nothing else.
LEMMA TailRange ==
    ASSUME NEW S, NEW s \in Seq(S), s # <<>>, NoRepeat(s)
    PROVE  /\ Head(s) \in RangeOf(s) /\ Head(s) \in S
           /\ Tail(s) \in Seq(S)
           /\ RangeOf(Tail(s)) = RangeOf(s) \ {Head(s)}
           /\ NoRepeat(Tail(s))
<1>1. /\ Head(s) = s[1] /\ Head(s) \in S
      /\ Tail(s) \in Seq(S)
      /\ Len(s) \in Nat /\ Len(s) > 0
      /\ DOMAIN s = 1 .. Len(s)
      /\ DOMAIN Tail(s) = 1 .. Len(s) - 1
      /\ \A i \in 1 .. Len(s) - 1 : Tail(s)[i] = s[i + 1]
  BY HeadTailProperties, LenProperties, EmptySeq, ElementOfSeq
<1>2. Head(s) \in RangeOf(s)
  BY <1>1 DEF RangeOf
<1>3. RangeOf(Tail(s)) = RangeOf(s) \ {Head(s)}
  <2>1. ASSUME NEW x \in RangeOf(Tail(s)) PROVE x \in RangeOf(s) \ {Head(s)}
    <3>1. PICK i \in 1 .. Len(s) - 1 : x = Tail(s)[i]
      BY <1>1 DEF RangeOf
    <3>2. i + 1 \in 1 .. Len(s) /\ x = s[i + 1] /\ 1 \in 1 .. Len(s)
      BY <1>1, <3>1
    <3>3. QED BY <1>1, <3>2 DEF RangeOf, NoRepeat
  <2>2. ASSUME NEW x \in RangeOf(s), x # Head(s) PROVE x \in RangeOf(Tail(s))
    <3>1. PICK i \in 1 .. Len(s) : x = s[i]
      BY <1>1 DEF RangeOf
    <3>2. i - 1 \in 1 .. Len(s) - 1 /\ Tail(s)[i - 1] = x
      BY <1>1, <2>2, <3>1
    <3>3. QED BY <1>1, <3>2 DEF RangeOf
  <2>3. QED BY <2>1, <2>2
<1>4. NoRepeat(Tail(s))
  <2>1. SUFFICES ASSUME NEW i \in 1 .. Len(s) - 1, NEW j \in 1 .. Len(s) - 1,
                        Tail(s)[i] = Tail(s)[j]
                 PROVE  i = j
    BY <1>1 DEF NoRepeat
  <2>2. s[i + 1] = s[j + 1] /\ i + 1 \in DOMAIN s /\ j + 1 \in DOMAIN s
    BY <1>1, <2>1
  <2>3. QED BY <2>2 DEF NoRepeat
<1>5. QED BY <1>1, <1>2, <1>3, <1>4

\* The same, said of recv_queue.
LEMMA EnqueueQueued ==
    ASSUME TypeOK, NodesApart, NEW n \in pool, recvQueue' = PushRecvQueue(n)
    PROVE  /\ recvQueue' \in Seq(Nodes) /\ Queued' = Queued \cup {n}
           /\ \A i, j \in DOMAIN recvQueue' : recvQueue'[i] = recvQueue'[j] => i = j
<1>1. recvQueue \in Seq(Nodes) /\ n \in Nodes /\ n \notin RangeOf(recvQueue) /\ NoRepeat(recvQueue)
  BY DEF TypeOK, NodesApart, Queued, RangeOf, NoRepeat
<1>2. recvQueue' = Append(recvQueue, n)
  BY DEF PushRecvQueue
<1>3. /\ Append(recvQueue, n) \in Seq(Nodes) /\ NoRepeat(Append(recvQueue, n))
      /\ RangeOf(Append(recvQueue, n)) = RangeOf(recvQueue) \cup {n}
  BY <1>1, AppendRange
<1>4. QED BY <1>2, <1>3 DEF Queued, RangeOf, NoRepeat

LEMMA DequeueQueued ==
    ASSUME TypeOK, NodesApart, recvQueue # <<>>, recvQueue' = Tail(recvQueue)
    PROVE  /\ recvQueue' \in Seq(Nodes) /\ Head(recvQueue) \in Queued
           /\ Head(recvQueue) \in Nodes
           /\ Queued' = Queued \ {Head(recvQueue)}
           /\ \A i, j \in DOMAIN recvQueue' : recvQueue'[i] = recvQueue'[j] => i = j
<1>1. recvQueue \in Seq(Nodes) /\ NoRepeat(recvQueue)
  BY DEF TypeOK, NodesApart, NoRepeat
<1>2. /\ Tail(recvQueue) \in Seq(Nodes) /\ Head(recvQueue) \in RangeOf(recvQueue)
      /\ Head(recvQueue) \in Nodes /\ NoRepeat(Tail(recvQueue))
      /\ RangeOf(Tail(recvQueue)) = RangeOf(recvQueue) \ {Head(recvQueue)}
  BY <1>1, TailRange
<1>3. QED BY <1>2 DEF Queued, RangeOf, NoRepeat

\* A step that makes no node live and touches no live node's frame keeps the
\* loans distinct.
LEMMA FewerLive ==
    ASSUME LoansDistinct, Live' \subseteq Live, \A n \in Live' : buf'[n] = buf[n],
           loan' = loan, cbBuf' = cbBuf
    PROVE  LoansDistinct'
BY DEF LoansDistinct

\* The steps of the main thread that leave the lists and the frames alone.
LEMMA MainTypes ==
    ASSUME TypeOK, UNCHANGED <<lists, frames, cbVars, cur, relVars, filled, opens>>, thr' \in ThrStates,
           main' \in MainStates, cbOn' \in BOOLEAN, unclean' \in BOOLEAN, stopFlag' \in BOOLEAN
    PROVE  TypeOK'
BY DEF TypeOK, lists, frames, cbVars, relVars

\* What the application still owes is live.
LEMMA OwedLive == IInv => \A n \in Nodes : owed[n] > 0 => n \in Live
<1> SUFFICES ASSUME IInv, NEW n \in Nodes, owed[n] > 0 PROVE n \in Live
  OBVIOUS
<1>1. n \in releaseList
  BY DEF IInv, HeldFramesPinned
<1>2. owed[n] # 0
  OBVIOUS
<1>3. ~\E r \in Releasers : Done(r) /\ relNode[r] = n
  BY <1>2 DEF IInv, NodesApart, Done
<1> QED BY <1>1, <1>3 DEF Live
-----------------------------------------------------------------------------
\* No step breaks the invariant.
LEMMA Inductive == IInv /\ [Next]_vars => IInv'
<1> SUFFICES ASSUME IInv, [Next]_vars PROVE IInv'
  OBVIOUS
<1> USE NoneAssumption DEF lists, frames, cbVars, thrVars, relVars, mainVars
<1>1. ASSUME NEW b \in Buffers, RtosSend(b) PROVE IInv'
  <2>1. TypeOK'
    BY <1>1 DEF IInv, TypeOK, ThrInv, RelInv, NodesApart, Kinds, ThrStates, MainStates, RtosSend
  <2>2. CbInv'
    BY <1>1 DEF IInv, TypeOK, CbInv, NodesApart, LoansDistinct, Live, RtosSend
  <2>3. ThrInv'
    BY <1>1 DEF IInv, TypeOK, ThrInv, NodesApart, HeldFramesPinned, Queued, RtosSend
  <2>4. RelInv'
    BY <1>1 DEF IInv, TypeOK, RelInv, ThrInv, RtosSend
  <2>5. NodesApart'
    BY <1>1 DEF IInv, TypeOK, ThrInv, RelInv, NodesApart, HeldFramesPinned, Queued, RtosSend
  <2>6. LoansDistinct'
    BY <1>1 DEF IInv, TypeOK, CbInv, ThrInv, RelInv, NodesApart, LoansDistinct, Live, Done, Queued, RtosSend
  <2>7. HeldFramesPinned'
    BY <1>1 DEF IInv, TypeOK, CbInv, ThrInv, RelInv, NodesApart, LoansDistinct, HeldFramesPinned, Live, Done, RtosSend
  <2>8. CountInv'
    BY <1>1 DEF IInv, TypeOK, ThrInv, RelInv, NodesApart, CountInv, RtosSend
  <2> QED BY <2>1, <2>2, <2>3, <2>4, <2>5, <2>6, <2>7, <2>8 DEF IInv
<1>2. CASE Enqueue
  <2> PICK node \in pool : /\ pool' = pool \ {node} /\ recvQueue' = PushRecvQueue(node)
                           /\ buf' = [buf EXCEPT ![node] = cbBuf]
    BY <1>2 DEF Enqueue
  <2>q. /\ recvQueue' \in Seq(Nodes) /\ Queued' = Queued \cup {node}
        /\ \A i, j \in DOMAIN recvQueue' : recvQueue'[i] = recvQueue'[j] => i = j
    BY EnqueueQueued DEF IInv
  <2>l. Live' = Live \cup {node} /\ node \notin Live
    BY <1>2, <2>q DEF Enqueue, SignalRecv, IInv, TypeOK, RelInv, NodesApart, Live, Done
  <2>m. /\ cb = "enqueue" /\ cbBuf \in Buffers /\ loan[cbBuf] = "lent" /\ loan' = loan
        /\ cbBuf' = NoBuf /\ node \in Nodes
        /\ buf'[node] = cbBuf /\ \A x \in Live : buf'[x] = buf[x]
    <3>1. node \in Nodes
      BY DEF IInv, TypeOK
    <3>2. cb = "enqueue" /\ cbBuf \in Buffers /\ loan[cbBuf] = "lent"
      BY <1>2 DEF Enqueue, IInv, TypeOK, CbInv
    <3>3. buf'[node] = cbBuf /\ \A x \in Live : buf'[x] = buf[x]
      BY <2>l, <3>1 DEF IInv, TypeOK, Live, Queued
    <3> QED BY <1>2, <3>1, <3>2, <3>3 DEF Enqueue, ReturnQueued
  <2>1. TypeOK'
    BY <1>2, <2>q DEF IInv, TypeOK, ThrInv, RelInv, NodesApart, Kinds, ThrStates, MainStates, Enqueue, Accepting, SignalRecv, ReturnQueued
  <2>2. CbInv'
    BY <1>2, <2>q DEF IInv, TypeOK, CbInv, NodesApart, LoansDistinct, Live, Enqueue, Accepting, SignalRecv, ReturnQueued
  <2>3. ThrInv'
    BY <1>2, <2>q DEF IInv, TypeOK, ThrInv, NodesApart, HeldFramesPinned, Enqueue, Accepting, SignalRecv, ReturnQueued
  <2>4. RelInv'
    BY <1>2, <2>q DEF IInv, TypeOK, RelInv, ThrInv, Enqueue, Accepting, SignalRecv, ReturnQueued
  <2>5. NodesApart'
    BY <1>2, <2>q DEF IInv, TypeOK, ThrInv, RelInv, NodesApart, HeldFramesPinned, Enqueue, Accepting, SignalRecv, ReturnQueued
  <2>6. LoansDistinct'
    BY <2>l, <2>m DEF IInv, LoansDistinct
  <2>7. HeldFramesPinned'
    BY <1>2, <2>q DEF IInv, TypeOK, CbInv, ThrInv, RelInv, NodesApart, LoansDistinct, HeldFramesPinned, Live, Done, Enqueue, Accepting, SignalRecv, ReturnQueued
  <2>8. CountInv'
    BY <1>2, <2>q DEF IInv, TypeOK, ThrInv, RelInv, NodesApart, CountInv, Enqueue, Accepting, SignalRecv, ReturnQueued
  <2> QED BY <2>1, <2>2, <2>3, <2>4, <2>5, <2>6, <2>7, <2>8 DEF IInv
<1>3. CASE NoRoom
  <2>1. TypeOK'
    BY <1>3 DEF IInv, TypeOK, ThrInv, RelInv, NodesApart, Kinds, ThrStates, MainStates, NoRoom, Accepting
  <2>2. CbInv'
    BY <1>3 DEF IInv, TypeOK, CbInv, NodesApart, LoansDistinct, Live, NoRoom, Accepting
  <2>3. ThrInv'
    BY <1>3 DEF IInv, TypeOK, ThrInv, NodesApart, HeldFramesPinned, Queued, NoRoom, Accepting
  <2>4. RelInv'
    BY <1>3 DEF IInv, TypeOK, RelInv, ThrInv, NoRoom, Accepting
  <2>5. NodesApart'
    BY <1>3 DEF IInv, TypeOK, ThrInv, RelInv, NodesApart, HeldFramesPinned, Queued, NoRoom, Accepting
  <2>6. LoansDistinct'
    BY <1>3 DEF IInv, TypeOK, CbInv, ThrInv, RelInv, NodesApart, LoansDistinct, Live, Done, Queued, NoRoom, Accepting
  <2>7. HeldFramesPinned'
    BY <1>3 DEF IInv, TypeOK, CbInv, ThrInv, RelInv, NodesApart, LoansDistinct, HeldFramesPinned, Live, Done, NoRoom, Accepting
  <2>8. CountInv'
    BY <1>3 DEF IInv, TypeOK, ThrInv, RelInv, NodesApart, CountInv, NoRoom, Accepting
  <2> QED BY <2>1, <2>2, <2>3, <2>4, <2>5, <2>6, <2>7, <2>8 DEF IInv
<1>4. CASE RefuseFrame
  <2>a. /\ cbBuf \in Buffers
        /\ \A b \in Buffers \ {cbBuf} : loan'[b] = loan[b]
        /\ Live' = Live /\ buf' = buf /\ cbBuf' = NoBuf
    BY <1>4 DEF RefuseFrame, ReleaseStream, IInv, TypeOK, CbInv, Live, Queued, Done
  <2>b. /\ loan' \in [Buffers -> {"rtos", "lent", "lost"}]
        /\ kind' \in [Buffers -> Kinds]
    BY <1>4 DEF RefuseFrame, ReleaseStream, IInv, TypeOK, Kinds
  <2>1. TypeOK'
    BY <1>4, <2>a, <2>b DEF RefuseFrame, IInv, TypeOK
  <2>2. CbInv'
    BY <1>4 DEF IInv, TypeOK, CbInv, NodesApart, LoansDistinct, Live, RefuseFrame, ReleaseStream
  <2>3. ThrInv'
    BY <1>4 DEF IInv, TypeOK, ThrInv, NodesApart, HeldFramesPinned, Queued, RefuseFrame, ReleaseStream
  <2>4. RelInv'
    BY <1>4 DEF IInv, TypeOK, RelInv, ThrInv, RefuseFrame, ReleaseStream
  <2>5. NodesApart'
    BY <1>4 DEF IInv, TypeOK, ThrInv, RelInv, NodesApart, HeldFramesPinned, Queued, RefuseFrame, ReleaseStream
  <2>6. LoansDistinct'
    BY <2>a DEF IInv, TypeOK, LoansDistinct
  <2>7. HeldFramesPinned'
    <3>1. \A m \in Nodes : owed[m] > 0 => m \in Live
      BY OwedLive
    <3>2. \A s \in Releasers : rel[s] = "send" => relNode[s] \in Live
      BY DEF IInv, TypeOK, NodesApart, Live, Done
    <3> QED BY <1>4, <2>a, <3>1, <3>2 DEF RefuseFrame, IInv, TypeOK, LoansDistinct, HeldFramesPinned
  <2>8. CountInv'
    BY <1>4 DEF IInv, TypeOK, ThrInv, RelInv, NodesApart, CountInv, RefuseFrame, ReleaseStream
  <2> QED BY <2>1, <2>2, <2>3, <2>4, <2>5, <2>6, <2>7, <2>8 DEF IInv
<1>5. CASE Dequeue
  <2>a. CASE recvQueue = <<>>
    <3>1. thr' \in {"drain", "waiting"} /\ thr = "dequeue" /\ UNCHANGED <<recvQueue, cur>>
      BY <1>5, <2>a DEF Dequeue
    <3>2. Live' = Live /\ Queued' = Queued
      BY <1>5, <3>1 DEF Dequeue, Live, Queued, Done
    <3>aa. TypeOK'
      BY <1>5, <3>1, <3>2 DEF Dequeue, IInv, TypeOK, ThrStates
    <3>bb. CbInv'
      BY <1>5, <3>1, <3>2 DEF Dequeue, IInv, TypeOK, CbInv, NodesApart, LoansDistinct
    <3>cc. ThrInv'
      BY <1>5, <3>1, <3>2 DEF Dequeue, IInv, TypeOK, ThrInv, NodesApart, HeldFramesPinned
    <3>dd. RelInv'
      BY <1>5, <3>1, <3>2 DEF Dequeue, IInv, TypeOK, RelInv, ThrInv
    <3>ee. NodesApart'
      BY <1>5, <3>1, <3>2 DEF Dequeue, IInv, TypeOK, ThrInv, RelInv, NodesApart, HeldFramesPinned
    <3>ff. LoansDistinct'
      BY <1>5, <3>1, <3>2, FewerLive DEF Dequeue, IInv
    <3>gg. HeldFramesPinned'
      BY <1>5, <3>1, <3>2 DEF Dequeue, IInv, TypeOK, CbInv, ThrInv, RelInv, NodesApart, LoansDistinct, HeldFramesPinned
    <3>hh. CountInv'
      BY <1>5, <3>1, <3>2 DEF Dequeue, IInv, TypeOK, ThrInv, RelInv, NodesApart, CountInv
    <3> QED BY <3>aa, <3>bb, <3>cc, <3>dd, <3>ee, <3>ff, <3>gg, <3>hh DEF IInv
  <2>b. CASE recvQueue # <<>>
    <3>q. /\ recvQueue' \in Seq(Nodes) /\ cur' = Head(recvQueue) /\ cur' \in Queued
          /\ cur' \in Nodes /\ Queued' = Queued \ {cur'} /\ thr' = "store" /\ thr = "dequeue"
          /\ \A i, j \in DOMAIN recvQueue' : recvQueue'[i] = recvQueue'[j] => i = j
      BY <1>5, <2>b, DequeueQueued DEF Dequeue, IInv
    <3>l. Live' = Live
      BY <1>5, <3>q DEF Dequeue, IInv, NodesApart, Live, Done
    <3>aa. TypeOK'
      BY <1>5, <3>q, <3>l DEF Dequeue, IInv, TypeOK, ThrStates
    <3>bb. CbInv'
      BY <1>5, <3>q, <3>l DEF Dequeue, IInv, TypeOK, CbInv, NodesApart, LoansDistinct
    <3>cc. ThrInv'
      BY <1>5, <3>q, <3>l DEF Dequeue, IInv, TypeOK, ThrInv, NodesApart, HeldFramesPinned
    <3>dd. RelInv'
      BY <1>5, <3>q, <3>l DEF Dequeue, IInv, TypeOK, RelInv, ThrInv
    <3>ee. NodesApart'
      BY <1>5, <3>q, <3>l, SMTT(30) DEF Dequeue, IInv, TypeOK, ThrInv, RelInv, NodesApart, HeldFramesPinned
    <3>ff. LoansDistinct'
      BY <1>5, <3>q, <3>l, FewerLive DEF Dequeue, IInv
    <3>gg. HeldFramesPinned'
      BY <1>5, <3>q, <3>l DEF Dequeue, IInv, TypeOK, CbInv, ThrInv, RelInv, NodesApart, LoansDistinct, HeldFramesPinned
    <3>hh. CountInv'
      BY <1>5, <3>q, <3>l DEF Dequeue, IInv, TypeOK, ThrInv, RelInv, NodesApart, CountInv
    <3> QED BY <3>aa, <3>bb, <3>cc, <3>dd, <3>ee, <3>ff, <3>gg, <3>hh DEF IInv
  <2> QED BY <2>a, <2>b
<1>6. CASE SpuriousWakeup
  <2>l. Live' = Live
    BY <1>6 DEF SpuriousWakeup, SignalRecv, Live, Queued, Done
  <2>1. TypeOK'
    BY <1>6 DEF IInv, TypeOK, ThrInv, RelInv, NodesApart, Kinds, ThrStates, MainStates, SpuriousWakeup
  <2>2. CbInv'
    BY <1>6 DEF IInv, TypeOK, CbInv, NodesApart, LoansDistinct, Live, SpuriousWakeup
  <2>3. ThrInv'
    BY <1>6 DEF IInv, TypeOK, ThrInv, NodesApart, HeldFramesPinned, Queued, SpuriousWakeup
  <2>4. RelInv'
    BY <1>6 DEF IInv, TypeOK, RelInv, ThrInv, SpuriousWakeup
  <2>5. NodesApart'
    BY <1>6 DEF IInv, TypeOK, ThrInv, RelInv, NodesApart, HeldFramesPinned, Queued, SpuriousWakeup
  <2>6. LoansDistinct'
    BY <1>6, <2>l, FewerLive DEF IInv, SpuriousWakeup
  <2>7. HeldFramesPinned'
    BY <1>6 DEF IInv, TypeOK, CbInv, ThrInv, RelInv, NodesApart, LoansDistinct, HeldFramesPinned, Live, Done, SpuriousWakeup
  <2>8. CountInv'
    BY <1>6 DEF IInv, TypeOK, ThrInv, RelInv, NodesApart, CountInv, SpuriousWakeup
  <2> QED BY <2>1, <2>2, <2>3, <2>4, <2>5, <2>6, <2>7, <2>8 DEF IInv
<1>7. CASE Store
  <2>1. TypeOK'
    BY <1>7 DEF IInv, TypeOK, ThrInv, RelInv, NodesApart, Kinds, ThrStates, MainStates, Store, DefaultCount
  <2>2. CbInv'
    BY <1>7 DEF IInv, TypeOK, CbInv, NodesApart, LoansDistinct, Live, Store, DefaultCount
  <2>3. ThrInv'
    BY <1>7 DEF IInv, TypeOK, ThrInv, NodesApart, HeldFramesPinned, Queued, Store, DefaultCount
  <2>4. RelInv'
    BY <1>7 DEF IInv, TypeOK, RelInv, ThrInv, Store, DefaultCount
  <2>5. NodesApart'
    BY <1>7 DEF IInv, TypeOK, ThrInv, RelInv, NodesApart, HeldFramesPinned, Queued, Store, DefaultCount
  <2>6. LoansDistinct'
    BY <1>7 DEF IInv, TypeOK, CbInv, ThrInv, RelInv, NodesApart, LoansDistinct, Live, Done, Queued, Store, DefaultCount
  <2>7. HeldFramesPinned'
    BY <1>7 DEF IInv, TypeOK, CbInv, ThrInv, RelInv, NodesApart, LoansDistinct, HeldFramesPinned, Live, Done, Store, DefaultCount
  <2>8. CountInv'
    BY <1>7 DEF IInv, TypeOK, ThrInv, RelInv, NodesApart, CountInv, Store, DefaultCount
  <2> QED BY <2>1, <2>2, <2>3, <2>4, <2>5, <2>6, <2>7, <2>8 DEF IInv
<1>8. CASE Dispatch
  <2>a. /\ cur \in releaseList /\ cur \in Nodes /\ cur \in Live
        /\ buf[cur] \in Buffers /\ loan[buf[cur]] = "lent"
    BY <1>8 DEF Dispatch, IInv, ThrInv, NodesApart, LoansDistinct, Live, Done
  <2>b. \/ owed' = owed /\ counter' = counter
        \/ \E k \in Nat : /\ counter' = [counter EXCEPT ![cur] = k]
                          /\ owed' = [owed EXCEPT ![cur] = k]
    BY <1>8, <2>a, CountAssumption DEF Dispatch, SetReleaseCount
  <2>c. /\ owed' \in [Nodes -> Nat] /\ counter' \in [Nodes -> Nat]
        /\ \A x \in Nodes \ {cur} : owed'[x] = owed[x] /\ counter'[x] = counter[x]
        /\ owed'[cur] = owed[cur] \/ owed'[cur] = counter'[cur]
    <3>1. CASE owed' = owed /\ counter' = counter
      BY <3>1 DEF IInv, TypeOK
    <3>2. ASSUME NEW k \in Nat, counter' = [counter EXCEPT ![cur] = k],
                 owed' = [owed EXCEPT ![cur] = k]
          PROVE  /\ owed' \in [Nodes -> Nat] /\ counter' \in [Nodes -> Nat]
                 /\ \A x \in Nodes \ {cur} : owed'[x] = owed[x] /\ counter'[x] = counter[x]
                 /\ owed'[cur] = counter'[cur]
      BY <2>a, <3>2 DEF IInv, TypeOK
    <3> QED BY <2>b, <3>1, <3>2
  <2>1. TypeOK'
    BY <1>8, <2>c DEF Dispatch, IInv, TypeOK, ThrStates
  <2>2. CbInv'
    BY <1>8, <2>a, <2>b DEF IInv, TypeOK, CbInv, NodesApart, LoansDistinct, Live, Dispatch, SetReleaseCount
  <2>3. ThrInv'
    BY <1>8, <2>a, <2>b DEF IInv, TypeOK, ThrInv, NodesApart, HeldFramesPinned, Queued, Dispatch, SetReleaseCount
  <2>4. RelInv'
    BY <1>8, <2>a, <2>b DEF IInv, TypeOK, RelInv, ThrInv, Dispatch, SetReleaseCount
  <2>5. NodesApart'
    BY <1>8, <2>a, <2>b DEF IInv, TypeOK, ThrInv, RelInv, NodesApart, HeldFramesPinned, Queued, Dispatch, SetReleaseCount
  <2>6. LoansDistinct'
    BY <1>8, <2>a, <2>b DEF IInv, TypeOK, CbInv, ThrInv, RelInv, NodesApart, LoansDistinct, Live, Done, Queued, Dispatch, SetReleaseCount
  <2>7. HeldFramesPinned'
    BY <1>8, <2>a, <2>b DEF Dispatch, IInv, TypeOK, HeldFramesPinned
  <2>8. CountInv'
    BY <2>a, <2>b, <2>c DEF IInv, TypeOK, ThrInv, CountInv
  <2> QED BY <2>1, <2>2, <2>3, <2>4, <2>5, <2>6, <2>7, <2>8 DEF IInv
<1>9. CASE Drain
  <2>1. TypeOK'
    BY <1>9 DEF IInv, TypeOK, ThrInv, RelInv, NodesApart, Kinds, ThrStates, MainStates, Drain, DrainDone
  <2>2. CbInv'
    BY <1>9 DEF IInv, TypeOK, CbInv, NodesApart, LoansDistinct, Live, Drain, DrainDone
  <2>3. ThrInv'
    BY <1>9 DEF IInv, TypeOK, ThrInv, NodesApart, HeldFramesPinned, Queued, Drain, DrainDone
  <2>4. RelInv'
    BY <1>9 DEF IInv, TypeOK, RelInv, ThrInv, Drain, DrainDone
  <2>5. NodesApart'
    BY <1>9 DEF IInv, TypeOK, ThrInv, RelInv, NodesApart, HeldFramesPinned, Queued, Drain, DrainDone
  <2>6. LoansDistinct'
    BY <1>9 DEF IInv, TypeOK, CbInv, ThrInv, RelInv, NodesApart, LoansDistinct, Live, Done, Queued, Drain, DrainDone
  <2>7. HeldFramesPinned'
    BY <1>9 DEF IInv, TypeOK, CbInv, ThrInv, RelInv, NodesApart, LoansDistinct, HeldFramesPinned, Live, Done, Drain, DrainDone
  <2>8. CountInv'
    BY <1>9 DEF IInv, TypeOK, ThrInv, RelInv, NodesApart, CountInv, Drain, DrainDone
  <2> QED BY <2>1, <2>2, <2>3, <2>4, <2>5, <2>6, <2>7, <2>8 DEF IInv
<1>10. CASE TimeoutFires
  <2>1. TypeOK'
    BY <1>10 DEF IInv, TypeOK, ThrInv, RelInv, NodesApart, Kinds, ThrStates, MainStates, TimeoutFires
  <2>2. CbInv'
    BY <1>10 DEF IInv, TypeOK, CbInv, NodesApart, LoansDistinct, Live, TimeoutFires
  <2>3. ThrInv'
    BY <1>10 DEF IInv, TypeOK, ThrInv, NodesApart, HeldFramesPinned, Queued, TimeoutFires
  <2>4. RelInv'
    BY <1>10 DEF IInv, TypeOK, RelInv, ThrInv, TimeoutFires
  <2>5. NodesApart'
    BY <1>10 DEF IInv, TypeOK, ThrInv, RelInv, NodesApart, HeldFramesPinned, Queued, TimeoutFires
  <2>6. LoansDistinct'
    BY <1>10 DEF IInv, TypeOK, CbInv, ThrInv, RelInv, NodesApart, LoansDistinct, Live, Done, Queued, TimeoutFires
  <2>7. HeldFramesPinned'
    BY <1>10 DEF IInv, TypeOK, CbInv, ThrInv, RelInv, NodesApart, LoansDistinct, HeldFramesPinned, Live, Done, TimeoutFires
  <2>8. CountInv'
    BY <1>10 DEF IInv, TypeOK, ThrInv, RelInv, NodesApart, CountInv, TimeoutFires
  <2> QED BY <2>1, <2>2, <2>3, <2>4, <2>5, <2>6, <2>7, <2>8 DEF IInv
<1>11. CASE TimeoutReturns
  <2>1. TypeOK'
    BY <1>11 DEF IInv, TypeOK, ThrInv, RelInv, NodesApart, Kinds, ThrStates, MainStates, TimeoutReturns, AfterTimeout
  <2>2. CbInv'
    BY <1>11 DEF IInv, TypeOK, CbInv, NodesApart, LoansDistinct, Live, TimeoutReturns, AfterTimeout
  <2>3. ThrInv'
    BY <1>11 DEF IInv, TypeOK, ThrInv, NodesApart, HeldFramesPinned, Queued, TimeoutReturns, AfterTimeout
  <2>4. RelInv'
    BY <1>11 DEF IInv, TypeOK, RelInv, ThrInv, TimeoutReturns, AfterTimeout
  <2>5. NodesApart'
    BY <1>11 DEF IInv, TypeOK, ThrInv, RelInv, NodesApart, HeldFramesPinned, Queued, TimeoutReturns, AfterTimeout
  <2>6. LoansDistinct'
    BY <1>11 DEF IInv, TypeOK, CbInv, ThrInv, RelInv, NodesApart, LoansDistinct, Live, Done, Queued, TimeoutReturns, AfterTimeout
  <2>7. HeldFramesPinned'
    BY <1>11 DEF IInv, TypeOK, CbInv, ThrInv, RelInv, NodesApart, LoansDistinct, HeldFramesPinned, Live, Done, TimeoutReturns, AfterTimeout
  <2>8. CountInv'
    BY <1>11 DEF IInv, TypeOK, ThrInv, RelInv, NodesApart, CountInv, TimeoutReturns, AfterTimeout
  <2> QED BY <2>1, <2>2, <2>3, <2>4, <2>5, <2>6, <2>7, <2>8 DEF IInv
<1>12. CASE ForceRemove
  <2>a. /\ releaseList = {} /\ releaseList' = {} /\ pool' = pool
        /\ buf' = buf /\ counter' = counter /\ thr = "force" /\ thr' = "exited"
    <3>1. releaseList = {} /\ releaseList' = {} /\ thr = "force" /\ thr' = "exited"
      BY <1>12 DEF ForceRemove, IInv, ThrInv
    <3>2. pool' = pool
      BY <1>12, <3>1 DEF ForceRemove
    <3>3. buf' = [x \in Nodes |-> buf[x]] /\ counter' = [x \in Nodes |-> counter[x]]
      BY <1>12, <3>1 DEF ForceRemove
    <3>4. buf' = buf /\ counter' = counter
      BY <3>3 DEF IInv, TypeOK
    <3> QED BY <3>1, <3>2, <3>4
  <2>u. UNCHANGED <<pool, releaseList, recvQueue, frames, stopFlag, cbVars, cur, relVars, mainVars,
                    unclean>>
    BY <1>12, <2>a DEF ForceRemove
  <2>l. Live' = Live
    BY <2>a, <2>u DEF Live, Queued, Done
  <2>1. TypeOK'
    BY <2>a, <2>u DEF IInv, TypeOK, ThrInv, RelInv, NodesApart, Kinds, ThrStates, MainStates
  <2>2. CbInv'
    BY <2>a, <2>u DEF IInv, TypeOK, CbInv, NodesApart, LoansDistinct, Live
  <2>3. ThrInv'
    BY <2>a, <2>u DEF IInv, TypeOK, ThrInv, NodesApart, HeldFramesPinned, Queued
  <2>4. RelInv'
    BY <2>a, <2>u DEF IInv, TypeOK, RelInv, ThrInv
  <2>5. NodesApart'
    BY <2>a, <2>u DEF IInv, TypeOK, ThrInv, RelInv, NodesApart, HeldFramesPinned, Queued
  <2>6. LoansDistinct'
    BY <2>l, <2>u, FewerLive DEF IInv
  <2>7. HeldFramesPinned'
    BY <2>u DEF IInv, HeldFramesPinned
  <2>8. CountInv'
    BY <2>a, <2>u DEF IInv, TypeOK, ThrInv, RelInv, NodesApart, CountInv
  <2> QED BY <2>1, <2>2, <2>3, <2>4, <2>5, <2>6, <2>7, <2>8 DEF IInv
<1>13. ASSUME NEW r \in Releasers, NEW n \in Nodes, CheckCounter(r, n) PROVE IInv'
  <2>a. /\ n \in releaseList /\ counter[n] = owed[n] /\ owed[n] \in Nat /\ owed[n] > 0
        /\ rel[r] = "idle" /\ releaseLock = NoOne
    BY <1>13 DEF CheckCounter, IInv, TypeOK, HeldFramesPinned, CountInv
  <2>b. /\ counter' = [counter EXCEPT ![n] = owed[n] - 1]
        /\ owed' = [owed EXCEPT ![n] = owed[n] - 1]
        /\ owed[n] - 1 \in Nat
        /\ UNCHANGED <<lists, buf, kind, loan, stopFlag, cbVars, thrVars, releaseLock, mainVars, unclean>>
    BY <1>13, <2>a DEF CheckCounter, MoreReleases
  <2>c. \/ UNCHANGED <<rel, relNode>>
        \/ /\ owed[n] = 1
           /\ rel' = [rel EXCEPT ![r] = "send"] /\ relNode' = [relNode EXCEPT ![r] = n]
    BY <1>13, <2>a DEF CheckCounter, MoreReleases
  <2>d. n # cur /\ \A s \in Releasers : relNode[s] # n
    <3>1. owed[n] # 0 /\ n # NoNode
      BY <2>a
    <3>2. n # cur
      BY <3>1 DEF IInv, ThrInv
    <3>3. ASSUME NEW s \in Releasers, relNode[s] = n PROVE FALSE
      BY <3>1, <3>3 DEF IInv, RelInv, NodesApart
    <3> QED BY <3>2, <3>3
  <2>l. Live' \subseteq Live
    BY <2>a, <2>b, <2>c DEF IInv, TypeOK, Live, Queued, Done
  <2>1. TypeOK'
    BY <2>a, <2>b, <2>c DEF IInv, TypeOK
  <2>2. CbInv'
    BY <2>b DEF IInv, CbInv
  <2>3. ThrInv'
    BY <2>b, <2>d DEF IInv, TypeOK, ThrInv
  <2>4. RelInv'
    BY <2>a, <2>b, <2>c DEF IInv, TypeOK, RelInv
  <2>5. NodesApart'
    <3>1. CASE UNCHANGED <<rel, relNode>>
      BY <2>a, <2>b, <2>d, <3>1 DEF IInv, TypeOK, RelInv, NodesApart, Queued
    <3>2. CASE /\ owed[n] = 1
               /\ rel' = [rel EXCEPT ![r] = "send"] /\ relNode' = [relNode EXCEPT ![r] = n]
      <4>1. owed'[n] = 0
        BY <2>b, <3>2 DEF IInv, TypeOK
      <4> QED BY <2>a, <2>b, <2>d, <3>2, <4>1 DEF IInv, TypeOK, RelInv, NodesApart, Queued
    <3> QED BY <2>c, <3>1, <3>2
  <2>6. LoansDistinct'
    BY <2>b, <2>l, FewerLive DEF IInv
  <2>7. HeldFramesPinned'
    <3>1. \A x \in Nodes : owed'[x] > 0 => owed[x] > 0
      BY <2>a, <2>b DEF IInv, TypeOK
    <3>2. \A s \in Releasers : rel'[s] = "send" => \/ rel[s] = "send" /\ relNode'[s] = relNode[s]
                                                \/ relNode'[s] = n
      BY <2>c DEF IInv, TypeOK
    <3> QED BY <2>a, <2>b, <3>1, <3>2 DEF IInv, TypeOK, HeldFramesPinned
  <2>8. CountInv'
    BY <2>b DEF IInv, TypeOK, CountInv
  <2> QED BY <2>1, <2>2, <2>3, <2>4, <2>5, <2>6, <2>7, <2>8 DEF IInv
<1>14. ASSUME NEW r \in Releasers, SendRelease(r) PROVE IInv'
  <2> DEFINE m == relNode[r]
  <2>a. m \in releaseList /\ m \in Nodes /\ rel[r] = "send" /\ owed[m] = 0
    BY <1>14 DEF SendRelease, IInv, TypeOK, NodesApart
  <2>b. m \in Live /\ buf[m] \in Buffers /\ buf[m] # cbBuf
    BY <2>a DEF IInv, NodesApart, LoansDistinct, Live, Done
  <2>c. /\ rel' = [rel EXCEPT ![r] = "remove"]
        /\ \E l \in {"rtos", "lost"} : loan' = [loan EXCEPT ![buf[m]] = l]
        /\ kind' = [kind EXCEPT ![buf[m]] = "frame"]
        /\ UNCHANGED <<lists, buf, counter, owed, stopFlag, cbVars, thrVars, relNode, releaseLock, mainVars, unclean>>
    BY <1>14 DEF SendRelease, ReleaseStream
  <2>l. Live' \subseteq Live \ {m}
    BY <2>a, <2>c DEF IInv, TypeOK, Live, Queued, Done
  <2>o. \A x \in Live \ {m} : loan'[buf[x]] = loan[buf[x]]
    BY <2>b, <2>c DEF IInv, TypeOK, LoansDistinct
  <2>1. TypeOK'
    BY <2>a, <2>c DEF IInv, TypeOK, Kinds
  <2>2. CbInv'
    BY <2>b, <2>c DEF IInv, TypeOK, CbInv
  <2>3. ThrInv'
    BY <2>c DEF IInv, ThrInv
  <2>4. RelInv'
    BY <2>a, <2>c DEF IInv, TypeOK, RelInv
  <2>5. NodesApart'
    BY <2>a, <2>c DEF IInv, TypeOK, NodesApart, Queued
  <2>6. LoansDistinct'
    BY <2>c, <2>l, <2>o DEF IInv, LoansDistinct
  <2>7. HeldFramesPinned'
    <3>1. \A x \in Nodes : owed[x] > 0 => x \in Live \ {m}
      BY <2>a, OwedLive
    <3>2. \A s \in Releasers \ {r} : rel[s] = "send" => relNode[s] \in Live \ {m}
      BY <2>a DEF IInv, TypeOK, NodesApart, Live, Done
    <3> QED BY <2>a, <2>c, <2>o, <3>1, <3>2 DEF IInv, TypeOK, HeldFramesPinned
  <2>8. CountInv'
    BY <2>c DEF IInv, CountInv
  <2> QED BY <2>1, <2>2, <2>3, <2>4, <2>5, <2>6, <2>7, <2>8 DEF IInv
<1>15. ASSUME NEW r \in Releasers, RemoveList(r) PROVE IInv'
  <2>l. Live' \subseteq Live
    BY <1>15 DEF RemoveList, IInv, TypeOK, RelInv, Live, Queued, Done
  <2>1. TypeOK'
    BY <1>15 DEF IInv, TypeOK, ThrInv, RelInv, NodesApart, Kinds, ThrStates, MainStates, RemoveList
  <2>2. CbInv'
    BY <1>15 DEF IInv, TypeOK, CbInv, NodesApart, LoansDistinct, Live, RemoveList
  <2>3. ThrInv'
    BY <1>15 DEF IInv, TypeOK, ThrInv, NodesApart, HeldFramesPinned, Queued, RemoveList
  <2>4. RelInv'
    BY <1>15 DEF IInv, TypeOK, RelInv, ThrInv, RemoveList
  <2>5. NodesApart'
    BY <1>15 DEF IInv, TypeOK, ThrInv, RelInv, NodesApart, HeldFramesPinned, Queued, RemoveList
  <2>6. LoansDistinct'
    BY <1>15, <2>l, FewerLive DEF IInv, RemoveList
  <2>7. HeldFramesPinned'
    BY <1>15 DEF IInv, TypeOK, CbInv, ThrInv, RelInv, NodesApart, LoansDistinct, HeldFramesPinned, Live, Done, RemoveList
  <2>8. CountInv'
    BY <1>15 DEF IInv, TypeOK, ThrInv, RelInv, NodesApart, CountInv, RemoveList
  <2> QED BY <2>1, <2>2, <2>3, <2>4, <2>5, <2>6, <2>7, <2>8 DEF IInv
<1>16. ASSUME NEW r \in Releasers, PushPool(r) PROVE IInv'
  <2>a. /\ relNode[r] \in Nodes /\ relNode[r] # cur
        /\ relNode[r] \notin Queued \cup releaseList
    BY <1>16 DEF PushPool, IInv, TypeOK, RelInv, NodesApart
  <2>b. relNode[r] \notin Live
    BY <1>16, <2>a DEF PushPool, Live, Done
  <2>l. Live' \subseteq Live \ {relNode[r]}
    <3>1. \A s \in Releasers : (Done(s))' => Done(s) /\ relNode'[s] = relNode[s]
      BY <1>16 DEF PushPool, IInv, TypeOK, Done
    <3>2. \A s \in Releasers \ {r} : (Done(s))' = Done(s) /\ relNode'[s] = relNode[s]
      BY <1>16 DEF PushPool, IInv, TypeOK, Done
    <3>3. thr' = "store" <=> thr = "store"
      BY <1>16 DEF PushPool
    <3> QED BY <1>16, <2>a, <3>2, <3>3 DEF PushPool, Live, Queued
  <2>1. TypeOK'
    BY <1>16 DEF IInv, TypeOK, ThrInv, RelInv, NodesApart, Kinds, ThrStates, MainStates, PushPool
  <2>2. CbInv'
    BY <1>16 DEF IInv, TypeOK, CbInv, NodesApart, LoansDistinct, Live, PushPool
  <2>3. ThrInv'
    BY <1>16 DEF IInv, TypeOK, ThrInv, NodesApart, HeldFramesPinned, Queued, PushPool
  <2>4. RelInv'
    BY <1>16 DEF IInv, TypeOK, RelInv, ThrInv, PushPool
  <2>5. NodesApart'
    BY <1>16 DEF IInv, TypeOK, ThrInv, RelInv, NodesApart, HeldFramesPinned, Queued, PushPool
  <2>6. LoansDistinct'
    BY <1>16, <2>l, FewerLive DEF IInv, TypeOK, PushPool
  <2>7. HeldFramesPinned'
    BY <1>16 DEF IInv, TypeOK, CbInv, ThrInv, RelInv, NodesApart, LoansDistinct, HeldFramesPinned, Live, Done, PushPool
  <2>8. CountInv'
    BY <1>16 DEF IInv, TypeOK, ThrInv, RelInv, NodesApart, CountInv, PushPool
  <2> QED BY <2>1, <2>2, <2>3, <2>4, <2>5, <2>6, <2>7, <2>8 DEF IInv
<1>17. CASE BeginInit
  <2>1. TypeOK'
    <3>1. TypeOK
      BY DEF IInv
    <3>2. opens' \in Nat /\ main' \in MainStates
      BY <1>17, <3>1 DEF BeginInit, MainStates, TypeOK
    <3>3. unclean' \in BOOLEAN
      <4>1. unclean' = TRUE \/ unclean' = unclean
        BY <1>17 DEF BeginInit
      <4> QED BY <3>1, <4>1 DEF TypeOK
    <3>4. UNCHANGED <<lists, frames, stopFlag, cbVars, thrVars, relVars, filled, cbOn>>
      BY <1>17 DEF BeginInit
    <3> QED BY <3>1, <3>2, <3>3, <3>4 DEF TypeOK
  <2>2. CbInv'
    BY <1>17 DEF IInv, TypeOK, CbInv, NodesApart, LoansDistinct, Live, BeginInit
  <2>3. ThrInv'
    BY <1>17 DEF IInv, TypeOK, ThrInv, NodesApart, HeldFramesPinned, Queued, BeginInit
  <2>4. RelInv'
    BY <1>17 DEF IInv, TypeOK, RelInv, ThrInv, BeginInit
  <2>5. NodesApart'
    BY <1>17 DEF IInv, TypeOK, ThrInv, RelInv, NodesApart, HeldFramesPinned, Queued, BeginInit
  <2>6. LoansDistinct'
    BY <1>17 DEF IInv, TypeOK, CbInv, ThrInv, RelInv, NodesApart, LoansDistinct, Live, Done, Queued, BeginInit
  <2>7. HeldFramesPinned'
    BY <1>17 DEF IInv, TypeOK, CbInv, ThrInv, RelInv, NodesApart, LoansDistinct, HeldFramesPinned, Live, Done, BeginInit
  <2>8. CountInv'
    BY <1>17 DEF IInv, TypeOK, ThrInv, RelInv, NodesApart, CountInv, BeginInit
  <2> QED BY <2>1, <2>2, <2>3, <2>4, <2>5, <2>6, <2>7, <2>8 DEF IInv
<1>18. CASE CheckLists
  <2>1. TypeOK'
    <3>1. TypeOK
      BY DEF IInv
    <3>2. UNCHANGED <<lists, frames, cbVars, cur, relVars, filled, opens>>
      BY <1>18 DEF CheckLists, thrVars
    <3>3. main' \in MainStates /\ thr' \in ThrStates
      BY <1>18, <3>1 DEF CheckLists, thrVars, MainStates, ThrStates, TypeOK
    <3>4. cbOn' \in BOOLEAN /\ unclean' \in BOOLEAN /\ stopFlag' \in BOOLEAN
      BY <1>18, <3>1 DEF CheckLists, TypeOK
    <3>5. QED BY <3>1, <3>2, <3>3, <3>4, MainTypes
  <2>2. CbInv'
    BY <1>18 DEF IInv, TypeOK, CbInv, NodesApart, LoansDistinct, Live, CheckLists
  <2>3. ThrInv'
    BY <1>18 DEF IInv, TypeOK, ThrInv, NodesApart, HeldFramesPinned, Queued, CheckLists
  <2>4. RelInv'
    BY <1>18 DEF IInv, TypeOK, RelInv, ThrInv, CheckLists
  <2>5. NodesApart'
    BY <1>18 DEF IInv, TypeOK, ThrInv, RelInv, NodesApart, HeldFramesPinned, Queued, CheckLists
  <2>6. LoansDistinct'
    BY <1>18 DEF IInv, TypeOK, CbInv, ThrInv, RelInv, NodesApart, LoansDistinct, Live, Done, Queued, CheckLists
  <2>7. HeldFramesPinned'
    BY <1>18 DEF IInv, TypeOK, CbInv, ThrInv, RelInv, NodesApart, LoansDistinct, HeldFramesPinned, Live, Done, CheckLists
  <2>8. CountInv'
    BY <1>18 DEF IInv, TypeOK, ThrInv, RelInv, NodesApart, CountInv, CheckLists
  <2> QED BY <2>1, <2>2, <2>3, <2>4, <2>5, <2>6, <2>7, <2>8 DEF IInv
<1>19. CASE FillPool
  <2>1. TypeOK'
    <3>1. pool' \subseteq Nodes /\ main' \in MainStates /\ unclean' \in BOOLEAN
      BY <1>19 DEF FillPool, Unallocated, MainStates, IInv, TypeOK
    <3>2. filled' \in 0 .. PoolSize
      BY <1>19, PoolAssumption DEF FillPool, IInv, TypeOK
    <3>3. UNCHANGED <<recvQueue, releaseList, frames, stopFlag, cbVars, thrVars, relVars, opens, cbOn>>
      BY <1>19 DEF FillPool
    <3> QED BY <3>1, <3>2, <3>3 DEF IInv, TypeOK
  <2>2. CbInv'
    BY <1>19 DEF IInv, TypeOK, CbInv, NodesApart, LoansDistinct, Live, FillPool, Unallocated
  <2>3. ThrInv'
    BY <1>19 DEF IInv, TypeOK, ThrInv, NodesApart, HeldFramesPinned, Queued, FillPool, Unallocated
  <2>4. RelInv'
    BY <1>19 DEF IInv, TypeOK, RelInv, ThrInv, FillPool, Unallocated
  <2>5. NodesApart'
    BY <1>19 DEF IInv, TypeOK, ThrInv, RelInv, NodesApart, HeldFramesPinned, Queued, FillPool, Unallocated
  <2>6. LoansDistinct'
    BY <1>19 DEF IInv, TypeOK, CbInv, ThrInv, RelInv, NodesApart, LoansDistinct, Live, Done, Queued, FillPool, Unallocated
  <2>7. HeldFramesPinned'
    BY <1>19 DEF IInv, TypeOK, CbInv, ThrInv, RelInv, NodesApart, LoansDistinct, HeldFramesPinned, Live, Done, FillPool, Unallocated
  <2>8. CountInv'
    BY <1>19 DEF IInv, TypeOK, ThrInv, RelInv, NodesApart, CountInv, FillPool, Unallocated
  <2> QED BY <2>1, <2>2, <2>3, <2>4, <2>5, <2>6, <2>7, <2>8 DEF IInv
<1>20. CASE ResetFlag
  <2>1. TypeOK'
    <3>1. TypeOK
      BY DEF IInv
    <3>2. UNCHANGED <<lists, frames, cbVars, cur, relVars, filled, opens>>
      BY <1>20 DEF ResetFlag, thrVars
    <3>3. main' \in MainStates /\ thr' \in ThrStates
      BY <1>20, <3>1 DEF ResetFlag, thrVars, MainStates, ThrStates, TypeOK
    <3>4. cbOn' \in BOOLEAN /\ unclean' \in BOOLEAN /\ stopFlag' \in BOOLEAN
      BY <1>20, <3>1 DEF ResetFlag, TypeOK
    <3>5. QED BY <3>1, <3>2, <3>3, <3>4, MainTypes
  <2>2. CbInv'
    BY <1>20 DEF IInv, TypeOK, CbInv, NodesApart, LoansDistinct, Live, ResetFlag
  <2>3. ThrInv'
    BY <1>20 DEF IInv, TypeOK, ThrInv, NodesApart, HeldFramesPinned, Queued, ResetFlag
  <2>4. RelInv'
    BY <1>20 DEF IInv, TypeOK, RelInv, ThrInv, ResetFlag
  <2>5. NodesApart'
    BY <1>20 DEF IInv, TypeOK, ThrInv, RelInv, NodesApart, HeldFramesPinned, Queued, ResetFlag
  <2>6. LoansDistinct'
    BY <1>20 DEF IInv, TypeOK, CbInv, ThrInv, RelInv, NodesApart, LoansDistinct, Live, Done, Queued, ResetFlag
  <2>7. HeldFramesPinned'
    BY <1>20 DEF IInv, TypeOK, CbInv, ThrInv, RelInv, NodesApart, LoansDistinct, HeldFramesPinned, Live, Done, ResetFlag
  <2>8. CountInv'
    BY <1>20 DEF IInv, TypeOK, ThrInv, RelInv, NodesApart, CountInv, ResetFlag
  <2> QED BY <2>1, <2>2, <2>3, <2>4, <2>5, <2>6, <2>7, <2>8 DEF IInv
<1>21. CASE CreateThread
  <2>l. Live' = Live
    BY <1>21 DEF CreateThread, Live, Queued, Done
  <2>1. TypeOK'
    <3>1. TypeOK
      BY DEF IInv
    <3>2. UNCHANGED <<lists, frames, cbVars, cur, relVars, filled, opens>>
      BY <1>21 DEF CreateThread, thrVars
    <3>3. main' \in MainStates /\ thr' \in ThrStates
      BY <1>21, <3>1 DEF CreateThread, thrVars, MainStates, ThrStates, TypeOK
    <3>4. cbOn' \in BOOLEAN /\ unclean' \in BOOLEAN /\ stopFlag' \in BOOLEAN
      BY <1>21, <3>1 DEF CreateThread, TypeOK
    <3>5. QED BY <3>1, <3>2, <3>3, <3>4, MainTypes
  <2>2. CbInv'
    BY <1>21 DEF IInv, TypeOK, CbInv, NodesApart, LoansDistinct, Live, CreateThread
  <2>3. ThrInv'
    BY <1>21 DEF IInv, TypeOK, ThrInv, NodesApart, HeldFramesPinned, Queued, CreateThread
  <2>4. RelInv'
    BY <1>21 DEF IInv, TypeOK, RelInv, ThrInv, CreateThread
  <2>5. NodesApart'
    BY <1>21 DEF IInv, TypeOK, ThrInv, RelInv, NodesApart, HeldFramesPinned, Queued, CreateThread
  <2>6. LoansDistinct'
    BY <1>21, <2>l, FewerLive DEF IInv, CreateThread
  <2>7. HeldFramesPinned'
    BY <1>21 DEF IInv, TypeOK, CbInv, ThrInv, RelInv, NodesApart, LoansDistinct, HeldFramesPinned, Live, Done, CreateThread
  <2>8. CountInv'
    BY <1>21 DEF IInv, TypeOK, ThrInv, RelInv, NodesApart, CountInv, CreateThread
  <2> QED BY <2>1, <2>2, <2>3, <2>4, <2>5, <2>6, <2>7, <2>8 DEF IInv
<1>22. CASE Register
  <2>1. TypeOK'
    <3>1. TypeOK
      BY DEF IInv
    <3>2. UNCHANGED <<lists, frames, cbVars, cur, relVars, filled, opens>>
      BY <1>22 DEF Register, thrVars
    <3>3. main' \in MainStates /\ thr' \in ThrStates
      BY <1>22, <3>1 DEF Register, thrVars, MainStates, ThrStates, TypeOK
    <3>4. cbOn' \in BOOLEAN /\ unclean' \in BOOLEAN /\ stopFlag' \in BOOLEAN
      BY <1>22, <3>1 DEF Register, TypeOK
    <3>5. QED BY <3>1, <3>2, <3>3, <3>4, MainTypes
  <2>2. CbInv'
    BY <1>22 DEF IInv, TypeOK, CbInv, NodesApart, LoansDistinct, Live, Register
  <2>3. ThrInv'
    BY <1>22 DEF IInv, TypeOK, ThrInv, NodesApart, HeldFramesPinned, Queued, Register
  <2>4. RelInv'
    BY <1>22 DEF IInv, TypeOK, RelInv, ThrInv, Register
  <2>5. NodesApart'
    BY <1>22 DEF IInv, TypeOK, ThrInv, RelInv, NodesApart, HeldFramesPinned, Queued, Register
  <2>6. LoansDistinct'
    BY <1>22 DEF IInv, TypeOK, CbInv, ThrInv, RelInv, NodesApart, LoansDistinct, Live, Done, Queued, Register
  <2>7. HeldFramesPinned'
    BY <1>22 DEF IInv, TypeOK, CbInv, ThrInv, RelInv, NodesApart, LoansDistinct, HeldFramesPinned, Live, Done, Register
  <2>8. CountInv'
    BY <1>22 DEF IInv, TypeOK, ThrInv, RelInv, NodesApart, CountInv, Register
  <2> QED BY <2>1, <2>2, <2>3, <2>4, <2>5, <2>6, <2>7, <2>8 DEF IInv
<1>23. CASE Abort
  <2>1. TypeOK'
    <3>1. TypeOK
      BY DEF IInv
    <3>2. UNCHANGED <<lists, frames, cbVars, cur, relVars, filled, opens>>
      BY <1>23 DEF Abort, thrVars
    <3>3. main' \in MainStates /\ thr' \in ThrStates
      BY <1>23, <3>1 DEF Abort, thrVars, MainStates, ThrStates, TypeOK
    <3>4. cbOn' \in BOOLEAN /\ unclean' \in BOOLEAN /\ stopFlag' \in BOOLEAN
      BY <1>23, <3>1 DEF Abort, TypeOK
    <3>5. QED BY <3>1, <3>2, <3>3, <3>4, MainTypes
  <2>2. CbInv'
    BY <1>23 DEF IInv, TypeOK, CbInv, NodesApart, LoansDistinct, Live, Abort
  <2>3. ThrInv'
    BY <1>23 DEF IInv, TypeOK, ThrInv, NodesApart, HeldFramesPinned, Queued, Abort
  <2>4. RelInv'
    BY <1>23 DEF IInv, TypeOK, RelInv, ThrInv, Abort
  <2>5. NodesApart'
    BY <1>23 DEF IInv, TypeOK, ThrInv, RelInv, NodesApart, HeldFramesPinned, Queued, Abort
  <2>6. LoansDistinct'
    BY <1>23 DEF IInv, TypeOK, CbInv, ThrInv, RelInv, NodesApart, LoansDistinct, Live, Done, Queued, Abort
  <2>7. HeldFramesPinned'
    BY <1>23 DEF IInv, TypeOK, CbInv, ThrInv, RelInv, NodesApart, LoansDistinct, HeldFramesPinned, Live, Done, Abort
  <2>8. CountInv'
    BY <1>23 DEF IInv, TypeOK, ThrInv, RelInv, NodesApart, CountInv, Abort
  <2> QED BY <2>1, <2>2, <2>3, <2>4, <2>5, <2>6, <2>7, <2>8 DEF IInv
<1>24. CASE StopThread
  <2>l. Live' = Live
    BY <1>24 DEF StopThread, SignalRecv, Live, Queued, Done
  <2>1. TypeOK'
    <3>1. TypeOK
      BY DEF IInv
    <3>2. UNCHANGED <<lists, frames, cbVars, cur, relVars, filled, opens>>
      BY <1>24 DEF StopThread, thrVars
    <3>3. main' \in MainStates /\ thr' \in ThrStates
      BY <1>24, <3>1 DEF StopThread, SignalRecv, thrVars, MainStates, ThrStates, TypeOK
    <3>4. cbOn' \in BOOLEAN /\ unclean' \in BOOLEAN /\ stopFlag' \in BOOLEAN
      BY <1>24, <3>1 DEF StopThread, TypeOK
    <3>5. QED BY <3>1, <3>2, <3>3, <3>4, MainTypes
  <2>2. CbInv'
    BY <1>24 DEF IInv, TypeOK, CbInv, NodesApart, LoansDistinct, Live, StopThread, SignalRecv
  <2>3. ThrInv'
    BY <1>24 DEF IInv, TypeOK, ThrInv, NodesApart, HeldFramesPinned, Queued, StopThread, SignalRecv
  <2>4. RelInv'
    BY <1>24 DEF IInv, TypeOK, RelInv, ThrInv, StopThread, SignalRecv
  <2>5. NodesApart'
    BY <1>24 DEF IInv, TypeOK, ThrInv, RelInv, NodesApart, HeldFramesPinned, Queued, StopThread, SignalRecv
  <2>6. LoansDistinct'
    BY <1>24, <2>l, FewerLive DEF IInv, StopThread
  <2>7. HeldFramesPinned'
    BY <1>24 DEF IInv, TypeOK, CbInv, ThrInv, RelInv, NodesApart, LoansDistinct, HeldFramesPinned, Live, Done, StopThread, SignalRecv
  <2>8. CountInv'
    BY <1>24 DEF IInv, TypeOK, ThrInv, RelInv, NodesApart, CountInv, StopThread, SignalRecv
  <2> QED BY <2>1, <2>2, <2>3, <2>4, <2>5, <2>6, <2>7, <2>8 DEF IInv
<1>25. CASE Join
  <2>1. TypeOK'
    <3>1. TypeOK
      BY DEF IInv
    <3>2. UNCHANGED <<lists, frames, cbVars, cur, relVars, filled, opens>>
      BY <1>25 DEF Join, thrVars
    <3>3. main' \in MainStates /\ thr' \in ThrStates
      BY <1>25, <3>1 DEF Join, thrVars, MainStates, ThrStates, TypeOK
    <3>4. cbOn' \in BOOLEAN /\ unclean' \in BOOLEAN /\ stopFlag' \in BOOLEAN
      BY <1>25, <3>1 DEF Join, TypeOK
    <3>5. QED BY <3>1, <3>2, <3>3, <3>4, MainTypes
  <2>2. CbInv'
    BY <1>25 DEF IInv, TypeOK, CbInv, NodesApart, LoansDistinct, Live, Join
  <2>3. ThrInv'
    BY <1>25 DEF IInv, TypeOK, ThrInv, NodesApart, HeldFramesPinned, Queued, Join
  <2>4. RelInv'
    BY <1>25 DEF IInv, TypeOK, RelInv, ThrInv, Join
  <2>5. NodesApart'
    BY <1>25 DEF IInv, TypeOK, ThrInv, RelInv, NodesApart, HeldFramesPinned, Queued, Join
  <2>6. LoansDistinct'
    BY <1>25 DEF IInv, TypeOK, CbInv, ThrInv, RelInv, NodesApart, LoansDistinct, Live, Done, Queued, Join
  <2>7. HeldFramesPinned'
    BY <1>25 DEF IInv, TypeOK, CbInv, ThrInv, RelInv, NodesApart, LoansDistinct, HeldFramesPinned, Live, Done, Join
  <2>8. CountInv'
    BY <1>25 DEF IInv, TypeOK, ThrInv, RelInv, NodesApart, CountInv, Join
  <2> QED BY <2>1, <2>2, <2>3, <2>4, <2>5, <2>6, <2>7, <2>8 DEF IInv
<1>26. CASE FinalizeCheck
  <2>1. TypeOK'
    <3>1. TypeOK
      BY DEF IInv
    <3>2. UNCHANGED <<lists, frames, cbVars, cur, relVars, filled, opens>>
      BY <1>26 DEF FinalizeCheck, thrVars
    <3>3. main' \in MainStates /\ thr' \in ThrStates
      BY <1>26, <3>1 DEF FinalizeCheck, thrVars, MainStates, ThrStates, TypeOK
    <3>4. cbOn' \in BOOLEAN /\ unclean' \in BOOLEAN /\ stopFlag' \in BOOLEAN
      BY <1>26, <3>1 DEF FinalizeCheck, TypeOK
    <3>5. QED BY <3>1, <3>2, <3>3, <3>4, MainTypes
  <2>2. CbInv'
    BY <1>26 DEF IInv, TypeOK, CbInv, NodesApart, LoansDistinct, Live, FinalizeCheck
  <2>3. ThrInv'
    BY <1>26 DEF IInv, TypeOK, ThrInv, NodesApart, HeldFramesPinned, Queued, FinalizeCheck
  <2>4. RelInv'
    BY <1>26 DEF IInv, TypeOK, RelInv, ThrInv, FinalizeCheck
  <2>5. NodesApart'
    BY <1>26 DEF IInv, TypeOK, ThrInv, RelInv, NodesApart, HeldFramesPinned, Queued, FinalizeCheck
  <2>6. LoansDistinct'
    BY <1>26 DEF IInv, TypeOK, CbInv, ThrInv, RelInv, NodesApart, LoansDistinct, Live, Done, Queued, FinalizeCheck
  <2>7. HeldFramesPinned'
    BY <1>26 DEF IInv, TypeOK, CbInv, ThrInv, RelInv, NodesApart, LoansDistinct, HeldFramesPinned, Live, Done, FinalizeCheck
  <2>8. CountInv'
    BY <1>26 DEF IInv, TypeOK, ThrInv, RelInv, NodesApart, CountInv, FinalizeCheck
  <2> QED BY <2>1, <2>2, <2>3, <2>4, <2>5, <2>6, <2>7, <2>8 DEF IInv
<1>27. CASE FreeNode
  <2>1. TypeOK'
    BY <1>27 DEF IInv, TypeOK, ThrInv, RelInv, NodesApart, Kinds, ThrStates, MainStates, FreeNode, MoreToFree
  <2>2. CbInv'
    BY <1>27 DEF IInv, TypeOK, CbInv, NodesApart, LoansDistinct, Live, FreeNode, MoreToFree
  <2>3. ThrInv'
    BY <1>27 DEF IInv, TypeOK, ThrInv, NodesApart, HeldFramesPinned, Queued, FreeNode, MoreToFree
  <2>4. RelInv'
    BY <1>27 DEF IInv, TypeOK, RelInv, ThrInv, FreeNode, MoreToFree
  <2>5. NodesApart'
    BY <1>27 DEF IInv, TypeOK, ThrInv, RelInv, NodesApart, HeldFramesPinned, Queued, FreeNode, MoreToFree
  <2>6. LoansDistinct'
    BY <1>27 DEF IInv, TypeOK, CbInv, ThrInv, RelInv, NodesApart, LoansDistinct, Live, Done, Queued, FreeNode, MoreToFree
  <2>7. HeldFramesPinned'
    BY <1>27 DEF IInv, TypeOK, CbInv, ThrInv, RelInv, NodesApart, LoansDistinct, HeldFramesPinned, Live, Done, FreeNode, MoreToFree
  <2>8. CountInv'
    BY <1>27 DEF IInv, TypeOK, ThrInv, RelInv, NodesApart, CountInv, FreeNode, MoreToFree
  <2> QED BY <2>1, <2>2, <2>3, <2>4, <2>5, <2>6, <2>7, <2>8 DEF IInv
<1>28. CASE Unregister
  <2>1. TypeOK'
    <3>1. TypeOK
      BY DEF IInv
    <3>2. UNCHANGED <<lists, frames, cbVars, cur, relVars, filled, opens>>
      BY <1>28 DEF Unregister, thrVars
    <3>3. main' \in MainStates /\ thr' \in ThrStates
      BY <1>28, <3>1 DEF Unregister, thrVars, MainStates, ThrStates, TypeOK
    <3>4. cbOn' \in BOOLEAN /\ unclean' \in BOOLEAN /\ stopFlag' \in BOOLEAN
      BY <1>28, <3>1 DEF Unregister, TypeOK
    <3>5. QED BY <3>1, <3>2, <3>3, <3>4, MainTypes
  <2>2. CbInv'
    BY <1>28 DEF IInv, TypeOK, CbInv, NodesApart, LoansDistinct, Live, Unregister
  <2>3. ThrInv'
    BY <1>28 DEF IInv, TypeOK, ThrInv, NodesApart, HeldFramesPinned, Queued, Unregister
  <2>4. RelInv'
    BY <1>28 DEF IInv, TypeOK, RelInv, ThrInv, Unregister
  <2>5. NodesApart'
    BY <1>28 DEF IInv, TypeOK, ThrInv, RelInv, NodesApart, HeldFramesPinned, Queued, Unregister
  <2>6. LoansDistinct'
    BY <1>28 DEF IInv, TypeOK, CbInv, ThrInv, RelInv, NodesApart, LoansDistinct, Live, Done, Queued, Unregister
  <2>7. HeldFramesPinned'
    BY <1>28 DEF IInv, TypeOK, CbInv, ThrInv, RelInv, NodesApart, LoansDistinct, HeldFramesPinned, Live, Done, Unregister
  <2>8. CountInv'
    BY <1>28 DEF IInv, TypeOK, ThrInv, RelInv, NodesApart, CountInv, Unregister
  <2> QED BY <2>1, <2>2, <2>3, <2>4, <2>5, <2>6, <2>7, <2>8 DEF IInv
<1>29. CASE UNCHANGED vars
  <2>l. Live' = Live
    BY <1>29 DEF vars, Live, Queued, Done
  <2>1. TypeOK'
    BY <1>29 DEF vars, Queued, IInv, TypeOK, ThrInv, RelInv, NodesApart, Kinds, ThrStates, MainStates
  <2>2. CbInv'
    BY <1>29 DEF vars, Queued, IInv, TypeOK, CbInv, NodesApart, LoansDistinct, Live
  <2>3. ThrInv'
    BY <1>29 DEF vars, Queued, IInv, TypeOK, ThrInv, NodesApart, HeldFramesPinned, Queued
  <2>4. RelInv'
    BY <1>29 DEF vars, Queued, IInv, TypeOK, RelInv, ThrInv
  <2>5. NodesApart'
    BY <1>29 DEF vars, Queued, IInv, TypeOK, ThrInv, RelInv, NodesApart, HeldFramesPinned, Queued
  <2>6. LoansDistinct'
    BY <1>29, <2>l, FewerLive DEF vars, IInv
  <2>7. HeldFramesPinned'
    BY <1>29 DEF vars, Queued, IInv, TypeOK, CbInv, ThrInv, RelInv, NodesApart, LoansDistinct, HeldFramesPinned, Live, Done
  <2>8. CountInv'
    BY <1>29 DEF vars, Queued, IInv, TypeOK, ThrInv, RelInv, NodesApart, CountInv
  <2> QED BY <2>1, <2>2, <2>3, <2>4, <2>5, <2>6, <2>7, <2>8 DEF IInv
<1> QED BY <1>1, <1>2, <1>3, <1>4, <1>5, <1>6, <1>7, <1>8, <1>9, <1>10, <1>11, <1>12,
           <1>13, <1>14, <1>15, <1>16, <1>17, <1>18, <1>19, <1>20, <1>21, <1>22, <1>23,
           <1>24, <1>25, <1>26, <1>27, <1>28, <1>29
           DEF Next, CallbackStep, ThreadStep, ReleaseStep, MainStep, InitStep, CloseStep
-----------------------------------------------------------------------------
LEMMA InitIInv == Init => IInv
<1> SUFFICES ASSUME Init PROVE IInv
  OBVIOUS
<1> USE NoneAssumption DEF Init
<1>0. Queued = {} /\ Live = {} /\ DOMAIN recvQueue = {}
  BY DEF Queued, Live
<1>1. TypeOK
  <2>1. recvQueue \in Seq(Nodes)
    BY EmptySeq
  <2>2. filled \in 0 .. PoolSize
    BY PoolAssumption
  <2> QED BY <2>1, <2>2 DEF TypeOK, Kinds, ThrStates, MainStates
<1>2. CbInv /\ ThrInv /\ RelInv /\ CountInv
  BY DEF CbInv, ThrInv, RelInv, CountInv
<1>3. NodesApart
  BY <1>0 DEF NodesApart
<1>4. LoansDistinct /\ HeldFramesPinned
  BY <1>0 DEF LoansDistinct, HeldFramesPinned
<1> QED BY <1>1, <1>2, <1>3, <1>4 DEF IInv

\* The invariant holds throughout: the induction behind the theorems below.
THEOREM Invariant == Spec => []IInv
<1>1. QED BY InitIInv, Inductive, PTL DEF Spec

\* Every variable keeps its type, for any pool and any number of threads.
THEOREM TypeCorrect == Spec => []TypeOK
<1>1. IInv => TypeOK
  BY DEF IInv
<1>2. QED BY <1>1, Invariant, PTL

\* A node of the pool is never in two lists or two hands at once, whatever the
\* interleaving of the callback, the stream thread, the releasers and a close.
THEOREM NodesStayApart == Spec => []NodesApart
<1>1. IInv => NodesApart
  BY DEF IInv
<1>2. QED BY <1>1, Invariant, PTL

\* No buffer has two paths back to the RTOS: it is released once per loan.
THEOREM OneReleasePerLoan == Spec => []LoansDistinct
<1>1. IInv => LoansDistinct
  BY DEF IInv
<1>2. QED BY <1>1, Invariant, PTL

\* Nothing, a close that times out included, takes node or buffer away from a
\* frame that the application still owes a release for.
THEOREM HeldFramesStay == Spec => []HeldFramesPinned
<1>1. IInv => HeldFramesPinned
  BY DEF IInv
<1>2. QED BY <1>1, Invariant, PTL

-----------------------------------------------------------------------------
(* The stop flag and the stream thread.                                    *)

\* What a step of the main thread leaves alone.
LEMMA MainSteps ==
    ASSUME BeginInit \/ StopThread \/ MainStep
    PROVE  /\ UNCHANGED <<recvQueue, releaseList, frames, cbVars, cur, relVars>>
           /\ \/ thr' = thr
              \/ thr \in {"none", "waiting"} /\ thr' = "dequeue"
              \/ thr = "exited" /\ thr' = "none"
<1> USE DEF lists, thrVars
<1>1. CASE BeginInit
  BY <1>1 DEF BeginInit
<1>2. CASE StopThread
  BY <1>2 DEF StopThread, SignalRecv
<1>3. CASE CheckLists \/ FillPool \/ ResetFlag
  BY <1>3 DEF CheckLists, FillPool, ResetFlag
<1>4. CASE CreateThread \/ Register \/ Abort
  BY <1>4 DEF CreateThread, Register, Abort
<1>5. CASE CloseStep
  BY <1>5 DEF CloseStep, Join, FinalizeCheck, FreeNode, Unregister
<1> QED BY <1>1, <1>2, <1>3, <1>4, <1>5 DEF MainStep, InitStep

\* The flag is set only for a thread that is about to be joined, and reset only
\* when there is none to be stopped.
StopInv ==
    /\ NothingQueuedAfterStop
    /\ cur # NoNode => thr \in {"store", "dispatch"}
    /\ stopFlag => thr = "none" \/ main = "join"
    /\ main = "create" => ~stopFlag

LEMMA StopNext ==
    ASSUME IInv, StopInv, [Next]_vars
    PROVE  StopInv'
<1> USE NoneAssumption DEF StopInv, NothingQueuedAfterStop, lists, frames, cbVars, thrVars, relVars,
        mainVars
<1>1. CASE CallbackStep
  BY <1>1 DEF CallbackStep, Enqueue, NoRoom, RefuseFrame, Accepting, SignalRecv, ReturnQueued
<1>2. CASE SpuriousWakeup
  BY <1>2 DEF SpuriousWakeup
<1>3. CASE Dequeue
  BY <1>3 DEF Dequeue
<1>4. CASE Store \/ Dispatch
  BY <1>4 DEF Store, Dispatch
<1>5. CASE Drain \/ TimeoutFires \/ TimeoutReturns \/ ForceRemove
  BY <1>5 DEF Drain, TimeoutFires, TimeoutReturns, ForceRemove, AfterTimeout
<1>6. CASE \E r \in Releasers : ReleaseStep(r) \/ \E n \in Nodes : CheckCounter(r, n)
  BY <1>6 DEF ReleaseStep, SendRelease, RemoveList, PushPool, CheckCounter
<1>7. CASE BeginInit
  BY <1>7 DEF BeginInit
<1>8. CASE StopThread
  BY <1>8 DEF StopThread, SignalRecv
<1>9. CASE CheckLists \/ FillPool
  BY <1>9 DEF CheckLists, FillPool
<1>10. CASE ResetFlag \/ CreateThread
  BY <1>10 DEF ResetFlag, CreateThread
<1>11. CASE Register \/ Abort
  BY <1>11 DEF Register, Abort
<1>12. CASE CloseStep
  BY <1>12 DEF CloseStep, Join, FinalizeCheck, FreeNode, Unregister
<1>13. CASE UNCHANGED vars
  BY <1>13 DEF vars
<1>14. CASE \E b \in Buffers : RtosSend(b)
  BY <1>14 DEF RtosSend
<1> QED BY <1>1, <1>2, <1>3, <1>4, <1>5, <1>6, <1>7, <1>8, <1>9, <1>10, <1>11, <1>12,
           <1>13, <1>14
           DEF Next, ThreadStep, MainStep, InitStep

LEMMA StopInvariant == Spec => []StopInv
<1>1. Init => StopInv
  BY DEF Init, StopInv, NothingQueuedAfterStop
<1>2. QED BY <1>1, StopNext, Invariant, PTL DEF Spec

\* No command slips into the queue behind a thread that has left its loop: the
\* flag is tested and set under recv_stream_mutex, and reset only by a new start.
THEOREM StoppedQueueEmpty == Spec => []NothingQueuedAfterStop
<1>1. StopInv => NothingQueuedAfterStop
  BY DEF StopInv
<1>2. QED BY <1>1, StopInvariant, PTL
-----------------------------------------------------------------------------
(* Opening and closing in order.                                           *)

\* No node is queued, waits for a release, or is in anybody's hand.
Calm == /\ recvQueue = <<>> /\ releaseList = {} /\ cur = NoNode
        /\ \A r \in Releasers : rel[r] = "idle"

\* What the main thread knows, step by step, if no init failed half-way or came
\* while the channel was open, and no drain timed out: a channel that is not open
\* has no thread, and until the stop flag is reset no callback that could take a
\* node; a thread that leaves its drain leaves nothing behind.
OrderlyInv ==
    ~unclean =>
      /\ main \notin {"register", "open", "join"} =>
             /\ thr = "none"
             /\ main # "create" => Calm /\ (~stopFlag => cb = "idle" /\ ~cbOn)
      /\ main \notin {"fill", "reset", "create", "register", "open", "join", "finalize",
                      "finalizeList", "free"} => pool = {}
      /\ main \in {"register", "open"} => thr # "none" /\ ~stopFlag
      /\ main = "join" => thr # "none" /\ stopFlag
      /\ thr \in {"force", "exited"} => Calm

\* A forced removal, like an exit without one, leaves the lists alone: the
\* drain has waited until no releaser is between its list and the pool.
LEMMA OrderlyNext ==
    ASSUME IInv, StopInv, OrderlyInv, [Next]_vars
    PROVE  OrderlyInv'
<1> USE NoneAssumption DEF lists, frames, cbVars, thrVars, relVars, mainVars
<1> SUFFICES ASSUME ~unclean' PROVE OrderlyInv'
  BY DEF OrderlyInv
<1>0. ASSUME unclean PROVE FALSE
  <2>1. unclean' = unclean \/ unclean'
    BY DEF Next, CallbackStep, ThreadStep, ReleaseStep, MainStep, vars, RtosSend, Enqueue, NoRoom,
           RefuseFrame, SpuriousWakeup, Dequeue, Store, Dispatch, Drain, TimeoutFires,
           TimeoutReturns, ForceRemove, CheckCounter, SendRelease, RemoveList, PushPool, BeginInit,
           InitStep, CloseStep, CheckLists, FillPool, ResetFlag, CreateThread, Register, Abort, StopThread, Join, FinalizeCheck, FreeNode, Unregister
  <2> QED BY <1>0, <2>1 DEF IInv, TypeOK
<1>u. ~unclean
  BY <1>0
<1>a. \A r \in Releasers : rel[r] = "idle" <=> relNode[r] = NoNode
  BY DEF IInv, RelInv
<1>b. \A n \in Nodes : owed[n] > 0 => n \in releaseList
  BY DEF IInv, HeldFramesPinned
<1>1. CASE \E b \in Buffers : RtosSend(b)
  BY <1>u, <1>1 DEF RtosSend, OrderlyInv, Calm
<1>2. CASE Enqueue
  <2>1. ~stopFlag /\ cb = "enqueue"
    BY <1>2 DEF Enqueue, Accepting
  <2>2. main \in {"create", "register", "open"} /\ thr \notin {"exited", "force"}
    BY <1>u, <2>1 DEF OrderlyInv, StopInv, NothingQueuedAfterStop
  <2> QED BY <1>2, <1>u, <2>1, <2>2 DEF Enqueue, SignalRecv, OrderlyInv, Calm
<1>3. CASE NoRoom \/ RefuseFrame
  BY <1>3, <1>u DEF NoRoom, RefuseFrame, OrderlyInv, Calm
<1>4. CASE SpuriousWakeup \/ TimeoutFires \/ TimeoutReturns
  BY <1>4, <1>u DEF SpuriousWakeup, TimeoutFires, TimeoutReturns, OrderlyInv, Calm
<1>5. CASE Dequeue \/ Store
  BY <1>5, <1>u DEF Dequeue, Store, OrderlyInv, Calm
<1>6. CASE Dispatch
  BY <1>6, <1>u DEF Dispatch, OrderlyInv, Calm
<1>7. CASE Drain
  <2>1. ASSUME releaseList = {} PROVE Calm
    <3>1. \A r \in Releasers : rel[r] \notin {"send", "remove", "push"}
      BY <1>7, <2>1 DEF Drain, IInv, TypeOK, NodesApart, RelInv
    <3>2. cur = NoNode /\ recvQueue = <<>>
      BY <1>7, <1>u DEF Drain, OrderlyInv, StopInv, NothingQueuedAfterStop
    <3> QED BY <2>1, <3>1, <3>2 DEF Calm, IInv, TypeOK
  <2> QED BY <1>7, <1>u, <2>1 DEF Drain, DrainDone, OrderlyInv, Calm
<1>8. CASE ForceRemove
  BY <1>8, <1>u DEF ForceRemove, OrderlyInv, Calm
<1>9. CASE \E r \in Releasers, n \in Nodes : CheckCounter(r, n)
  <2>1. releaseList # {}
    BY <1>9, <1>b DEF CheckCounter
  <2> QED BY <1>9, <1>u, <2>1 DEF CheckCounter, OrderlyInv, Calm
<1>10. CASE \E r \in Releasers : ReleaseStep(r)
  <2>1. ~Calm
    BY <1>10 DEF ReleaseStep, SendRelease, RemoveList, PushPool, Calm
  <2>2. /\ thr' \notin {"force", "exited"} \/ thr' = thr
        /\ thr' \in {"store", "dispatch"} <=> thr \in {"store", "dispatch"}
        /\ thr' = "none" <=> thr = "none"
        /\ UNCHANGED <<main, stopFlag, cb, cbOn, unclean, cur>>
    BY <1>10 DEF ReleaseStep, SendRelease, RemoveList, PushPool
  <2> QED BY <1>u, <2>1, <2>2 DEF OrderlyInv
<1>11. CASE BeginInit \/ CheckLists \/ FillPool
  BY <1>11, <1>u DEF BeginInit, CheckLists, FillPool, OrderlyInv, Calm
<1>12. CASE ResetFlag \/ CreateThread
  BY <1>12, <1>u DEF ResetFlag, CreateThread, StopInv, OrderlyInv, Calm
<1>13. CASE Register \/ Abort
  BY <1>13, <1>u DEF Register, Abort, OrderlyInv, Calm
<1>14. CASE StopThread
  BY <1>14, <1>u DEF StopThread, SignalRecv, OrderlyInv, Calm
<1>15. CASE Join
  BY <1>15, <1>u DEF Join, OrderlyInv, Calm
<1>16. CASE FinalizeCheck \/ FreeNode \/ Unregister
  BY <1>16, <1>u DEF FinalizeCheck, FreeNode, MoreToFree, Unregister, OrderlyInv, Calm
<1>17. CASE UNCHANGED vars
  BY <1>17, <1>u DEF vars, OrderlyInv, Calm
<1> QED BY <1>1, <1>2, <1>3, <1>4, <1>5, <1>6, <1>7, <1>8, <1>9, <1>10, <1>11, <1>12,
           <1>13, <1>14, <1>15, <1>16, <1>17
           DEF Next, CallbackStep, ThreadStep, MainStep, InitStep,
           CloseStep

LEMMA Orderly == Spec => []OrderlyInv
<1>1. Init => OrderlyInv
  BY NoneAssumption DEF Init, OrderlyInv, Calm
<1>2. QED BY <1>1, OrderlyNext, Invariant, StopInvariant, PTL DEF Spec

\* A close frees every node, even though finalize_stream_pool reads the lists
\* without their mutexes; only an init that failed half-way or a drain that
\* timed out leaves nodes behind.
THEOREM ClosesClean == Spec => []CleanClose
<1>1. IInv /\ OrderlyInv => CleanClose
  <2> SUFFICES ASSUME IInv, OrderlyInv, main = "closed", ~unclean PROVE Unallocated = Nodes
    BY DEF CleanClose
  <2>1. Calm /\ pool = {}
    BY DEF OrderlyInv
  <2>2. Queued = {}
    BY <2>1 DEF Calm, Queued
  <2>3. {relNode[r] : r \in Releasers} \subseteq {NoNode}
    BY <2>1 DEF Calm, IInv, RelInv
  <2> QED BY <2>1, <2>2, <2>3, NoneAssumption DEF Unallocated, Calm
<1>2. QED BY <1>1, Invariant, Orderly, PTL
-----------------------------------------------------------------------------
(* One reader at a time.                                                   *)

\* A command is queued only while a thread is there that will take it off, or
\* between the reset of the flag and the creation of the thread; and an init that
\* has passed its three unlocked checks finds no thread running: two threads
\* never read one queue.
THEOREM OneReader == Spec => []QueueHasOneReader
<1>1. IInv /\ OrderlyInv /\ StopInv => QueueHasOneReader
  <2> SUFFICES ASSUME IInv, OrderlyInv, StopInv, ~unclean
               PROVE  /\ recvQueue # <<>> => thr \notin {"none", "exited"} \/ main = "create"
                      /\ main \in {"fill", "reset", "create"} => thr = "none"
    BY DEF QueueHasOneReader
  <2>1. ASSUME recvQueue # <<>>, thr = "none", main # "create" PROVE FALSE
    BY <2>1 DEF OrderlyInv, Calm
  <2>2. recvQueue # <<>> => thr # "exited"
    BY DEF StopInv, NothingQueuedAfterStop
  <2>3. main \in {"fill", "reset", "create"} => thr = "none"
    BY DEF OrderlyInv
  <2> QED BY <2>1, <2>2, <2>3
<1>2. QED BY <1>1, Invariant, Orderly, StopInvariant, PTL
-----------------------------------------------------------------------------
(* No loan is lost on the way, and no count is off.                        *)

\* A step that moves live nodes about, and touches neither their frames nor
\* any loan, forgets none.
LEMMA LiveKept ==
    ASSUME NoLoanForgotten, Live \subseteq Live', \A n \in Live : buf'[n] = buf[n],
           loan' = loan, cbBuf' = cbBuf
    PROVE  NoLoanForgotten'
BY DEF NoLoanForgotten

\* A loan ends only in the step that takes its buffer out of the callback's
\* hand or its node out of the live ones.
LEMMA LoansNext ==
    ASSUME IInv, NoLoanForgotten, [Next]_vars
    PROVE  NoLoanForgotten'
<1> USE NoneAssumption DEF lists, frames, cbVars, thrVars, relVars, mainVars
<1>1. ASSUME NEW b \in Buffers, RtosSend(b) PROVE NoLoanForgotten'
  <2>1. cbBuf = NoBuf /\ cbBuf' = b /\ Live' = Live /\ buf' = buf
    BY <1>1 DEF RtosSend, IInv, CbInv, Live, Queued, Done
  <2>2. \A c \in Buffers \ {b} : loan'[c] = loan[c]
    BY <1>1 DEF RtosSend, IInv, TypeOK
  <2> QED BY <2>1, <2>2 DEF NoLoanForgotten
<1>2. CASE Enqueue
  <2>1. PICK n \in pool : /\ pool' = pool \ {n} /\ recvQueue' = PushRecvQueue(n)
                          /\ buf' = [buf EXCEPT ![n] = cbBuf]
    BY <1>2 DEF Enqueue
  <2>2. Queued' = Queued \cup {n}
    BY <2>1, EnqueueQueued DEF IInv
  <2>3. Live' = Live \cup {n} /\ n \notin Live
    BY <1>2, <2>2 DEF Enqueue, SignalRecv, IInv, TypeOK, RelInv, NodesApart, Live, Done
  <2>4. buf'[n] = cbBuf /\ (\A m \in Live : buf'[m] = buf[m]) /\ loan' = loan
    BY <1>2, <2>1, <2>3 DEF Enqueue, IInv, TypeOK, Live, Queued
  <2> QED BY <2>3, <2>4 DEF NoLoanForgotten
<1>3. CASE RefuseFrame
  <2>1. /\ cbBuf \in Buffers /\ Live' = Live /\ buf' = buf
        /\ loan'[cbBuf] # "lent" /\ \A c \in Buffers \ {cbBuf} : loan'[c] = loan[c]
    BY <1>3 DEF RefuseFrame, ReleaseStream, IInv, TypeOK, CbInv, Live, Queued, Done
  <2> QED BY <2>1 DEF NoLoanForgotten
<1>4. CASE Dequeue
  <2>1. CASE recvQueue = <<>>
    <3>1. Live' = Live
      BY <1>4, <2>1 DEF Dequeue, Live, Queued, Done
    <3> QED BY <1>4, <3>1, LiveKept DEF Dequeue
  <2>2. CASE recvQueue # <<>>
    <3>1. thr = "dequeue" /\ thr' = "store" /\ Queued' = Queued \ {cur'}
      BY <1>4, <2>2, DequeueQueued DEF Dequeue, IInv
    <3>2. Live \subseteq Live'
      BY <1>4, <3>1 DEF Dequeue, Live, Done
    <3> QED BY <1>4, <3>2, LiveKept DEF Dequeue
  <2> QED BY <2>1, <2>2
<1>5. CASE Store \/ Dispatch \/ Drain \/ TimeoutReturns \/ SpuriousWakeup \/ TimeoutFires \/ NoRoom
  <2>1. Live' = Live
    BY <1>5 DEF Store, Dispatch, Drain, TimeoutReturns, SpuriousWakeup, TimeoutFires, NoRoom,
       AfterTimeout, Live, Queued, Done
  <2>2. UNCHANGED <<buf, loan, cbBuf>>
    BY <1>5 DEF Store, Dispatch, Drain, TimeoutReturns, SpuriousWakeup, TimeoutFires, NoRoom
  <2> QED BY <2>1, <2>2, LiveKept
<1>6. CASE ForceRemove
  <2>1. releaseList = {} /\ UNCHANGED <<recvQueue, loan, cbBuf>>
    BY <1>6 DEF ForceRemove, IInv, ThrInv
  <2>2. Live' = Live /\ \A n \in Live : buf'[n] = buf[n]
    BY <1>6, <2>1 DEF ForceRemove, Live, Queued, Done, IInv, TypeOK
  <2> QED BY <2>1, <2>2, LiveKept
<1>7. ASSUME NEW r \in Releasers, NEW n \in Nodes, CheckCounter(r, n) PROVE NoLoanForgotten'
  <2>1. \A s \in Releasers : Done(s)' = Done(s) /\ (Done(s) => relNode'[s] = relNode[s])
    BY <1>7 DEF CheckCounter, Done, IInv, TypeOK
  <2>2. Live' = Live
    BY <1>7, <2>1 DEF CheckCounter, Live, Queued
  <2> QED BY <1>7, <2>2, LiveKept DEF CheckCounter
<1>8. ASSUME NEW r \in Releasers, SendRelease(r) PROVE NoLoanForgotten'
  <2>1. Live \ {relNode[r]} \subseteq Live'
    BY <1>8 DEF SendRelease, Live, Queued, Done, IInv, TypeOK
  <2>2. relNode[r] \in Live
    BY <1>8 DEF SendRelease, IInv, TypeOK, NodesApart, Live, Done
  <2>3. /\ buf[relNode[r]] \in Buffers /\ loan'[buf[relNode[r]]] # "lent"
        /\ \A c \in Buffers \ {buf[relNode[r]]} : loan'[c] = loan[c]
    BY <1>8, <2>2 DEF SendRelease, ReleaseStream, IInv, TypeOK, LoansDistinct
  <2>4. UNCHANGED <<buf, cbBuf>>
    BY <1>8 DEF SendRelease
  <2> QED BY <2>1, <2>3, <2>4 DEF NoLoanForgotten
<1>9. ASSUME NEW r \in Releasers, RemoveList(r) PROVE NoLoanForgotten'
  <2>1. \A s \in Releasers : Done(s)' = Done(s) /\ relNode'[s] = relNode[s]
    BY <1>9 DEF RemoveList, Done, IInv, TypeOK
  <2>2. Live \subseteq Live'
    BY <1>9, <2>1 DEF RemoveList, Live, Queued, Done
  <2> QED BY <1>9, <2>2, LiveKept DEF RemoveList
<1>10. ASSUME NEW r \in Releasers, PushPool(r) PROVE NoLoanForgotten'
  <2>1. relNode[r] \notin Live
    BY <1>10 DEF PushPool, Live, Done
  <2>2. \A s \in Releasers : (Done(s)' => Done(s)) /\ (Done(s)' => relNode'[s] = relNode[s])
    BY <1>10 DEF PushPool, Done, IInv, TypeOK
  <2>3. Live \subseteq Live'
    BY <1>10, <2>2 DEF PushPool, Live, Queued
  <2>4. \A n \in Live : buf'[n] = buf[n]
    BY <1>10, <2>1 DEF PushPool, IInv, TypeOK, Live, Queued
  <2> QED BY <1>10, <2>3, <2>4, LiveKept DEF PushPool
<1>11. CASE BeginInit \/ StopThread \/ MainStep
  <2>1. UNCHANGED <<recvQueue, releaseList, cur, rel, relNode, buf, loan, cbBuf>>
    BY <1>11, MainSteps
  <2>2. thr = "store" => thr' = "store"
    BY <1>11, MainSteps
  <2>3. Live \subseteq Live'
    BY <2>1, <2>2 DEF Live, Queued, Done
  <2> QED BY <2>1, <2>3, LiveKept
<1>12. CASE UNCHANGED vars
  BY <1>12 DEF vars, NoLoanForgotten, Live, Queued, Done
<1> QED BY <1>1, <1>2, <1>3, <1>4, <1>5, <1>6, <1>7, <1>8, <1>9, <1>10, <1>11, <1>12
           DEF Next, CallbackStep, ThreadStep, ReleaseStep

\* Every lent buffer is in the callback's hand or in a live node: no error
\* path of the engine drops one.
THEOREM NoLoanLost == Spec => []NoLoanForgotten
<1>1. Init => NoLoanForgotten
  BY DEF Init, NoLoanForgotten
<1>2. QED BY <1>1, LoansNext, Invariant, PTL DEF Spec

\* A node being given back has count 0, one just stored has the default.
CountsInv == /\ \A r \in Releasers : rel[r] # "idle" => counter[relNode[r]] = 0
             /\ thr = "dispatch" => counter[cur] = 1

LEMMA CountsNext ==
    ASSUME IInv, CountsInv, [Next]_vars
    PROVE  CountsInv'
<1> USE NoneAssumption DEF lists, frames, cbVars, thrVars, relVars, mainVars
<1>1. CASE Store
  <2>1. \A r \in Releasers : rel[r] # "idle" => relNode[r] # cur
    BY DEF IInv, NodesApart
  <2> QED BY <1>1, <2>1 DEF Store, DefaultCount, IInv, TypeOK, ThrInv, CountsInv
<1>2. CASE Dispatch
  <2>1. \A r \in Releasers : rel[r] # "idle" => relNode[r] # cur
    BY DEF IInv, NodesApart
  <2>2. \A n \in Nodes \ {cur} : counter'[n] = counter[n]
    BY <1>2 DEF Dispatch, SetReleaseCount, IInv, TypeOK
  <2>3. rel' = rel /\ relNode' = relNode /\ thr' = "dequeue"
    BY <1>2 DEF Dispatch
  <2>4. \A r \in Releasers : rel[r] # "idle" => relNode[r] \in Nodes
    BY DEF IInv, TypeOK, RelInv
  <2> QED BY <2>1, <2>2, <2>3, <2>4 DEF CountsInv
<1>3. CASE ForceRemove
  <2>1. counter' = counter
    BY <1>3 DEF ForceRemove, IInv, TypeOK, ThrInv
  <2> QED BY <1>3, <2>1 DEF ForceRemove, CountsInv
<1>4. ASSUME NEW r \in Releasers, NEW n \in Nodes, CheckCounter(r, n) PROVE CountsInv'
  <2>1. \A s \in Releasers : rel[s] # "idle" => relNode[s] # n
    BY <1>4 DEF CheckCounter, IInv, TypeOK, NodesApart
  <2>2. cur # n /\ n \in releaseList /\ counter[n] = owed[n]
    BY <1>4 DEF CheckCounter, IInv, TypeOK, ThrInv, HeldFramesPinned, CountInv
  <2>3. \A m \in Nodes \ {n} : counter'[m] = counter[m]
    BY <1>4 DEF CheckCounter, IInv, TypeOK
  <2>4. \A s \in Releasers : rel[s] # "idle" => relNode[s] \in Nodes
    BY DEF IInv, TypeOK, RelInv
  <2>5. thr' = "dispatch" => cur' = cur /\ cur \in Nodes /\ thr = "dispatch"
    BY <1>4 DEF CheckCounter, IInv, ThrInv
  <2>6. CASE counter[n] > 1
    <3>1. rel' = rel /\ relNode' = relNode
      BY <1>4, <2>2, <2>6 DEF CheckCounter, MoreReleases
    <3> QED BY <2>1, <2>2, <2>3, <2>4, <2>5, <3>1 DEF CountsInv
  <2>7. CASE ~(counter[n] > 1)
    <3>1. /\ rel' = [rel EXCEPT ![r] = "send"] /\ relNode' = [relNode EXCEPT ![r] = n]
          /\ counter' = [counter EXCEPT ![n] = @ - 1]
      BY <1>4, <2>2, <2>7 DEF CheckCounter, MoreReleases
    <3>2. counter'[n] = 0
      BY <1>4, <2>2, <2>7, <3>1 DEF CheckCounter, IInv, TypeOK
    <3>3. \A s \in Releasers : IF s = r THEN relNode'[s] = n
                               ELSE rel'[s] = rel[s] /\ relNode'[s] = relNode[s]
      BY <3>1 DEF IInv, TypeOK
    <3> QED BY <2>1, <2>2, <2>3, <2>4, <2>5, <3>2, <3>3 DEF CountsInv
  <2> QED BY <2>6, <2>7
<1>5. ASSUME NEW r \in Releasers, SendRelease(r) \/ RemoveList(r) PROVE CountsInv'
  <2>1. /\ UNCHANGED <<counter, relNode, thr, cur>> /\ rel[r] # "idle"
        /\ \A s \in Releasers \ {r} : rel'[s] = rel[s]
    BY <1>5 DEF SendRelease, RemoveList, IInv, TypeOK
  <2> QED BY <2>1 DEF CountsInv
<1>6. ASSUME NEW r \in Releasers, PushPool(r) PROVE CountsInv'
  <2>1. \A s \in Releasers : /\ rel'[s] # "idle" => s # r /\ rel[s] # "idle"
                             /\ s # r => relNode'[s] = relNode[s]
    BY <1>6 DEF PushPool, IInv, TypeOK
  <2>2. \A s \in Releasers \ {r} : relNode[s] # relNode[r]
    BY <1>6 DEF PushPool, IInv, NodesApart
  <2>3. relNode[r] # cur
    BY <1>6 DEF PushPool, IInv, NodesApart
  <2>4. \A m \in Nodes : m # relNode[r] => counter'[m] = counter[m]
    BY <1>6 DEF PushPool, IInv, TypeOK
  <2>5. \A s \in Releasers : rel[s] # "idle" => relNode[s] \in Nodes
    BY DEF IInv, TypeOK, RelInv
  <2>6. thr' = "dispatch" => cur' = cur /\ cur \in Nodes /\ thr = "dispatch"
    BY <1>6 DEF PushPool, IInv, ThrInv
  <2> QED BY <2>1, <2>2, <2>3, <2>4, <2>5, <2>6 DEF CountsInv
<1>7. CASE \/ \E b \in Buffers : RtosSend(b)
           \/ CallbackStep \/ SpuriousWakeup \/ Dequeue \/ Drain \/ TimeoutFires \/ TimeoutReturns
           \/ UNCHANGED vars
  <2>1. UNCHANGED <<counter, rel, relNode>>
    BY <1>7 DEF RtosSend, CallbackStep, Enqueue, NoRoom, RefuseFrame, SpuriousWakeup, Dequeue,
       Drain, TimeoutFires, TimeoutReturns, vars
  <2>2. thr' = "dispatch" => thr = "dispatch" /\ cur' = cur
    BY <1>7 DEF RtosSend, CallbackStep, Enqueue, SignalRecv, NoRoom, RefuseFrame, SpuriousWakeup,
       Dequeue, Drain, TimeoutFires, TimeoutReturns, AfterTimeout, vars
  <2> QED BY <2>1, <2>2 DEF CountsInv
<1>8. CASE BeginInit \/ StopThread \/ MainStep
  BY <1>8, MainSteps DEF CountsInv
<1> QED BY <1>1, <1>2, <1>3, <1>4, <1>5, <1>6, <1>7, <1>8
           DEF Next, ThreadStep, ReleaseStep

\* What CountExact says of one node.
Exact(n) ==
    \/ n = cur
    \/ \E r \in Releasers : relNode[r] = n /\ counter[n] = 0
    \/ kind[buf[n]] = "frame" /\ counter[n] = owed[n] /\ owed[n] > 0
    \/ kind[buf[n]] # "frame" /\ counter[n] = 1 /\ owed[n] = 0

\* A command's kind changes only with its buffer's owner: when the RTOS sends
\* it or when it goes back.
LEMMA KindStays ==
    ASSUME IInv, CountsInv, NEW b \in Buffers, NEW n \in releaseList,
           \A c \in Buffers \ {b} : kind'[c] = kind[c],
           b = cbBuf \/ loan[b] # "lent" \/ \E m \in Live : buf[m] = b /\ m # n,
           UNCHANGED <<buf, counter, owed, cur, relNode>>, Exact(n)
    PROVE  Exact(n)'
<1>1. CASE n \in Live
  <2>1. buf[n] \in Buffers /\ buf[n] # b
    BY <1>1 DEF IInv, LoansDistinct
  <2> QED BY <2>1 DEF Exact
<1>2. CASE n \notin Live
  <2>1. PICK r \in Releasers : Done(r) /\ relNode[r] = n
    BY <1>2 DEF Live
  <2>2. counter[n] = 0
    BY <2>1 DEF CountsInv, Done
  <2> QED BY <2>1, <2>2 DEF Exact
<1> QED BY <1>1, <1>2

LEMMA ExactNext ==
    ASSUME IInv, CountsInv, StopInv, CountExact, [Next]_vars
    PROVE  CountExact'
<1> USE NoneAssumption DEF lists, frames, cbVars, thrVars, relVars, mainVars
<1> SUFFICES ASSUME NEW n \in releaseList' PROVE Exact(n)'
  BY DEF CountExact, Exact
<1>a. \A m \in releaseList : Exact(m)
  BY DEF CountExact, Exact
<1>b. releaseList \subseteq Nodes
  BY DEF IInv, TypeOK
<1>1. ASSUME NEW b \in Buffers, RtosSend(b) PROVE Exact(n)'
  <2>1. \A c \in Buffers \ {b} : kind'[c] = kind[c]
    BY <1>1 DEF RtosSend, IInv, TypeOK
  <2> QED BY <1>1, <1>a, <2>1, KindStays DEF RtosSend
<1>2. CASE Enqueue
  <2>1. PICK m \in pool : buf' = [buf EXCEPT ![m] = cbBuf]
    BY <1>2 DEF Enqueue
  <2>2. n \in releaseList /\ buf'[n] = buf[n]
    BY <1>2, <1>b, <2>1 DEF Enqueue, IInv, TypeOK, NodesApart
  <2>3. UNCHANGED <<kind, counter, owed, cur, relNode>>
    BY <1>2 DEF Enqueue
  <2> QED BY <1>a, <2>2, <2>3 DEF Exact
<1>3. CASE RefuseFrame
  <2>1. cbBuf \in Buffers /\ \A c \in Buffers \ {cbBuf} : kind'[c] = kind[c]
    BY <1>3 DEF RefuseFrame, ReleaseStream, IInv, TypeOK, CbInv
  <2> QED BY <1>3, <1>a, <2>1, KindStays DEF RefuseFrame
<1>4. CASE Dequeue
  <2>1. UNCHANGED <<releaseList, frames, relNode>> /\ cur = NoNode
    BY <1>4 DEF Dequeue, StopInv
  <2>2. n \in releaseList /\ n # cur
    BY <1>b, <2>1
  <2> QED BY <1>a, <2>1, <2>2 DEF Exact
<1>5. CASE Store
  <2>1. CASE n = cur
    BY <1>5, <2>1 DEF Store, Exact
  <2>2. CASE n # cur
    <3>1. n \in releaseList /\ UNCHANGED <<kind, buf, owed, cur, relNode>>
      BY <1>5, <2>2 DEF Store
    <3>2. counter'[n] = counter[n]
      BY <1>5, <1>b, <2>2, <3>1 DEF Store, IInv, TypeOK
    <3> QED BY <1>a, <3>1, <3>2 DEF Exact
  <2> QED BY <2>1, <2>2
<1>6. CASE Dispatch
  <2>1. n \in releaseList /\ n \in Nodes /\ UNCHANGED <<kind, buf, relNode>>
    BY <1>6, <1>b DEF Dispatch
  <2>2. CASE n = cur
    <3>1. counter[n] = 1 /\ owed[n] = 0
      BY <1>6, <2>1, <2>2 DEF Dispatch, CountsInv, IInv, ThrInv
    <3>2. CASE kind[buf[n]] = "frame"
      <4>1. PICK k \in 1..MaxCount : /\ counter' = [counter EXCEPT ![n] = k]
                                     /\ owed' = [owed EXCEPT ![n] = k]
        BY <1>6, <2>1, <2>2, <3>2 DEF Dispatch, SetReleaseCount
      <4>2. k > 0 /\ counter'[n] = k /\ owed'[n] = k
        BY <2>1, <4>1, CountAssumption DEF IInv, TypeOK
      <4> QED BY <2>1, <3>2, <4>2 DEF Exact
    <3>3. CASE kind[buf[n]] # "frame"
      <4>1. counter' = counter /\ owed' = owed
        BY <1>6, <2>2, <3>3 DEF Dispatch
      <4> QED BY <2>1, <3>1, <3>3, <4>1 DEF Exact
    <3> QED BY <3>2, <3>3
  <2>3. CASE n # cur
    <3>1. counter'[n] = counter[n] /\ owed'[n] = owed[n]
      BY <1>6, <2>1, <2>3 DEF Dispatch, SetReleaseCount, IInv, TypeOK
    <3> QED BY <1>a, <2>1, <2>3, <3>1 DEF Exact
  <2> QED BY <2>2, <2>3
<1>7. CASE ForceRemove
  BY <1>7 DEF ForceRemove
<1>8. ASSUME NEW r \in Releasers, NEW m \in Nodes, CheckCounter(r, m) PROVE Exact(n)'
  <2>1. /\ m \in releaseList /\ n \in releaseList /\ counter[m] = owed[m] /\ owed[m] > 0
        /\ m # cur /\ relNode[r] = NoNode
    BY <1>8 DEF CheckCounter, IInv, TypeOK, ThrInv, RelInv, CountInv, HeldFramesPinned
  <2>2. UNCHANGED <<kind, buf, cur>>
    BY <1>8 DEF CheckCounter
  <2>3. \A s \in Releasers : relNode[s] # NoNode => relNode'[s] = relNode[s]
    BY <1>8, <2>1 DEF CheckCounter, IInv, TypeOK
  <2>4. CASE n # m
    <3>1. counter'[n] = counter[n] /\ owed'[n] = owed[n]
      BY <1>8, <1>b, <2>1, <2>4 DEF CheckCounter, IInv, TypeOK
    <3> QED BY <1>a, <1>b, <2>1, <2>2, <2>3, <3>1 DEF Exact
  <2>5. CASE n = m
    <3>1. counter'[n] = counter[n] - 1 /\ owed'[n] = owed[n] - 1
      BY <1>8, <2>1, <2>5 DEF CheckCounter, IInv, TypeOK
    <3>2. counter[n] \in Nat /\ owed[n] \in Nat
      BY <1>b, <2>1 DEF IInv, TypeOK
    <3>3. CASE counter[n] > 1
      <4>1. kind[buf[n]] = "frame"
        BY <1>a, <2>1, <2>5, <3>2 DEF Exact
      <4> QED BY <2>1, <2>2, <2>5, <3>1, <3>2, <3>3, <4>1 DEF Exact
    <3>4. CASE ~(counter[n] > 1)
      <4>1. relNode'[r] = n
        BY <1>8, <2>1, <2>5, <3>4 DEF CheckCounter, MoreReleases, IInv, TypeOK
      <4>2. counter'[n] = 0
        BY <2>1, <2>5, <3>1, <3>2, <3>4
      <4> QED BY <4>1, <4>2 DEF Exact
    <3> QED BY <3>3, <3>4
  <2> QED BY <2>4, <2>5
<1>9. ASSUME NEW r \in Releasers, SendRelease(r) PROVE Exact(n)'
  <2>1. relNode[r] \in Live /\ relNode[r] \in Nodes
    BY <1>9, <1>b DEF SendRelease, IInv, TypeOK, NodesApart, Live, Done
  <2>2. buf[relNode[r]] \in Buffers /\ n \in releaseList
    BY <1>9, <2>1 DEF SendRelease, IInv, LoansDistinct
  <2>3. /\ \A c \in Buffers \ {buf[relNode[r]]} : kind'[c] = kind[c]
        /\ UNCHANGED <<buf, counter, owed, cur, relNode>>
    BY <1>9, <2>2 DEF SendRelease, ReleaseStream, IInv, TypeOK
  <2>4. CASE n = relNode[r]
    <3>1. counter[n] = 0
      BY <1>9, <2>4 DEF SendRelease, CountsInv
    <3> QED BY <2>3, <2>4, <3>1 DEF Exact
  <2>5. CASE n # relNode[r]
    BY <1>a, <2>1, <2>2, <2>3, <2>5, KindStays
  <2> QED BY <2>4, <2>5
<1>10. ASSUME NEW r \in Releasers, RemoveList(r) PROVE Exact(n)'
  BY <1>10, <1>a DEF RemoveList, Exact
<1>11. ASSUME NEW r \in Releasers, PushPool(r) PROVE Exact(n)'
  <2>1. n \in releaseList /\ n \in Nodes /\ n # relNode[r]
    BY <1>11, <1>b DEF PushPool, IInv, NodesApart
  <2>2. UNCHANGED <<kind, owed, cur>> /\ buf'[n] = buf[n] /\ counter'[n] = counter[n]
    BY <1>11, <2>1 DEF PushPool, IInv, TypeOK
  <2>3. \A s \in Releasers \ {r} : relNode'[s] = relNode[s]
    BY <1>11 DEF PushPool, IInv, TypeOK
  <2> QED BY <1>a, <2>1, <2>2, <2>3 DEF Exact
<1>12. CASE \/ NoRoom \/ SpuriousWakeup \/ Drain \/ TimeoutFires \/ TimeoutReturns \/ UNCHANGED vars
  <2>1. UNCHANGED <<releaseList, buf, kind, counter, owed, cur, relNode>>
    BY <1>12 DEF NoRoom, SpuriousWakeup, Drain, TimeoutFires, TimeoutReturns, vars
  <2> QED BY <1>a, <2>1 DEF Exact
<1>13. CASE BeginInit \/ StopThread \/ MainStep
  <2>1. UNCHANGED <<releaseList, buf, kind, counter, owed, cur, relNode>>
    BY <1>13, MainSteps
  <2> QED BY <1>a, <2>1 DEF Exact
<1> QED BY <1>1, <1>2, <1>3, <1>4, <1>5, <1>6, <1>7, <1>8, <1>9, <1>10, <1>11, <1>12, <1>13
           DEF Next, CallbackStep, ThreadStep, ReleaseStep

\* release_counter is what the application still owes, for every node in
\* release_list but the ones named in CountExact.
THEOREM CountsStayExact == Spec => []CountExact
<1>1. Init => CountsInv /\ CountExact
  BY DEF Init, CountsInv, CountExact
<1>2. QED BY <1>1, CountsNext, ExactNext, Invariant, StopInvariant, PTL DEF Spec
-----------------------------------------------------------------------------
(* The engine implements the contract FrameLoan.                           *)

\* The nodes that hold an accepted frame not yet delivered, and their frames.
InHand == IF thr \in {"store", "dispatch"} THEN {cur} ELSE {}
Undelivered == InHand \cup Queued
WaitingBufs == {buf[n] : n \in Undelivered}

\* The line, as a set: the node in the stream thread's hand and recv_queue.
LEMMA LineNodes ==
    IInv => /\ InLine \in Seq(Nodes) /\ RangeOf(InLine) = Undelivered
            /\ lineBar \in Seq(Buffers) /\ RangeOf(lineBar) = WaitingBufs
<1> SUFFICES ASSUME IInv
             PROVE  /\ InLine \in Seq(Nodes) /\ RangeOf(InLine) = Undelivered
                    /\ lineBar \in Seq(Buffers) /\ RangeOf(lineBar) = WaitingBufs
  OBVIOUS
<1>1. recvQueue \in Seq(Nodes) /\ DOMAIN recvQueue = 1..Len(recvQueue) /\ Len(recvQueue) \in Nat
  BY LenProperties DEF IInv, TypeOK
<1>2. InLine \in Seq(Nodes) /\ RangeOf(InLine) = Undelivered
  <2>1. CASE thr \in {"store", "dispatch"}
    <3>1. cur \in Nodes
      BY <2>1 DEF IInv, ThrInv
    <3>2. InLine = <<cur>> \o recvQueue
      BY <2>1 DEF InLine
    <3>3. /\ InLine \in Seq(Nodes) /\ DOMAIN InLine = 1 .. Len(recvQueue) + 1
          /\ InLine[1] = cur /\ \A i \in 1 .. Len(recvQueue) : InLine[i + 1] = recvQueue[i]
      BY <1>1, <3>1, <3>2
    <3>4. ASSUME NEW n \in RangeOf(InLine) PROVE n \in {cur} \cup Queued
      <4>1. PICK i \in 1 .. Len(recvQueue) + 1 : n = InLine[i]
        BY <3>3 DEF RangeOf
      <4>2. CASE i # 1
        <5>1. i - 1 \in 1 .. Len(recvQueue) /\ n = recvQueue[i - 1]
          BY <1>1, <3>3, <4>1, <4>2
        <5> QED BY <1>1, <5>1 DEF Queued
      <4> QED BY <3>3, <4>1, <4>2
    <3>5. ASSUME NEW n \in Queued PROVE n \in RangeOf(InLine)
      <4>1. PICK i \in 1 .. Len(recvQueue) : n = recvQueue[i]
        BY <1>1 DEF Queued
      <4>2. i + 1 \in DOMAIN InLine /\ InLine[i + 1] = n
        BY <1>1, <3>3, <4>1
      <4> QED BY <4>2 DEF RangeOf
    <3>6. cur \in RangeOf(InLine)
      BY <1>1, <3>3 DEF RangeOf
    <3> QED BY <2>1, <3>3, <3>4, <3>5, <3>6 DEF Undelivered, InHand
  <2>2. CASE thr \notin {"store", "dispatch"}
    <3>1. InLine = recvQueue
      BY <1>1, <2>2 DEF InLine
    <3> QED BY <1>1, <2>2, <3>1 DEF Undelivered, InHand, Queued, RangeOf
  <2> QED BY <2>1, <2>2
<1>3. Undelivered \subseteq Live \cup InHand /\ \A n \in Undelivered : buf[n] \in Buffers
  BY DEF IInv, NodesApart, LoansDistinct, Undelivered, InHand, Live, Done, Queued
<1>4. lineBar \in Seq(Buffers)
  <2>1. DOMAIN InLine = 1 .. Len(InLine) /\ Len(InLine) \in Nat
    BY <1>2, LenProperties
  <2>2. \A i \in 1 .. Len(InLine) : buf[InLine[i]] \in Buffers
    BY <1>2, <1>3, <2>1 DEF RangeOf
  <2> QED BY <2>1, <2>2 DEF lineBar
<1>5. RangeOf(lineBar) = WaitingBufs
  BY <1>2 DEF lineBar, RangeOf, WaitingBufs
<1> QED BY <1>2, <1>4, <1>5

\* Undelivered nodes are live, so their frames are distinct and not the callback's.
LEMMA UndeliveredLive == IInv => Undelivered \subseteq Live
  BY DEF IInv, NodesApart, Undelivered, InHand, Live, Done, Queued

\* The mapping, buffer by buffer: where a buffer is ...
WhereInv ==
    /\ whereBar \in [Buffers -> {"rtos", "lost", "offered", "waiting", "held"}]
    /\ \A b \in Buffers : loan[b] # "lent" => whereBar[b] = loan[b]
    /\ \A b \in Buffers : b = cbBuf => whereBar[b] = "offered"
    /\ \A b \in WaitingBufs : b \in Buffers /\ whereBar[b] = "waiting"
    /\ \A b \in Buffers : loan[b] = "lent" /\ b # cbBuf /\ b \notin WaitingBufs
                              => whereBar[b] = "held"

\* ... and what is owed for it, which is owed for the one node that holds it.
UsesInv ==
    /\ usesBar = [b \in Buffers |-> usesBar[b]]
    /\ \A n \in Nodes : owed[n] > 0 => usesBar[buf[n]] = owed[n]
    /\ \A b \in Buffers : (\A n \in Nodes : buf[n] = b => owed[n] = 0) => usesBar[b] = 0

MapInv == /\ WhereInv /\ UsesInv
          /\ lineBar \in Seq(Buffers) /\ RangeOf(lineBar) = WaitingBufs
          /\ Undelivered \subseteq Live

LEMMA Mapping == IInv => MapInv
<1> SUFFICES ASSUME IInv PROVE MapInv
  OBVIOUS
<1>1. lineBar \in Seq(Buffers) /\ RangeOf(lineBar) = WaitingBufs
  BY LineNodes
<1>2. Undelivered \subseteq Live
  BY DEF IInv, NodesApart, Undelivered, InHand, Live, Done, Queued
<1>3. WhereInv
  <2>1. \A b \in Buffers : (\E i \in DOMAIN InLine : buf[InLine[i]] = b) <=> b \in WaitingBufs
    BY LineNodes DEF RangeOf, WaitingBufs
  <2>2. whereBar = [b \in Buffers |-> IF loan[b] # "lent" THEN loan[b]
                                      ELSE IF b = cbBuf THEN "offered"
                                      ELSE IF b \in WaitingBufs THEN "waiting" ELSE "held"]
    BY <2>1 DEF whereBar
  <2>3. \A b \in Buffers : b = cbBuf => loan[b] = "lent"
    BY NoneAssumption DEF IInv, CbInv
  <2>4. \A b \in WaitingBufs : b \in Buffers /\ loan[b] = "lent" /\ b # cbBuf
    BY <1>2 DEF IInv, LoansDistinct, WaitingBufs
  <2>5. loan \in [Buffers -> {"rtos", "lent", "lost"}]
    BY DEF IInv, TypeOK
  <2> QED BY <2>2, <2>3, <2>4, <2>5 DEF WhereInv
<1>4. ASSUME NEW n \in Nodes, owed[n] > 0 PROVE usesBar[buf[n]] = owed[n]
  <2>1. \A m \in Nodes : buf[m] = buf[n] /\ owed[m] > 0 => m = n
    BY <1>4, OwedLive DEF IInv, LoansDistinct
  <2>2. buf[n] \in Buffers
    BY <1>4 DEF IInv, HeldFramesPinned
  <2>3. (CHOOSE m \in Nodes : buf[m] = buf[n] /\ owed[m] > 0) = n
    BY <1>4, <2>1
  <2> QED BY <1>4, <2>2, <2>3 DEF usesBar
<1>5. ASSUME NEW b \in Buffers, \A n \in Nodes : buf[n] = b => owed[n] = 0 PROVE usesBar[b] = 0
  <2>1. ~\E n \in Nodes : buf[n] = b /\ owed[n] > 0
    BY <1>5
  <2> QED BY <2>1 DEF usesBar
<1>6. usesBar = [b \in Buffers |-> usesBar[b]]
  BY DEF usesBar
<1> QED BY <1>1, <1>2, <1>3, <1>4, <1>5, <1>6 DEF MapInv, UsesInv

LEMMA MappingNext == IInv' => MapInv'
BY Mapping, PTL

\* A buffer whose loan, offer and place in the line stay is where it was.
LEMMA WhereStays ==
    ASSUME IInv, MapInv, MapInv', NEW x \in Buffers, loan'[x] = loan[x],
           x = cbBuf' <=> x = cbBuf, x \in WaitingBufs' <=> x \in WaitingBufs
    PROVE  whereBar'[x] = whereBar[x]
BY DEF MapInv, WhereInv

LEMMA WhereChanges ==
    ASSUME MapInv, MapInv', NEW b \in Buffers,
           \A x \in Buffers \ {b} : whereBar'[x] = whereBar[x]
    PROVE  whereBar' = [whereBar EXCEPT ![b] = whereBar'[b]]
<1>1. /\ DOMAIN whereBar = Buffers /\ DOMAIN whereBar' = Buffers
      /\ whereBar' = [x \in Buffers |-> whereBar'[x]]
  BY DEF MapInv, WhereInv
<1> QED BY <1>1

\* What is owed for a buffer stays if the same nodes owe the same for it.
LEMMA UsesStay ==
    ASSUME IInv, IInv', MapInv, MapInv', NEW x \in Buffers,
           \A n \in Nodes : buf[n] = x \/ buf'[n] = x =>
               owed'[n] = owed[n] /\ (owed[n] > 0 => buf'[n] = buf[n])
    PROVE  usesBar'[x] = usesBar[x]
<1>1. CASE \E n \in Nodes : buf[n] = x /\ owed[n] > 0
  <2>1. PICK n \in Nodes : buf[n] = x /\ owed[n] > 0
    BY <1>1
  <2>2. buf'[n] = x /\ owed'[n] = owed[n]
    BY <2>1
  <2> QED BY <2>1, <2>2 DEF MapInv, UsesInv
<1>2. CASE ~\E n \in Nodes : buf[n] = x /\ owed[n] > 0
  <2>1. \A n \in Nodes : owed[n] \in Nat /\ owed'[n] \in Nat
    BY DEF IInv, TypeOK
  <2>2. \A n \in Nodes : buf[n] = x => owed[n] = 0
    BY <1>2, <2>1
  <2>3. \A n \in Nodes : buf'[n] = x => owed'[n] = 0
    BY <1>2, <2>1
  <2> QED BY <2>2, <2>3 DEF MapInv, UsesInv
<1> QED BY <1>1, <1>2

LEMMA UsesAllStay ==
    ASSUME IInv, IInv', MapInv, MapInv', owed' = owed,
           \A n \in Nodes : owed[n] > 0 => buf'[n] = buf[n]
    PROVE  usesBar' = usesBar
<1>1. \A x \in Buffers : usesBar'[x] = usesBar[x]
  <2>1. SUFFICES ASSUME NEW x \in Buffers PROVE usesBar'[x] = usesBar[x]
    OBVIOUS
  <2>2. \A n \in Nodes : owed'[n] = owed[n] /\ (owed[n] > 0 => buf'[n] = buf[n])
    OBVIOUS
  <2> QED BY <2>2, UsesStay
<1> QED BY <1>1 DEF MapInv, UsesInv

\* A step that the contract does not see.
LEMMA Stutter ==
    ASSUME IInv, IInv', MapInv, MapInv', UNCHANGED <<InLine, loan, cbBuf, owed>>,
           \A n \in Undelivered : buf'[n] = buf[n],
           \A n \in Nodes : owed[n] > 0 => buf'[n] = buf[n]
    PROVE  UNCHANGED Contract!vars
<1>1. \A i \in DOMAIN InLine : buf'[InLine[i]] = buf[InLine[i]]
  BY LineNodes DEF RangeOf
<1>2. whereBar' = whereBar /\ lineBar' = lineBar
  <2>1. lineBar' = lineBar
    BY <1>1 DEF lineBar
  <2>2. \A b \in Buffers : (\E i \in DOMAIN InLine : buf'[InLine[i]] = b)
                             <=> (\E i \in DOMAIN InLine : buf[InLine[i]] = b)
    BY <1>1
  <2>3. whereBar' = whereBar
    BY <2>2 DEF whereBar
  <2> QED BY <2>1, <2>3
<1>3. usesBar' = usesBar
  BY UsesAllStay
<1> QED BY <1>2, <1>3 DEF Contract!vars

\* The stream thread lets go of the node in its hand: the line loses its head.
LEMMA LineLosesHead ==
    ASSUME IInv, thr \in {"store", "dispatch"}, thr' \notin {"store", "dispatch"},
           recvQueue' = recvQueue, buf' = buf
    PROVE  /\ lineBar # <<>> /\ Head(lineBar) = buf[cur] /\ lineBar' = Tail(lineBar)
           /\ WaitingBufs' = WaitingBufs \ {buf[cur]} /\ cur \in Live /\ cur \in Nodes
<1>1. /\ recvQueue \in Seq(Nodes) /\ cur \in Nodes
      /\ DOMAIN recvQueue = 1 .. Len(recvQueue) /\ Len(recvQueue) \in Nat
  BY LenProperties DEF IInv, TypeOK, ThrInv
<1>2. InLine = <<cur>> \o recvQueue /\ InLine' = recvQueue
  BY <1>1 DEF InLine
<1>3. /\ DOMAIN InLine = 1 .. Len(recvQueue) + 1 /\ InLine[1] = cur
      /\ \A i \in 1 .. Len(recvQueue) : InLine[i + 1] = recvQueue[i]
  BY <1>1, <1>2
<1>4. lineBar = [i \in 1 .. Len(recvQueue) + 1 |-> buf[InLine[i]]]
  BY <1>3 DEF lineBar
<1>5. lineBar \in Seq(Buffers)
  BY LineNodes
<1>6. Len(lineBar) = Len(recvQueue) + 1 /\ lineBar # <<>>
  BY <1>1, <1>4, <1>5, LenProperties
<1>7. Head(lineBar) = buf[cur]
  BY <1>1, <1>3, <1>4, <1>5, <1>6, HeadTailProperties
<1>8. lineBar' = Tail(lineBar)
  <2>1. lineBar' = [i \in 1 .. Len(recvQueue) |-> buf[recvQueue[i]]]
    BY <1>1, <1>2 DEF lineBar
  <2>2. Tail(lineBar) = [i \in 1 .. Len(recvQueue) |-> lineBar[i + 1]]
    <3>1. /\ Tail(lineBar) \in Seq(Buffers) /\ Len(Tail(lineBar)) = Len(recvQueue)
          /\ \A i \in 1 .. Len(recvQueue) : Tail(lineBar)[i] = lineBar[i + 1]
      BY <1>1, <1>5, <1>6, HeadTailProperties
    <3>2. /\ \A i \in 1 .. Len(recvQueue) : lineBar[i + 1] \in Buffers
          /\ [i \in 1 .. Len(recvQueue) |-> lineBar[i + 1]] \in Seq(Buffers)
      BY <1>1, <1>5, <1>6, ElementOfSeq
    <3> DEFINE t == [i \in 1 .. Len(recvQueue) |-> lineBar[i + 1]]
    <3>3. Len(t) = Len(recvQueue) /\ \A i \in 1 .. Len(recvQueue) : t[i] = lineBar[i + 1]
      BY <1>1, <3>2
    <3>4. t \in Seq(Buffers)
      BY <3>2
    <3> HIDE DEF t
    <3>5. Tail(lineBar) = t
      BY <3>1, <3>3, <3>4, SeqEqual
    <3> QED BY <3>5 DEF t
  <2>3. \A i \in 1 .. Len(recvQueue) : lineBar[i + 1] = buf[recvQueue[i]]
    BY <1>1, <1>3, <1>4
  <2> QED BY <2>1, <2>2, <2>3
<1>9. cur \in Live /\ Queued \subseteq Live /\ cur \notin Queued
  BY DEF IInv, NodesApart, Live, Done, Queued
<1>10. WaitingBufs' = WaitingBufs \ {buf[cur]}
  <2>1. Undelivered = {cur} \cup Queued /\ Undelivered' = Queued
    BY DEF Undelivered, InHand, Queued
  <2>2. \A n \in Queued : buf[n] # buf[cur]
    BY <1>9 DEF IInv, LoansDistinct
  <2> QED BY <2>1, <2>2 DEF WaitingBufs
<1> QED BY <1>6, <1>7, <1>8, <1>9, <1>10, <1>1

LEMMA InitContract == Init => Contract!Init
<1> SUFFICES ASSUME Init PROVE Contract!Init
  OBVIOUS
<1>1. InLine = <<>>
  BY DEF Init, InLine
<1>2. lineBar = <<>>
  BY <1>1 DEF lineBar
<1>3. whereBar = [b \in Buffers |-> "rtos"]
  BY DEF Init, whereBar
<1>4. usesBar = [b \in Buffers |-> 0]
  BY DEF Init, usesBar
<1> QED BY <1>2, <1>3, <1>4 DEF Contract!Init

\* One step per action: which step of the contract it is.
LEMMA NextContract == ASSUME IInv, IInv', [Next]_vars PROVE [Contract!Next]_(Contract!vars)
<1> USE NoneAssumption DEF lists, frames, cbVars, thrVars, relVars, mainVars
<1>m. MapInv /\ MapInv'
  BY Mapping, MappingNext
<1>s. ASSUME UNCHANGED <<InLine, loan, cbBuf, owed, buf>> PROVE UNCHANGED Contract!vars
  BY <1>m, <1>s, Stutter
<1>1. ASSUME NEW b \in Buffers, RtosSend(b) PROVE Contract!Offer(b)
  <2>1. /\ cbBuf = NoBuf /\ cbBuf' = b /\ loan[b] = "rtos" /\ loan' = [loan EXCEPT ![b] = "lent"]
        /\ UNCHANGED <<InLine, lineBar, usesBar, WaitingBufs>>
    BY <1>1 DEF RtosSend, IInv, CbInv, InLine, lineBar, usesBar, WaitingBufs, Undelivered, InHand, Queued
  <2>2. whereBar[b] = "rtos" /\ whereBar'[b] = "offered"
    BY <1>m, <2>1 DEF MapInv, WhereInv
  <2>3. \A x \in Buffers \ {b} : whereBar'[x] = whereBar[x]
    BY <1>m, <2>1, WhereStays DEF IInv, TypeOK
  <2> QED BY <1>m, <2>1, <2>2, <2>3, WhereChanges DEF Contract!Offer
<1>2. ASSUME Enqueue PROVE Contract!Accept(cbBuf) /\ cbBuf \in Buffers
  <2> PICK node \in pool : /\ pool' = pool \ {node} /\ recvQueue' = Append(recvQueue, node)
                           /\ buf' = [buf EXCEPT ![node] = cbBuf]
    BY <1>2 DEF Enqueue, PushRecvQueue
  <2>1. /\ node \in Nodes /\ node \notin Undelivered /\ cbBuf \in Buffers /\ owed[node] = 0
        /\ loan' = loan /\ cbBuf' = NoBuf /\ owed' = owed
        /\ InHand' = InHand /\ (thr' \in {"store", "dispatch"} <=> thr \in {"store", "dispatch"})
        /\ cur' = cur /\ loan[cbBuf] = "lent"
    BY <1>2 DEF Enqueue, SignalRecv, ReturnQueued, IInv, TypeOK, CbInv, NodesApart,
                HeldFramesPinned, Undelivered, InHand, Queued
  <2>2. InLine' = Append(InLine, node) /\ Undelivered' = Undelivered \cup {node}
    <3>1. recvQueue \in Seq(Nodes)
      BY DEF IInv, TypeOK
    <3>2. InLine' = Append(InLine, node)
      <4>1. CASE thr \in {"store", "dispatch"}
        <5>1. cur \in Nodes
          BY <4>1 DEF IInv, ThrInv
        <5> QED BY <2>1, <3>1, <4>1, <5>1 DEF InLine
      <4>2. CASE thr \notin {"store", "dispatch"}
        BY <2>1, <3>1, <4>2 DEF InLine
      <4> QED BY <4>1, <4>2
    <3>3. Queued' = Queued \cup {node}
      BY EnqueueQueued DEF IInv, PushRecvQueue
    <3> QED BY <2>1, <3>2, <3>3 DEF Undelivered
  <2>3. /\ \A n \in Undelivered : buf'[n] = buf[n]
        /\ buf'[node] = cbBuf
    BY <2>1, LineNodes DEF IInv, TypeOK, RangeOf
  <2>4. WaitingBufs' = WaitingBufs \cup {cbBuf}
    BY <2>2, <2>3 DEF WaitingBufs
  <2>5. lineBar' = Append(lineBar, cbBuf)
    <3>1. InLine \in Seq(Nodes) /\ DOMAIN InLine = 1 .. Len(InLine) /\ Len(InLine) \in Nat
      BY LineNodes, LenProperties
    <3>2. lineBar' = [i \in 1 .. Len(InLine) + 1 |-> buf'[Append(InLine, node)[i]]]
      BY <2>1, <2>2, <3>1 DEF lineBar
    <3>3. lineBar = [i \in 1 .. Len(InLine) |-> buf[InLine[i]]] /\ lineBar \in Seq(Buffers)
      BY <1>m, <3>1 DEF lineBar, MapInv
    <3>4. Append(lineBar, cbBuf) = [i \in 1 .. Len(InLine) + 1 |->
                                      IF i = Len(InLine) + 1 THEN cbBuf ELSE lineBar[i]]
      BY <2>1, <3>1, <3>3
    <3>5. \A i \in 1 .. Len(InLine) : buf'[InLine[i]] = buf[InLine[i]]
      BY <2>3, <3>1, LineNodes DEF RangeOf
    <3>6. \A i \in 1 .. Len(InLine) + 1 :
             buf'[Append(InLine, node)[i]] = IF i = Len(InLine) + 1 THEN cbBuf ELSE lineBar[i]
      BY <2>1, <2>3, <3>1, <3>3, <3>5
    <3> QED BY <3>2, <3>4, <3>6
  <2>6. whereBar[cbBuf] = "offered" /\ whereBar'[cbBuf] = "waiting"
    BY <1>m, <2>1, <2>4 DEF MapInv, WhereInv
  <2>7. \A x \in Buffers \ {cbBuf} : whereBar'[x] = whereBar[x]
    BY <1>m, <2>1, <2>4, WhereStays
  <2>8. usesBar' = usesBar
    <3>1. \A n \in Nodes : owed[n] > 0 => buf'[n] = buf[n]
      BY <2>1 DEF IInv, TypeOK
    <3> QED BY <1>m, <2>1, <3>1, UsesAllStay
  <2> QED BY <1>m, <2>1, <2>5, <2>6, <2>7, <2>8, WhereChanges DEF Contract!Accept
<1>3. ASSUME NoRoom \/ SpuriousWakeup \/ Drain \/ TimeoutFires \/ TimeoutReturns
      PROVE  UNCHANGED Contract!vars
  <2>1. UNCHANGED <<InLine, loan, cbBuf, owed, buf>>
    BY <1>3 DEF NoRoom, SpuriousWakeup, Drain, TimeoutFires, TimeoutReturns, AfterTimeout, InLine
  <2> QED BY <2>1, <1>s
<1>4. ASSUME RefuseFrame PROVE Contract!Refuse(cbBuf) /\ cbBuf \in Buffers
  <2>1. /\ cbBuf \in Buffers /\ cbBuf' = NoBuf /\ loan[cbBuf] = "lent"
        /\ UNCHANGED <<InLine, WaitingBufs, lineBar, usesBar>>
    BY <1>4 DEF RefuseFrame, IInv, TypeOK, CbInv, InLine, lineBar, usesBar, WaitingBufs,
                Undelivered, InHand, Queued
  <2>2. PICK l \in {"rtos", "lost"} : loan' = [loan EXCEPT ![cbBuf] = l]
    BY <1>4 DEF RefuseFrame, ReleaseStream
  <2>3. whereBar[cbBuf] = "offered" /\ whereBar'[cbBuf] = l
    BY <1>m, <2>1, <2>2 DEF MapInv, WhereInv, IInv, TypeOK
  <2>4. \A x \in Buffers \ {cbBuf} : whereBar'[x] = whereBar[x]
    BY <1>m, <2>1, <2>2, WhereStays DEF IInv, TypeOK
  <2> QED BY <1>m, <2>1, <2>3, <2>4, WhereChanges DEF Contract!Refuse
<1>5. ASSUME Dequeue PROVE UNCHANGED Contract!vars
  <2>1. recvQueue \in Seq(Nodes) /\ InLine = recvQueue
    <3>1. recvQueue \in Seq(Nodes)
      BY DEF IInv, TypeOK
    <3> QED BY <1>5, <3>1 DEF Dequeue, InLine
  <2>2. InLine' = InLine
    <3>1. CASE recvQueue = <<>>
      BY <1>5, <2>1, <3>1 DEF Dequeue, InLine
    <3>2. CASE recvQueue # <<>>
      <4>1. InLine' = <<Head(recvQueue)>> \o Tail(recvQueue)
        BY <1>5, <3>2 DEF Dequeue, InLine
      <4>2. <<Head(recvQueue)>> \o Tail(recvQueue) = recvQueue
        BY <2>1, <3>2
      <4> QED BY <2>1, <4>1, <4>2
    <3> QED BY <3>1, <3>2
  <2>3. UNCHANGED <<loan, cbBuf, owed, buf>>
    BY <1>5 DEF Dequeue
  <2> QED BY <2>2, <2>3, <1>s
<1>6. ASSUME Store PROVE UNCHANGED Contract!vars
  <2>1. UNCHANGED <<InLine, loan, cbBuf, owed, buf>>
    BY <1>6 DEF Store, InLine
  <2> QED BY <2>1, <1>s
<1>7. ASSUME Dispatch PROVE \E k \in 0 .. MaxCount : Contract!Deliver(k)
  <2>1. /\ lineBar # <<>> /\ Head(lineBar) = buf[cur] /\ lineBar' = Tail(lineBar)
        /\ WaitingBufs' = WaitingBufs \ {buf[cur]} /\ cur \in Live /\ cur \in Nodes
    BY <1>7, LineLosesHead DEF Dispatch
  <2>2. /\ UNCHANGED <<buf, loan, cbBuf>> /\ owed[cur] = 0 /\ buf[cur] \in Buffers
        /\ loan[buf[cur]] = "lent" /\ buf[cur] # cbBuf
        /\ \A n \in Nodes \ {cur} : owed[n] > 0 => buf[n] # buf[cur]
    BY <1>7, <2>1, OwedLive DEF Dispatch, IInv, ThrInv, LoansDistinct
  <2>3. PICK k \in 0 .. MaxCount : owed' = [owed EXCEPT ![cur] = k]
    <3>1. CASE owed' = owed
      <4>1. owed' = [owed EXCEPT ![cur] = 0]
        BY <2>2, <3>1 DEF IInv, TypeOK
      <4>2. 0 \in 0 .. MaxCount
        BY CountAssumption
      <4> QED BY <4>1, <4>2
    <3> QED BY <1>7, <3>1, CountAssumption DEF Dispatch
  <2>4. whereBar' = [whereBar EXCEPT ![buf[cur]] = "held"]
    <3>1. whereBar'[buf[cur]] = "held"
      BY <1>m, <2>1, <2>2 DEF MapInv, WhereInv
    <3>2. \A x \in Buffers \ {buf[cur]} : whereBar'[x] = whereBar[x]
      BY <1>m, <2>1, <2>2, WhereStays
    <3> QED BY <1>m, <2>2, <3>1, <3>2, WhereChanges
  <2>5. usesBar' = [usesBar EXCEPT ![buf[cur]] = k]
    <3>1. usesBar'[buf[cur]] = k
      <4>1. owed'[cur] = k /\ \A n \in Nodes \ {cur} : owed'[n] = owed[n]
        BY <2>1, <2>3 DEF IInv, TypeOK
      <4>2. CASE k > 0
        BY <1>m, <2>1, <2>2, <4>1, <4>2 DEF MapInv, UsesInv
      <4>3. CASE k = 0
        <5>1. \A n \in Nodes : buf[n] = buf[cur] => owed'[n] = 0
          <6>1. \A n \in Nodes : owed[n] \in Nat
            BY DEF IInv, TypeOK
          <6> QED BY <2>1, <2>2, <4>1, <4>3, <6>1
        <5> QED BY <1>m, <2>1, <2>2, <4>3, <5>1 DEF MapInv, UsesInv
      <4> QED BY <2>3, <4>2, <4>3
    <3>2. \A x \in Buffers \ {buf[cur]} : usesBar'[x] = usesBar[x]
      BY <1>m, <2>1, <2>2, <2>3, UsesStay DEF IInv, TypeOK
    <3> QED BY <1>m, <2>2, <3>1, <3>2 DEF MapInv, UsesInv
  <2>6. Contract!Deliver(k)
    BY <2>1, <2>4, <2>5 DEF Contract!Deliver
  <2> QED BY <2>6
<1>8. ASSUME ForceRemove PROVE UNCHANGED Contract!vars
  <2>1. releaseList = {}
    BY <1>8 DEF ForceRemove, IInv, ThrInv
  <2>2. buf' = [n \in Nodes |-> buf[n]] /\ UNCHANGED <<InLine, loan, cbBuf, owed>>
    BY <1>8, <2>1 DEF ForceRemove, InLine
  <2>3. buf' = buf
    BY <2>2 DEF IInv, TypeOK
  <2> QED BY <2>2, <2>3, <1>s
<1>9. ASSUME NEW r \in Releasers, NEW n \in Nodes, CheckCounter(r, n)
      PROVE  Contract!Use(buf[n]) /\ buf[n] \in Buffers
  <2>1. /\ n \in releaseList /\ n \in Live /\ n # cur /\ owed[n] > 0 /\ owed[n] \in Nat
        /\ owed' = [owed EXCEPT ![n] = owed[n] - 1]
        /\ UNCHANGED <<buf, loan, cbBuf, InLine, Undelivered>>
    BY <1>9, OwedLive DEF CheckCounter, IInv, TypeOK, ThrInv, HeldFramesPinned, InLine,
                          Undelivered, InHand, Queued
  <2>2. /\ buf[n] \in Buffers /\ loan[buf[n]] = "lent" /\ buf[n] # cbBuf
        /\ \A m \in Live \ {n} : buf[m] # buf[n]
    BY <2>1 DEF IInv, LoansDistinct
  <2>3. n \notin Undelivered
    <3>1. n \notin Queued
      BY <2>1 DEF IInv, NodesApart
    <3> QED BY <2>1, <3>1 DEF Undelivered, InHand
  <2>4. buf[n] \notin WaitingBufs
    BY <1>m, <2>2, <2>3 DEF MapInv, WaitingBufs
  <2>5. whereBar[buf[n]] = "held" /\ usesBar[buf[n]] = owed[n]
    BY <1>m, <2>1, <2>2, <2>4 DEF MapInv, WhereInv, UsesInv
  <2>6. whereBar' = whereBar /\ lineBar' = lineBar
    BY <2>1 DEF whereBar, lineBar
  <2>7. usesBar' = [usesBar EXCEPT ![buf[n]] = usesBar[buf[n]] - 1]
    <3>1. owed'[n] = owed[n] - 1 /\ \A m \in Nodes \ {n} : owed'[m] = owed[m]
      BY <2>1 DEF IInv, TypeOK
    <3>2. usesBar'[buf[n]] = owed[n] - 1
      <4>1. CASE owed[n] > 1
        BY <1>m, <2>1, <3>1, <4>1 DEF MapInv, UsesInv
      <4>2. CASE owed[n] = 1
        <5>1. \A m \in Nodes : owed[m] \in Nat /\ (owed[m] > 0 => m \in Live)
          BY OwedLive DEF IInv, TypeOK
        <5>2. \A m \in Nodes : buf[m] = buf[n] => owed'[m] = 0
          BY <2>2, <3>1, <4>2, <5>1
        <5> QED BY <1>m, <2>1, <2>2, <4>2, <5>2 DEF MapInv, UsesInv
      <4> QED BY <2>1, <4>1, <4>2
    <3>3. \A x \in Buffers \ {buf[n]} : usesBar'[x] = usesBar[x]
      BY <1>m, <2>1, <3>1, UsesStay
    <3> QED BY <1>m, <2>2, <2>5, <3>2, <3>3 DEF MapInv, UsesInv
  <2> QED BY <2>1, <2>2, <2>5, <2>6, <2>7 DEF Contract!Use
<1>10. ASSUME NEW r \in Releasers, SendRelease(r)
       PROVE  Contract!Return(buf[relNode[r]]) /\ buf[relNode[r]] \in Buffers
  <2> DEFINE m == relNode[r]
  <2>1. /\ m \in releaseList /\ m \in Nodes /\ m \in Live /\ m # cur /\ owed[m] = 0
        /\ UNCHANGED <<buf, cbBuf, owed, InLine, Undelivered>>
    BY <1>10 DEF SendRelease, IInv, TypeOK, NodesApart, Live, Done, InLine, Undelivered, InHand,
                 Queued
  <2>2. PICK l \in {"rtos", "lost"} : loan' = [loan EXCEPT ![buf[m]] = l]
    BY <1>10 DEF SendRelease, ReleaseStream
  <2>3. /\ buf[m] \in Buffers /\ loan[buf[m]] = "lent" /\ buf[m] # cbBuf
        /\ \A n \in Live \ {m} : buf[n] # buf[m]
    BY <2>1 DEF IInv, LoansDistinct
  <2>4. buf[m] \notin WaitingBufs /\ WaitingBufs' = WaitingBufs
    <3>1. m \notin Queued
      BY <2>1 DEF IInv, NodesApart
    <3>2. m \notin Undelivered
      BY <2>1, <3>1 DEF Undelivered, InHand
    <3> QED BY <1>m, <2>1, <2>3, <3>2 DEF MapInv, WaitingBufs
  <2>5. whereBar[buf[m]] = "held" /\ whereBar'[buf[m]] = l
    BY <1>m, <2>2, <2>3, <2>4 DEF MapInv, WhereInv, IInv, TypeOK
  <2>6. \A x \in Buffers \ {buf[m]} : whereBar'[x] = whereBar[x]
    BY <1>m, <2>1, <2>2, <2>4, WhereStays DEF IInv, TypeOK
  <2>7. whereBar' = [whereBar EXCEPT ![buf[m]] = l]
    BY <1>m, <2>3, <2>5, <2>6, WhereChanges
  <2>8. lineBar' = lineBar /\ usesBar' = usesBar
    BY <2>1 DEF lineBar, usesBar
  <2>9. usesBar[buf[m]] = 0
    <3>1. \A n \in Nodes : owed[n] \in Nat /\ (owed[n] > 0 => n \in Live)
      BY OwedLive DEF IInv, TypeOK
    <3>2. \A n \in Nodes : buf[n] = buf[m] => owed[n] = 0
      BY <2>1, <2>3, <3>1
    <3> QED BY <1>m, <2>3, <3>2 DEF MapInv, UsesInv
  <2> QED BY <2>3, <2>5, <2>7, <2>8, <2>9 DEF Contract!Return
<1>11. ASSUME NEW r \in Releasers, RemoveList(r) PROVE UNCHANGED Contract!vars
  <2>1. UNCHANGED <<InLine, loan, cbBuf, owed, buf>>
    BY <1>11 DEF RemoveList, InLine
  <2> QED BY <2>1, <1>s
<1>12. ASSUME NEW r \in Releasers, PushPool(r) PROVE UNCHANGED Contract!vars
  <2>1. /\ relNode[r] \in Nodes /\ relNode[r] # cur /\ relNode[r] \notin Queued
        /\ owed[relNode[r]] = 0
    BY <1>12 DEF PushPool, IInv, TypeOK, RelInv, NodesApart
  <2>2. /\ UNCHANGED <<InLine, loan, cbBuf, owed>>
        /\ \A n \in Nodes \ {relNode[r]} : buf'[n] = buf[n]
    BY <1>12 DEF PushPool, InLine, IInv, TypeOK
  <2>3. Undelivered \subseteq Nodes \ {relNode[r]}
    BY <2>1, LineNodes DEF Undelivered, InHand, IInv, TypeOK, ThrInv, Queued, RangeOf
  <2> QED BY <1>m, <2>1, <2>2, <2>3, Stutter
<1>13. ASSUME BeginInit \/ StopThread \/ MainStep PROVE UNCHANGED Contract!vars
  <2>1. UNCHANGED <<recvQueue, loan, cbBuf, owed, buf, cur>>
    BY <1>13, MainSteps
  <2>2. thr \in {"store", "dispatch"} <=> thr' \in {"store", "dispatch"}
    BY <1>13, MainSteps
  <2>3. InLine' = InLine
    BY <2>1, <2>2 DEF InLine
  <2> QED BY <2>1, <2>3, <1>s
<1>14. ASSUME UNCHANGED vars PROVE UNCHANGED Contract!vars
  BY <1>14, <1>s DEF vars, InLine
<1> QED
  <2>1. CASE \E b \in Buffers : RtosSend(b)
    BY <2>1, <1>1 DEF Contract!Next
  <2>2. CASE CallbackStep
    BY <2>2, <1>2, <1>3, <1>4 DEF CallbackStep, Contract!Next
  <2>3. CASE SpuriousWakeup \/ ThreadStep
    BY <2>3, <1>3, <1>5, <1>6, <1>7, <1>8 DEF ThreadStep, Contract!Next
  <2>4. CASE \E r \in Releasers, n \in Nodes : CheckCounter(r, n)
    BY <2>4, <1>9 DEF Contract!Next
  <2>5. CASE \E r \in Releasers : ReleaseStep(r)
    BY <2>5, <1>10, <1>11, <1>12 DEF ReleaseStep, Contract!Next
  <2>6. CASE BeginInit \/ StopThread \/ MainStep \/ UNCHANGED vars
    BY <2>6, <1>13, <1>14
  <2> QED BY <2>1, <2>2, <2>3, <2>4, <2>5, <2>6 DEF Next

\* The asynchronous engine implements the contract FrameLoan: whatever the
\* threads and a close do, frames are delivered in the order they came, and a
\* buffer goes back only after the last announced release, and only once.
THEOREM EngineImplementsContract == Spec => ImplementsContract
BY InitContract, NextContract, Invariant, PTL DEF Spec, ImplementsContract, Contract!Spec
=============================================================================
