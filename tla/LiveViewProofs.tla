--------------------------- MODULE LiveViewProofs ---------------------------
(***************************************************************************)
(* Proofs about the live view: LiveSource, for any number of frames and of *)
(* sources, and SeiEncoder, for payloads of any length and bytes.          *)
(*                                                                         *)
(* WholeFrames needs the mutex, and that a source is never made twice: a   *)
(* writer that held a deleted one does not find it alive again between the *)
(* two parts of a frame.  WildOnlyByOverlap needs what the pointer is      *)
(* worth between callbacks.                                                *)
(***************************************************************************)
EXTENDS LiveSource, SeiEncoder, SequenceTheorems, FiniteSetTheorems, TLAPS

LockInv == /\ lock = "writer" <=> w \in {"sei", "data", "signal", "unlock"}
           /\ lock = "loop" <=> loop = "copy"

Made == {NoSource, Garbage} \cup 1..made

\* One source at a time, counted and pointed at, and none before or after.
SourceInv ==
    /\ refs = IF alive = NoSource \/ loop = "free" THEN 0 ELSE 1
    /\ trigger <=> alive # NoSource
    /\ alive \in {NoSource, made}
    /\ ptr \in Made /\ this \in Made
    /\ loop \notin {"idle"} => alive # NoSource
    /\ alive # NoSource => loop = "assign" \/ ptr = alive
    /\ w # "idle" => ptr # NoSource
    /\ w \notin {"idle", "call"} => this # NoSource

\* The parts of a buffer that exists are of one frame, but between the writes.
PartsInv ==
    alive # NoSource => seiPart = IF w = "data" /\ this = alive THEN frame ELSE dataPart

OverlapInv ==
    ~overlap =>
        /\ ~wild
        /\ w # "idle" => loop \notin {"assign", "free"}
        /\ w \notin {"idle", "call"} => this = ptr
        /\ w \notin {"idle", "call", "check"} => this = alive
        /\ event # NoSource => event = alive

IInv == TypeOK /\ LockInv /\ SourceInv /\ PartsInv /\ OverlapInv /\ WholeFrames
-----------------------------------------------------------------------------
LEMMA InitIInv == ASSUME Init PROVE IInv
<1>. USE LiveAssumption DEF Init, NoSource, NoFrame
<1>1. TypeOK
  <2>1. {started, trigger, awaiting, torn, overlap, wild} \subseteq BOOLEAN  OBVIOUS
  <2>2. 0 \in 0..MaxSources /\ 0 \in 0..FrameNumbers  OBVIOUS
  <2>3. ptr \in {NoSource, Garbage} \cup Sources  OBVIOUS
  <2>4. QED BY <2>1, <2>2, <2>3 DEF TypeOK
<1>2. SourceInv  BY DEF SourceInv, Made
<1>3. LockInv /\ PartsInv /\ WholeFrames  BY DEF LockInv, PartsInv, WholeFrames
<1>4. OverlapInv  BY DEF OverlapInv
<1>5. QED BY <1>1, <1>2, <1>3, <1>4 DEF IInv

LEMMA WriterIInv == ASSUME IInv, FrameArrives \/ WriterStep PROVE IInv'
<1>. USE LiveAssumption DEF server, buffer, writer, history, NoSource, Sources, Garbage
<1>1. TypeOK /\ LockInv /\ SourceInv /\ PartsInv /\ OverlapInv /\ WholeFrames  BY DEF IInv
<1>2. TypeOK'
  <2>. USE <1>1 DEF TypeOK
  <2>1. CASE FrameArrives  BY <2>1 DEF FrameArrives
  <2>2. CASE CallSource \/ CheckReaders  BY <2>2 DEF CallSource, CheckReaders
  <2>3. CASE LockBuffer  BY <2>3 DEF LockBuffer, TryLock
  <2>4. CASE WriteSei \/ WriteData  BY <2>4 DEF WriteSei, WriteData
  <2>5. CASE Signal  BY <2>5 DEF Signal, Triggered
  <2>6. CASE Unlock  BY <2>6 DEF Unlock
  <2>7. QED BY <2>1, <2>2, <2>3, <2>4, <2>5, <2>6 DEF WriterStep
<1>3. LockInv'
  BY <1>1 DEF LockInv, WriterStep, FrameArrives, CallSource, CheckReaders, LockBuffer, TryLock,
              WriteSei, WriteData, Signal, Unlock
<1>4. SourceInv'
  <2>1. UNCHANGED <<ptr, made, alive, refs, trigger, loop>>
    BY DEF WriterStep, FrameArrives, CallSource, CheckReaders, LockBuffer, WriteSei, WriteData,
           Signal, Unlock
  <2>2. this' \in Made'
    BY <1>1 DEF SourceInv, Made, WriterStep, FrameArrives, CallSource, CheckReaders, LockBuffer,
                WriteSei, WriteData, Signal, Unlock
  <2>3. (w' # "idle" => ptr # NoSource) /\ (w' \notin {"idle", "call"} => this' # NoSource)
    BY <1>1 DEF SourceInv, WriterStep, FrameArrives, CallSource, CheckReaders, LockBuffer, TryLock,
                WriteSei, WriteData, Signal, Unlock
  <2>4. QED BY <1>1, <2>1, <2>2, <2>3 DEF SourceInv, Made
<1>5. PartsInv'
  <2>. USE <1>1 DEF PartsInv
  <2>1. CASE FrameArrives  BY <2>1 DEF FrameArrives
  <2>2. CASE CallSource \/ CheckReaders \/ LockBuffer
    BY <2>2 DEF CallSource, CheckReaders, LockBuffer, TryLock
  <2>3. CASE WriteSei  BY <2>3 DEF WriteSei, Gone
  <2>4. CASE WriteData  BY <2>4 DEF WriteData, Gone
  <2>5. CASE Signal \/ Unlock  BY <2>5 DEF Signal, Unlock
  <2>6. QED BY <2>1, <2>2, <2>3, <2>4, <2>5 DEF WriterStep
<1>6. OverlapInv'
  <2>. USE <1>1 DEF OverlapInv
  <2>1. CASE FrameArrives  BY <2>1 DEF FrameArrives
  <2>2. CASE CallSource  BY <2>2 DEF CallSource
  <2>3. CASE CheckReaders  BY <2>3 DEF CheckReaders, NoReader, SourceInv
  <2>4. CASE LockBuffer  BY <2>4 DEF LockBuffer, TryLock
  <2>5. CASE WriteSei \/ WriteData  BY <2>5 DEF WriteSei, WriteData, Gone
  <2>6. CASE Signal  BY <2>6 DEF Signal, Gone, Triggered
  <2>7. CASE Unlock  BY <2>7 DEF Unlock
  <2>8. QED BY <2>1, <2>2, <2>3, <2>4, <2>5, <2>6, <2>7 DEF WriterStep
<1>7. WholeFrames'
  BY <1>1 DEF WholeFrames, WriterStep, FrameArrives, CallSource, CheckReaders, LockBuffer, WriteSei,
              WriteData, Signal, Unlock
<1>8. QED BY <1>2, <1>3, <1>4, <1>5, <1>6, <1>7 DEF IInv

\* Sources come, are pointed at, and go.
LEMMA SourceIInv ==
    ASSUME IInv, Construct \/ AssignPointer \/ Destroy \/ Free
    PROVE  IInv'
<1>. USE LiveAssumption DEF server, buffer, writer, history, NoSource, Sources, Garbage
<1>1. TypeOK /\ LockInv /\ SourceInv /\ PartsInv /\ OverlapInv /\ WholeFrames  BY DEF IInv
<1>2. CASE Construct
  <2>1. made' = made + 1 /\ made + 1 \in Sources /\ 1..made \subseteq 1..made'
    BY <1>1, <1>2 DEF Construct, TypeOK
  <2>2. refs' = 1  BY <1>1, <1>2 DEF Construct, SourceInv
  <2>3. TypeOK'  BY <1>1, <1>2, <2>1, <2>2 DEF Construct, TypeOK, NoFrame
  <2>4. LockInv'  BY <1>1, <1>2 DEF Construct, LockInv
  <2>5. SourceInv'
    <3>1. Made \subseteq Made'  BY <2>1 DEF Made
    <3>2. QED BY <1>1, <1>2, <2>1, <2>2, <3>1 DEF Construct, SourceInv
  <2>6. PartsInv'
    <3>1. this # made + 1  BY <1>1, <2>1 DEF SourceInv, Made, TypeOK
    <3>2. QED BY <1>2, <3>1 DEF Construct, PartsInv
  <2>7. OverlapInv'  BY <1>1, <1>2 DEF Construct, OverlapInv
  <2>8. QED BY <1>1, <1>2, <2>3, <2>4, <2>5, <2>6, <2>7 DEF Construct, IInv, WholeFrames
<1>3. CASE AssignPointer
  <2>1. alive # NoSource /\ alive = made  BY <1>1, <1>3 DEF AssignPointer, SourceInv
  <2>2. TypeOK'  BY <1>1, <1>3 DEF AssignPointer, TypeOK
  <2>3. LockInv'  BY <1>1, <1>3 DEF AssignPointer, LockInv
  <2>4. SourceInv'
    <3>1. alive \in 1..made  BY <1>1, <2>1 DEF TypeOK
    <3>2. QED BY <1>1, <1>3, <2>1, <3>1 DEF AssignPointer, SourceInv, Made
  <2>5. PartsInv'  BY <1>1, <1>3 DEF AssignPointer, PartsInv
  <2>6. OverlapInv'  BY <1>1, <1>3 DEF AssignPointer, OverlapInv
  <2>7. QED BY <1>1, <1>3, <2>2, <2>3, <2>4, <2>5, <2>6 DEF AssignPointer, IInv, WholeFrames
<1>4. CASE Destroy
  <2>1. refs' = 0  BY <1>1, <1>4 DEF Destroy, Released, SourceInv
  <2>2. TypeOK'
    <3>1. {started, trigger, awaiting, torn, overlap, wild}' \subseteq BOOLEAN
      BY <1>1, <1>4 DEF Destroy, TypeOK
    <3>2. QED BY <1>1, <1>4, <2>1, <3>1 DEF Destroy, TypeOK
  <2>3. LockInv'  BY <1>1, <1>4 DEF Destroy, LockInv
  <2>4. SourceInv'
    <3>1. UNCHANGED <<alive, made, ptr, this, trigger, w>> /\ loop' = "free" /\ loop = "idle"
          /\ alive # NoSource
      BY <1>4 DEF Destroy
    <3>2. Made' = Made  BY <3>1 DEF Made
    <3>3. QED BY <1>1, <2>1, <3>1, <3>2 DEF SourceInv
  <2>5. PartsInv'  BY <1>1, <1>4 DEF Destroy, PartsInv
  <2>6. OverlapInv'  BY <1>1, <1>4 DEF Destroy, OverlapInv
  <2>7. QED BY <1>1, <1>4, <2>2, <2>3, <2>4, <2>5, <2>6 DEF Destroy, IInv, WholeFrames
<1>5. CASE Free
  <2>1. refs = 0 /\ trigger' = FALSE /\ event' = NoSource  BY <1>1, <1>5 DEF Free, SourceInv
  <2>2. TypeOK'  BY <1>1, <1>5, <2>1 DEF Free, TypeOK
  <2>3. LockInv'  BY <1>1, <1>5 DEF Free, LockInv
  <2>4. SourceInv'  BY <1>1, <1>5, <2>1 DEF Free, SourceInv, Made
  <2>5. PartsInv'  BY <1>5 DEF Free, PartsInv
  <2>6. OverlapInv'  BY <1>1, <1>5, <2>1 DEF Free, OverlapInv
  <2>7. QED BY <1>1, <1>5, <2>2, <2>3, <2>4, <2>5, <2>6 DEF Free, IInv, WholeFrames
<1>6. QED BY <1>2, <1>3, <1>4, <1>5

LEMMA DeliveryIInv ==
    ASSUME IInv, AskNext \/ TakeEvent \/ LockOrEmpty \/ CopyOut \/ UNCHANGED vars
    PROVE  IInv'
<1>. USE LiveAssumption DEF server, buffer, writer, history, vars, NoSource, Sources, Garbage
<1>1. TypeOK /\ LockInv /\ SourceInv /\ PartsInv /\ OverlapInv /\ WholeFrames  BY DEF IInv
<1>2. UNCHANGED <<server, buffer, writer, overlap>>
  BY DEF AskNext, TakeEvent, LockOrEmpty, CopyOut
<1>3. TypeOK'
  <2>. USE <1>1 DEF TypeOK
  <2>1. CASE AskNext \/ UNCHANGED vars  BY <2>1 DEF AskNext
  <2>2. CASE TakeEvent  BY <2>2 DEF TakeEvent
  <2>3. CASE LockOrEmpty  BY <2>3 DEF LockOrEmpty
  <2>4. CASE CopyOut  BY <2>4 DEF CopyOut
  <2>5. QED BY <2>1, <2>2, <2>3, <2>4
<1>4. LockInv'  BY <1>1 DEF LockInv, AskNext, TakeEvent, LockOrEmpty, CopyOut
<1>5. SourceInv'
  <2>1. \/ /\ loop' # "free" /\ loop' # "assign"
           /\ (loop' # "idle" => alive # NoSource)
        \/ loop' = loop
    BY <1>1 DEF SourceInv, AskNext, TakeEvent, LockOrEmpty, CopyOut
  <2>2. loop' = loop \/ loop \notin {"free", "assign"}
    BY DEF AskNext, TakeEvent, LockOrEmpty, CopyOut
  <2>3. QED BY <1>1, <1>2, <2>1, <2>2 DEF SourceInv, Made
<1>6. PartsInv'  BY <1>1, <1>2 DEF PartsInv
<1>7. OverlapInv'  BY <1>1, <1>2 DEF OverlapInv, AskNext, TakeEvent, LockOrEmpty, CopyOut
<1>8. WholeFrames'
  <2>1. CASE CopyOut
    <3>1. alive # NoSource /\ w # "data"  BY <1>1, <2>1 DEF CopyOut, SourceInv, LockInv
    <3>2. seiPart = dataPart  BY <1>1, <3>1 DEF PartsInv
    <3>3. QED BY <1>1, <2>1, <3>2 DEF CopyOut, WholeFrames
  <2>2. CASE ~CopyOut  BY <1>1, <2>2 DEF WholeFrames, AskNext, TakeEvent, LockOrEmpty
  <2>3. QED BY <2>1, <2>2
<1>9. QED BY <1>3, <1>4, <1>5, <1>6, <1>7, <1>8 DEF IInv

\* The inductive invariant of the live view holds in every reachable state.
THEOREM Invariant == Spec => []IInv
<1>1. IInv /\ [Next]_vars => IInv'
  BY WriterIInv, SourceIInv, DeliveryIInv DEF Next, LoopStep
<1>2. QED BY InitIInv, <1>1, PTL DEF Spec

\* Every variable of the live view keeps its type; at most one source counts.
THEOREM TypeCorrect == Spec => []TypeOK
<1>1. IInv => TypeOK  BY DEF IInv
<1>2. QED BY <1>1, Invariant, PTL

\* No client gets the SEI of one frame with the data of another, although the
\* source may be deleted and another made while a frame is written.
THEOREM FramesStayWhole == Spec => []WholeFrames
<1>1. IInv => WholeFrames  BY DEF IInv
<1>2. QED BY <1>1, Invariant, PTL

\* The unprotected pointer does harm only if a source comes or goes during a
\* callback.
THEOREM PointerIsGoodBetweenCallbacks == Spec => []WildOnlyByOverlap
<1>1. IInv => WildOnlyByOverlap  BY DEF IInv, OverlapInv, TypeOK, WildOnlyByOverlap
<1>2. QED BY <1>1, Invariant, PTL
-----------------------------------------------------------------------------
(* The SEI encoder.  The invariant adds to SeiReadable what zero_counter   *)
(* means, that two zeros never end what was pushed, and how many           *)
(* insertions there can be.                                                *)

Ends(s) == IF s = <<>> THEN 1 ELSE s[Len(s)]

\* Two zeros are always followed by a byte that is dropped.
NoZerosLast(s) == \A k \in 1..Len(s) : k > 1 /\ s[k] = 0 /\ s[k - 1] = 0 => k # Len(s)

Counted == /\ zero_counter = 1 <=> Ends(a) = 0
           /\ 2 * (Len(a) - i) + zero_counter <= i

SeiResult == /\ pc = "done" => length = HeadLength + Len(a) /\ i = PayloadLength
             /\ pc # "done" => length = 0

SeiInv == SeiTypeOK /\ Reads(a, i) /\ NoZerosLast(a) /\ Counted /\ SeiResult
-----------------------------------------------------------------------------
LEMMA ReadFinite ==
    ASSUME NEW s, NEW k \in Nat
    PROVE  IsFiniteSet(Read(s, k)) /\ Cardinality(Read(s, k)) \in Nat
<1>1. IsFiniteSet(1..k)  BY FS_Interval
<1>2. Read(s, k) \subseteq 1..k  BY DEF Read
<1>3. QED BY <1>1, <1>2, FS_Subset, FS_CardinalityType

\* What is appended changes nothing for the bytes before it.
LEMMA AppendKeeps ==
    ASSUME NEW S, NEW s \in Seq(S), NEW b \in S
    PROVE  LET t == Append(s, b)
           IN  /\ t \in Seq(S) /\ Len(s) \in Nat /\ Len(t) = Len(s) + 1 /\ t[Len(t)] = b
               /\ \A k \in 1..Len(s) : t[k] = s[k]
               /\ \A k \in 1..Len(s) : Dropped(t, k) <=> Dropped(s, k)
               /\ \A k \in 1..Len(s) : Read(t, k) = Read(s, k)
               /\ Dropped(t, Len(t)) <=> Len(s) > 1 /\ s[Len(s)] = 0 /\ s[Len(s) - 1] = 0
<1>. DEFINE t == Append(s, b)
<1>1. /\ t \in Seq(S) /\ Len(s) \in Nat /\ Len(t) = Len(s) + 1 /\ t[Len(t)] = b
      /\ \A k \in 1..Len(s) : t[k] = s[k]
  OBVIOUS
<1>2. ASSUME NEW k \in 1..Len(s) PROVE Dropped(t, k) <=> Dropped(s, k)
  <2>1. k \in Nat /\ 1 <= k /\ k <= Len(s)  BY <1>1
  <2>2. k > 2 => k - 1 \in 1..Len(s) /\ k - 2 \in 1..Len(s)  BY <1>1, <2>1
  <2>3. k > 2 => t[k - 1] = s[k - 1] /\ t[k - 2] = s[k - 2]  BY <1>1, <2>2
  <2>4. QED BY <2>3 DEF Dropped
<1>3. ASSUME NEW k \in 1..Len(s) PROVE Read(t, k) = Read(s, k)
  <2>1. \A m \in 1..k : m \in 1..Len(s)  BY <1>1
  <2>2. QED BY <1>2, <2>1 DEF Read
<1>4. Dropped(t, Len(t)) <=> Len(s) > 1 /\ s[Len(s)] = 0 /\ s[Len(s) - 1] = 0
  <2>1. Len(t) - 1 = Len(s) /\ Len(t) - 2 = Len(s) - 1 /\ (Len(t) > 2 <=> Len(s) > 1)  BY <1>1
  <2>2. Len(s) > 1 => Len(s) \in 1..Len(s) /\ Len(s) - 1 \in 1..Len(s)  BY <1>1
  <2>3. Len(s) > 1 => t[Len(s)] = s[Len(s)] /\ t[Len(s) - 1] = s[Len(s) - 1]  BY <1>1, <2>2
  <2>4. QED BY <2>1, <2>3 DEF Dropped
<1>5. QED BY <1>1, <1>2, <1>3, <1>4

\* A byte of the payload is read as the next one.
LEMMA PushKept ==
    ASSUME NEW S, NEW s \in Seq(S), NEW b \in S, NEW n \in Nat,
           Reads(s, n), NoZerosLast(s), tmp[n + 1] = b
    PROVE  Reads(Append(s, b), n + 1)
<1>. DEFINE t == Append(s, b)
<1>. HIDE DEF t
<1>1. /\ t \in Seq(S) /\ Len(s) \in Nat /\ Len(t) = Len(s) + 1 /\ t[Len(t)] = b
      /\ \A k \in 1..Len(s) : /\ t[k] = s[k] /\ Read(t, k) = Read(s, k)
                              /\ (Dropped(t, k) <=> Dropped(s, k))
      /\ Dropped(t, Len(t)) <=> Len(s) > 1 /\ s[Len(s)] = 0 /\ s[Len(s) - 1] = 0
  BY AppendKeeps DEF t
<1>2. ~Dropped(t, Len(t))
  <2>1. Len(s) > 1 => Len(s) \in 1..Len(s)  BY <1>1
  <2>2. QED BY <1>1, <2>1 DEF NoZerosLast
<1>3. Read(t, Len(t)) = Read(s, Len(s)) \cup {Len(t)}
  <2>1. 1..Len(t) = (1..Len(s)) \cup {Len(t)}  BY <1>1
  <2>2. Read(s, Len(s)) = {m \in 1..Len(s) : ~Dropped(t, m)}  BY <1>1 DEF Read
  <2>3. QED BY <1>2, <2>1, <2>2 DEF Read
<1>4. Cardinality(Read(t, Len(t))) = n + 1
  <2>1. Len(t) \notin Read(s, Len(s))  BY <1>1 DEF Read
  <2>2. IsFiniteSet(Read(s, Len(s))) /\ Cardinality(Read(s, Len(s))) = n
    BY <1>1, ReadFinite DEF Reads
  <2>3. QED BY <1>3, <2>1, <2>2, FS_AddElement
<1>5. ASSUME NEW k \in 1..Len(t)
      PROVE  IF Dropped(t, k) THEN t[k] = 3 ELSE t[k] = tmp[Cardinality(Read(t, k))]
  <2>1. CASE k \in 1..Len(s)  BY <1>1, <2>1 DEF Reads
  <2>2. CASE k = Len(t)  BY <1>1, <1>2, <1>4, <2>2
  <2>3. QED BY <1>1, <2>1, <2>2
<1>6. QED BY <1>4, <1>5 DEF Reads, t

\* The 3 after two zeros is not read.
LEMMA PushDropped ==
    ASSUME NEW S, NEW s \in Seq(S), 3 \in S, NEW n \in Nat,
           Reads(s, n), Len(s) > 1, s[Len(s)] = 0, s[Len(s) - 1] = 0
    PROVE  Reads(Append(s, 3), n)
<1>. DEFINE t == Append(s, 3)
<1>. HIDE DEF t
<1>1. /\ t \in Seq(S) /\ Len(s) \in Nat /\ Len(t) = Len(s) + 1 /\ t[Len(t)] = 3
      /\ \A k \in 1..Len(s) : /\ t[k] = s[k] /\ Read(t, k) = Read(s, k)
                              /\ (Dropped(t, k) <=> Dropped(s, k))
      /\ Dropped(t, Len(t))
  BY AppendKeeps DEF t
<1>2. Read(t, Len(t)) = Read(s, Len(s))
  <2>1. 1..Len(t) = (1..Len(s)) \cup {Len(t)}  BY <1>1
  <2>2. Read(s, Len(s)) = {m \in 1..Len(s) : ~Dropped(t, m)}  BY <1>1 DEF Read
  <2>3. QED BY <1>1, <2>1, <2>2 DEF Read
<1>3. Cardinality(Read(t, Len(t))) = n  BY <1>2 DEF Reads
<1>4. ASSUME NEW k \in 1..Len(t)
      PROVE  IF Dropped(t, k) THEN t[k] = 3 ELSE t[k] = tmp[Cardinality(Read(t, k))]
  <2>1. CASE k \in 1..Len(s)  BY <1>1, <2>1 DEF Reads
  <2>2. CASE k = Len(t)  BY <1>1, <2>2
  <2>3. QED BY <1>1, <2>1, <2>2
<1>5. QED BY <1>3, <1>4 DEF Reads, t
-----------------------------------------------------------------------------
LEMMA EmptyReads == Reads(<<>>, 0) /\ NoZerosLast(<<>>) /\ Ends(<<>>) = 1
<1>1. Read(<<>>, 0) = {}  BY DEF Read
<1>2. Cardinality(Read(<<>>, 0)) = 0  BY <1>1, FS_EmptySet
<1>3. QED BY <1>2 DEF Reads, NoZerosLast, Ends

LEMMA PushIInv == ASSUME SeiInv, PushByte PROVE SeiInv'
<1>. DEFINE S == Bytes \cup {3}  b == tmp[i + 1]  t == Append(a, b)
<1>1. /\ a \in Seq(S) /\ i \in Nat /\ i + 1 \in 1..PayloadLength /\ Len(a) \in Nat
      /\ PayloadLength \in Nat /\ zero_counter \in {0, 1}
  BY LengthAssumption DEF SeiInv, SeiTypeOK, PushByte
<1>2. b \in Bytes /\ b \in S /\ b \in Nat
  BY <1>1, ByteAssumption DEF SeiInv, SeiTypeOK, Payloads
<1>3. /\ t \in Seq(S) /\ Len(t) = Len(a) + 1 /\ t[Len(t)] = b /\ t # <<>>
      /\ \A k \in 1..Len(a) : t[k] = a[k]
  BY <1>1, <1>2
<1>4. Reads(t, i + 1)
  BY <1>1, <1>2, PushKept DEF SeiInv
<1>5. i' = i + 1 /\ tmp' = tmp /\ pc' = pc /\ length' = length  BY DEF PushByte
<1>6. SeiResult'  BY <1>5 DEF SeiInv, SeiResult, PushByte
<1>7. CASE ZerosAfter(b) = 2
  <2>1. zero_counter = 1 /\ b = 0 /\ Ends(a) = 0  BY <1>1, <1>7 DEF ZerosAfter, SeiInv, Counted
  <2>2. Len(a) # 0 /\ a[Len(a)] = 0
    <3>1. a # <<>>  BY <2>1 DEF Ends
    <3>2. QED BY <1>1, <2>1, <3>1 DEF Ends
  <2>3. Len(t) > 1 /\ t[Len(t)] = 0 /\ t[Len(t) - 1] = 0
    <3>1. Len(a) \in 1..Len(a) /\ Len(t) - 1 = Len(a)  BY <1>1, <1>3, <2>2
    <3>2. QED BY <1>1, <1>3, <2>1, <2>2, <3>1
  <2>4. a' = Append(t, 3)
    <3>1. a' = a \o <<b, 3>>  BY <1>7 DEF PushByte, Pushed
    <3>2. QED BY <1>1, <1>2, <3>1
  <2>5. Reads(a', i + 1)
    <3>1. 3 \in S /\ i + 1 \in Nat  BY <1>1
    <3>2. Reads(Append(t, 3), i + 1)
      <4>. HIDE DEF S, t
      <4>1. QED BY <1>3, <1>4, <2>3, <3>1, PushDropped
    <3>3. QED BY <2>4, <3>2
  <2>6. /\ a' \in Seq(S) /\ Len(a') = Len(a) + 2 /\ a'[Len(a')] = 3 /\ a' # <<>>
    BY <1>3, <2>4
  <2>7. zero_counter' = 0  BY <1>7 DEF PushByte, CounterAfter
  <2>8. NoZerosLast(a')  BY <2>6 DEF NoZerosLast
  <2>9. SeiTypeOK'  BY <1>1, <1>5, <2>6, <2>7 DEF SeiInv, SeiTypeOK
  <2>10. Counted'
    <3>1. Ends(a') = 3  BY <2>6 DEF Ends
    <3>2. 2 * (Len(a) - i) + 1 <= i  BY <2>1 DEF SeiInv, Counted
    <3>3. 2 * (Len(a') - i') + zero_counter' <= i'  BY <1>1, <1>5, <2>6, <2>7, <3>2
    <3>4. QED BY <2>7, <3>1, <3>3 DEF Counted, Ends
  <2>11. QED BY <1>5, <1>6, <2>5, <2>8, <2>9, <2>10 DEF SeiInv, Reads
<1>8. CASE ZerosAfter(b) # 2
  <2>1. a' = t
    <3>1. a' = a \o <<b>>  BY <1>8 DEF PushByte, Pushed
    <3>2. QED BY <1>1, <1>2, <3>1
  <2>2. zero_counter' = ZerosAfter(b)  BY <1>8 DEF PushByte, CounterAfter
  <2>3. zero_counter' = IF b = 0 THEN 1 ELSE 0
    BY <1>1, <1>8, <2>2 DEF ZerosAfter
  <2>4. b = 0 => zero_counter = 0  BY <1>1, <1>8 DEF ZerosAfter
  <2>5. NoZerosLast(t)
    <3>1. SUFFICES ASSUME Len(t) > 1, t[Len(t)] = 0, t[Len(t) - 1] = 0 PROVE FALSE
      BY DEF NoZerosLast
    <3>2. Len(a) \in 1..Len(a) /\ Len(t) - 1 = Len(a) /\ a # <<>>  BY <1>1, <1>3, <3>1
    <3>3. a[Len(a)] = 0  BY <1>3, <3>1, <3>2
    <3>4. Ends(a) = 0  BY <3>2, <3>3 DEF Ends
    <3>5. QED BY <1>3, <2>4, <3>1, <3>4 DEF SeiInv, Counted
  <2>6. SeiTypeOK'  BY <1>1, <1>3, <1>5, <2>1, <2>3 DEF SeiInv, SeiTypeOK
  <2>7. Counted'
    <3>1. Ends(t) = b  BY <1>3 DEF Ends
    <3>2. 2 * (Len(a) - i) + zero_counter <= i  BY DEF SeiInv, Counted
    <3>3. 2 * (Len(t) - i') + zero_counter' <= i'
      <4>1. CASE b = 0  BY <1>1, <1>3, <1>5, <2>3, <2>4, <3>2, <4>1
      <4>2. CASE b # 0  BY <1>1, <1>3, <1>5, <2>3, <3>2, <4>2
      <4>3. QED BY <4>1, <4>2
    <3>4. QED BY <2>1, <2>3, <3>1, <3>3 DEF Counted, Ends
  <2>8. QED BY <1>4, <1>5, <1>6, <2>1, <2>5, <2>6, <2>7 DEF SeiInv, Reads
<1>9. QED BY <1>7, <1>8

LEMMA RestIInv == ASSUME SeiInv, Encode \/ Finish \/ UNCHANGED seiVars PROVE SeiInv'
<1>0. PayloadLength \in Nat /\ HeadLength \in Nat /\ BufferLength \in Nat  BY LengthAssumption
<1>1. CASE Encode
  <2>1. a' = <<>> /\ i' = 0 /\ zero_counter' = 0 /\ length' = 0 /\ pc' = "loop"
    BY <1>1 DEF Encode
  <2>2. Reads(a, i)' /\ NoZerosLast(a)' /\ Ends(a)' = 1
    <3>1. Read(a', 0) = {}  BY DEF Read
    <3>2. Cardinality(Read(a', 0)) = 0  BY <3>1, FS_EmptySet
    <3>3. QED BY <2>1, <3>2 DEF Reads, NoZerosLast, Ends
  <2>3. SeiTypeOK'  BY <1>0, <1>1, <2>1 DEF Encode, SeiTypeOK
  <2>4. QED BY <2>1, <2>2, <2>3 DEF SeiInv, Counted, SeiResult
<1>2. CASE Finish
  <2>1. Len(a) \in Nat /\ i = PayloadLength /\ zero_counter \in Nat /\ 2 * (Len(a) - i) + zero_counter <= i
    BY <1>2 DEF Finish, SeiInv, SeiTypeOK, Counted
  <2>2. Len(a) <= PayloadLength + (PayloadLength \div 2)  BY <1>0, <2>1
  <2>3. Len(a) + HeadLength \in 0..BufferLength  BY <1>0, <2>1, <2>2, RoomAssumption
  <2>4. SeiTypeOK'  BY <1>2, <2>3 DEF Finish, SeiInv, SeiTypeOK
  <2>5. SeiResult'  BY <1>0, <1>2, <2>1 DEF Finish, SeiResult
  <2>6. QED BY <1>2, <2>4, <2>5 DEF Finish, SeiInv, Reads, NoZerosLast, Counted, Ends
<1>3. CASE UNCHANGED seiVars
  BY <1>3 DEF seiVars, SeiInv, SeiTypeOK, Reads, NoZerosLast, Counted, Ends, SeiResult
<1>4. QED BY <1>1, <1>2, <1>3

\* The inductive invariant of the encoder holds in every reachable state.
THEOREM SeiInvariant == SeiSpec => []SeiInv
<1>1. SeiInit => SeiInv
  <2>1. SUFFICES ASSUME SeiInit PROVE SeiInv  OBVIOUS
  <2>2. SeiTypeOK  BY <2>1, LengthAssumption DEF SeiInit, SeiTypeOK
  <2>3. QED BY <2>1, <2>2, EmptyReads DEF SeiInit, SeiInv, Counted, SeiResult
<1>2. SeiInv /\ [SeiNext]_seiVars => SeiInv'  BY PushIInv, RestIInv DEF SeiNext
<1>3. QED BY <1>1, <1>2, PTL DEF SeiSpec

\* Nothing in the message looks like an end of the unit but a zero at its end.
SeiEnds == \A k \in 1..Len(a) : UnitEndsAt(Sample, k) => k = Len(a) /\ a[k] = 0

LEMMA IInvSeiEnds == ASSUME SeiInv PROVE SeiEnds
<1>. DEFINE S == Bytes \cup {3}  z == <<0, 0, 0, 1>>
<1>1. a \in Seq(S) /\ Len(a) \in Nat  BY DEF SeiInv, SeiTypeOK
<1>2. /\ Len(Sample) = Len(a) + 4
      /\ \A k \in 1..Len(a) : Sample[k] = a[k]
      /\ Sample[Len(a) + 1] = 0 /\ Sample[Len(a) + 2] = 0
  BY <1>1 DEF Sample
<1>3. SUFFICES ASSUME NEW k \in 1..Len(a), UnitEndsAt(Sample, k)
               PROVE  k = Len(a) /\ a[k] = 0
  BY DEF SeiEnds
<1>4. k \in Nat /\ 1 <= k /\ k <= Len(a)  BY <1>1
<1>5. a[k] = 0  BY <1>2, <1>3 DEF UnitEndsAt
<1>6. CASE k = Len(a)  BY <1>5, <1>6
<1>7. CASE k # Len(a)
  <2>1. k + 1 \in 1..Len(a) /\ (k + 1) - 1 = k /\ k + 1 > 1  BY <1>1, <1>4, <1>7
  <2>2. a[k + 1] = 0  BY <1>2, <1>3, <2>1 DEF UnitEndsAt
  <2>3. k + 1 # Len(a)  BY <1>5, <2>1, <2>2 DEF SeiInv, NoZerosLast
  <2>4. k + 2 \in 1..Len(a)  BY <1>1, <1>4, <2>1, <2>3
  <2>5. Dropped(a, k + 2)
    <3>1. k + 2 > 2 /\ (k + 2) - 1 = k + 1 /\ (k + 2) - 2 = k  BY <1>4
    <3>2. QED BY <1>5, <2>2, <3>1 DEF Dropped
  <2>6. a[k + 2] = 3  BY <2>4, <2>5 DEF SeiInv, Reads
  <2>7. QED BY <1>2, <1>3, <2>4, <2>6 DEF UnitEndsAt
<1>8. QED BY <1>6, <1>7

\* The player's unit is the message without the zero that may end it.
LEMMA IInvUnit == ASSUME SeiInv PROVE UnitIs(Len(a) - Lost)
<1>. DEFINE S == Bytes \cup {3}  n == Len(a) - Lost
<1>1. a \in Seq(S) /\ Len(a) \in Nat  BY DEF SeiInv, SeiTypeOK
<1>2. /\ Len(Sample) = Len(a) + 4
      /\ \A k \in 1..Len(a) : Sample[k] = a[k]
      /\ Sample[Len(a) + 1] = 0 /\ Sample[Len(a) + 2] = 0 /\ Sample[Len(a) + 3] = 0
  BY <1>1 DEF Sample
<1>3. SeiEnds  BY IInvSeiEnds
<1>4. CASE a # <<>> /\ a[Len(a)] = 0
  <2>1. Lost = 1 /\ Len(a) \in 1..Len(a)  BY <1>1, <1>4 DEF Lost
  <2>2. n \in Nat /\ n + 1 = Len(a)  BY <1>1, <2>1
  <2>. HIDE DEF n
  <2>3. UnitEndsAt(Sample, Len(a))  BY <1>1, <1>2, <1>4, <2>1 DEF UnitEndsAt
  <2>4. ASSUME NEW k \in 1..n PROVE ~UnitEndsAt(Sample, k)
    <3>1. k \in 1..Len(a) /\ k # Len(a)  BY <1>1, <2>1, <2>2
    <3>2. QED BY <1>3, <3>1 DEF SeiEnds
  <2>5. UnitIs(n)  BY <2>2, <2>3, <2>4 DEF UnitIs
  <2>6. QED BY <2>5 DEF n
<1>5. CASE ~(a # <<>> /\ a[Len(a)] = 0)
  <2>1. Lost = 0  BY <1>5 DEF Lost
  <2>2. n = Len(a)  BY <1>1, <2>1
  <2>3. UnitEndsAt(Sample, n + 1)  BY <1>1, <1>2, <2>2 DEF UnitEndsAt
  <2>4. ASSUME NEW k \in 1..n PROVE ~UnitEndsAt(Sample, k)
    <3>1. k \in 1..Len(a) /\ a # <<>>  BY <1>1, <2>2
    <3>2. QED BY <1>3, <1>5, <3>1 DEF SeiEnds
  <2>5. QED BY <2>3, <2>4 DEF UnitIs
<1>6. QED BY <1>4, <1>5

\* Without a byte at its end that is not dropped, a message reads as one byte less.
LEMMA PopKept ==
    ASSUME NEW S, NEW s \in Seq(S), NEW b \in S, NEW n \in Nat,
           Reads(Append(s, b), n), ~Dropped(Append(s, b), Len(s) + 1)
    PROVE  Reads(s, n - 1) /\ tmp[n] = b
<1>. DEFINE t == Append(s, b)
<1>. HIDE DEF t
<1>1. /\ t \in Seq(S) /\ Len(s) \in Nat /\ Len(t) = Len(s) + 1 /\ t[Len(t)] = b
      /\ \A k \in 1..Len(s) : /\ t[k] = s[k] /\ Read(t, k) = Read(s, k)
                              /\ (Dropped(t, k) <=> Dropped(s, k))
  BY AppendKeeps DEF t
<1>2. Reads(t, n) /\ ~Dropped(t, Len(t))  BY <1>1 DEF t
<1>3. Read(s, Len(s)) = Read(t, Len(t)) \ {Len(t)} /\ Len(t) \in Read(t, Len(t))
  <2>1. 1..Len(t) = (1..Len(s)) \cup {Len(t)} /\ Len(t) \notin 1..Len(s)  BY <1>1
  <2>2. Read(s, Len(s)) = {m \in 1..Len(s) : ~Dropped(t, m)}  BY <1>1 DEF Read
  <2>3. QED BY <1>2, <2>1, <2>2 DEF Read
<1>4. Cardinality(Read(s, Len(s))) = n - 1
  <2>1. IsFiniteSet(Read(t, Len(t))) /\ Cardinality(Read(t, Len(t))) = n
    BY <1>1, <1>2, ReadFinite DEF Reads
  <2>2. QED BY <1>3, <2>1, FS_RemoveElement
<1>5. ASSUME NEW k \in 1..Len(s)
      PROVE  IF Dropped(s, k) THEN s[k] = 3 ELSE s[k] = tmp[Cardinality(Read(s, k))]
  <2>1. k \in 1..Len(t)  BY <1>1
  <2>2. QED BY <1>1, <1>2, <2>1 DEF Reads
<1>6. tmp[n] = b
  <2>1. Len(t) \in 1..Len(t)  BY <1>1
  <2>2. QED BY <1>1, <1>2, <2>1 DEF Reads
<1>7. QED BY <1>4, <1>5, <1>6 DEF Reads

LEMMA FrontIsSeq ==
    ASSUME NEW S, NEW s \in Seq(S), s # <<>>
    PROVE  SubSeq(s, 1, Len(s) - 1) \in Seq(S) /\ Len(SubSeq(s, 1, Len(s) - 1)) = Len(s) - 1
<1>1. PICK n \in Nat : n = Len(s) - 1  OBVIOUS
<1>2. \A k \in 1..n : s[k] \in S  BY <1>1
<1>3. SubSeq(s, 1, n) \in Seq(S)  BY <1>2, SubSeqProperties
<1>4. Len(SubSeq(s, 1, n)) = IF 1 <= n THEN n - 1 + 1 ELSE 0  BY <1>2, SubSeqProperties
<1>5. n - 1 + 1 = n /\ (~(1 <= n) => n = 0)  OBVIOUS
<1>6. Len(SubSeq(s, 1, n)) = n
  <2>1. CASE 1 <= n  BY <1>4, <1>5, <2>1, Zenon
  <2>2. CASE ~(1 <= n)  BY <1>4, <1>5, <2>2, Zenon
  <2>3. QED BY <2>1, <2>2
<1>7. QED BY <1>1, <1>3, <1>6, Zenon

\* What the player reads of its unit.
LEMMA IInvReads ==
    ASSUME SeiInv
    PROVE  Reads(SubSeq(a, 1, Len(a) - Lost), i - Lost) /\ (Lost = 1 => tmp[i] = 0)
<1>. DEFINE S == Bytes \cup {3}  s == SubSeq(a, 1, Len(a) - 1)
<1>1. a \in Seq(S) /\ Len(a) \in Nat /\ i \in Nat /\ Reads(a, i)
  BY LengthAssumption DEF SeiInv, SeiTypeOK
<1>2. CASE a # <<>> /\ a[Len(a)] = 0
  <2>1. Lost = 1 /\ Len(a) \in 1..Len(a)  BY <1>1, <1>2 DEF Lost
  <2>2. s \in Seq(S) /\ Len(s) = Len(a) - 1 /\ 0 \in S
    <3>1. a[Len(a)] \in S  BY <1>1, <2>1
    <3>2. 0 \in S  BY <1>2, <3>1
    <3>3. s \in Seq(S) /\ Len(s) = Len(a) - 1
      <4>. HIDE DEF S
      <4>1. QED BY <1>1, <1>2, FrontIsSeq
    <3>4. QED BY <3>2, <3>3
  <2>3. a = Append(s, 0)  BY <1>1, <1>2, <2>1, <2>2
  <2>4. ~Dropped(a, Len(a))
    <3>1. Dropped(a, Len(a)) => a[Len(a)] = 3  BY <1>1, <2>1 DEF Reads
    <3>2. QED BY <1>2, <3>1
  <2>5. Len(s) + 1 = Len(a)  BY <1>1, <2>2
  <2>6. Reads(s, i - 1) /\ tmp[i] = 0
    <3>1. Reads(Append(s, 0), i) /\ ~Dropped(Append(s, 0), Len(s) + 1)
      BY <1>1, <2>3, <2>4, <2>5
    <3>. HIDE DEF S, s
    <3>2. QED BY <1>1, <2>2, <3>1, PopKept
  <2>7. QED BY <2>1, <2>6
<1>3. CASE ~(a # <<>> /\ a[Len(a)] = 0)
  <2>1. Lost = 0  BY <1>3 DEF Lost
  <2>2. SubSeq(a, 1, Len(a)) = a  BY <1>1
  <2>3. Len(a) - Lost = Len(a) /\ i - Lost = i  BY <1>1, <2>1
  <2>4. Reads(SubSeq(a, 1, Len(a) - Lost), i - Lost)  BY <1>1, <2>2, <2>3, Zenon
  <2>5. QED BY <2>1, <2>4
<1>4. QED BY <1>2, <1>3

\* Whatever bytes a sample has, a player reads it back from the SEI message made
\* of it, all but a single zero at its end, sees no start code inside, and the
\* message fits the buffers of the callers.
THEOREM EverySampleReadable == SeiSpec => []SeiReadable
<1>1. SeiInv => SeiReadable
  <2>1. SUFFICES ASSUME SeiInv PROVE SeiReadable  OBVIOUS
  <2>2. pc = "done" => length = HeadLength + Len(a) /\ length <= BufferLength /\ i = PayloadLength
    BY <2>1, LengthAssumption DEF SeiInv, SeiTypeOK, SeiResult
  <2>3. QED BY <2>1, <2>2, IInvUnit, IInvReads DEF SeiReadable
<1>2. QED BY <1>1, SeiInvariant, PTL
=============================================================================
