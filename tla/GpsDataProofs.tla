--------------------------- MODULE GpsDataProofs ---------------------------
(***************************************************************************)
(* Proofs about GpsData, for any ring length, time-out, offset and number  *)
(* of messages under way: what getGPSData returns, seen from the history   *)
(* of the clock and of the messages rather than from the order of a ring   *)
(* given to it.                                                            *)
(***************************************************************************)
EXTENDS GpsData, SequenceTheorems, TLAPS

Sorted(s) == \A i, j \in 1..Len(s) : i <= j => s[i] <= s[j]

\* Who has the mutex, and what is known of the ring while the reader has it.
LockInv == /\ lock = "reader" <=> rd \in {"back", "scan"} \/ (rd = "done" /\ data # NoSample)
           /\ rd \in {"lock", "back", "scan"} => ring # <<>>
           /\ data # NoSample => rd = "done" /\ ring # <<>>
           /\ marked => data # NoSample

\* Which kind of look-up it is.
KindInv == /\ rd = "back" => stamp = Newest
           /\ rd = "scan" => stamp # Newest

\* While the clock only runs forward: samples are in order, those in the ring
\* before those under way, and none is from the future.
OrderInv ==
    ~stepped =>
        /\ Sorted(link) /\ Sorted(ring)
        /\ \A i \in 1..Len(link) : link[i] <= now
        /\ \A i \in 1..Len(ring) : ring[i] <= now
        /\ \A i \in 1..Len(ring), j \in 1..Len(link) : ring[i] <= link[j]
        /\ rcv <= now
        /\ rd # "idle" /\ stamp # Newest => stamp + Offset <= now

\* The loop has left behind only samples before the frame, but perhaps the first.
ScanInv == /\ rd = "scan" => \A j \in 1..Len(ring) :
                j < it => ring[j] # stamp /\ (j # 1 => ring[j] < stamp)
           /\ rd \in {"idle", "test", "lock"} => it = 1

IInv == /\ TypeOK /\ LockInv /\ KindInv /\ OrderInv /\ ScanInv
        /\ FrameGetsNearest /\ SilenceShown /\ PhotoGetsNewest

Constants == /\ RingLength \in Nat \ {0}
             /\ Timeout \in Nat /\ Offset \in Nat /\ MaxTime \in Nat /\ MaxLink \in Nat
             /\ MaxTime > Offset /\ NoSample \notin Nat
-----------------------------------------------------------------------------
LEMMA ConstantsHold == Constants
  BY RingAssumption, ClockAssumption, GpsNoneAssumption DEF Constants

\* Reading a message: the others move up.
LEMMA TailElements ==
    ASSUME NEW S, NEW s \in Seq(S), s # <<>>
    PROVE  /\ Head(s) = s[1] /\ s[1] \in S /\ Len(s) \in Nat \ {0}
           /\ Tail(s) \in Seq(S) /\ Len(Tail(s)) = Len(s) - 1
           /\ \A i \in 1..Len(Tail(s)) : Tail(s)[i] = s[i + 1]
  BY HeadTailProperties, LenProperties, EmptySeq, ElementOfSeq

\* Adding one at the end: the others stay.
LEMMA AppendElements ==
    ASSUME NEW S, NEW s \in Seq(S), NEW e \in S
    PROVE  /\ Append(s, e) \in Seq(S) /\ Len(s) \in Nat
           /\ Len(Append(s, e)) = Len(s) + 1
           /\ \A i \in 1..Len(s) : Append(s, e)[i] = s[i]
           /\ Append(s, e)[Len(s) + 1] = e
  BY AppendProperties, LenProperties

\* What push_back makes of the ring: the new sample last, before it the samples
\* that were there, the first one left out if it was full.
LEMMA PushBackElements ==
    ASSUME Constants, ring \in Seq(Times), Len(ring) <= RingLength, NEW ts \in Times
    PROVE  /\ PushBack(ts) \in Seq(Times) /\ PushBack(ts) # <<>>
           /\ Len(PushBack(ts)) <= RingLength
           /\ PushBack(ts)[Len(PushBack(ts))] = ts
           /\ \E d \in {0, 1} :
                 /\ Len(PushBack(ts)) = Len(ring) + 1 - d
                 /\ \A i \in 1..(Len(ring) - d) : PushBack(ts)[i] = ring[i + d]
<1>1. CASE Len(ring) < RingLength
  <2>1. PushBack(ts) = Append(ring, ts)
    BY <1>1 DEF PushBack
  <2>2. /\ PushBack(ts) \in Seq(Times) /\ Len(ring) \in Nat
        /\ Len(PushBack(ts)) = Len(ring) + 1 - 0
        /\ \A i \in 1..(Len(ring) - 0) : PushBack(ts)[i] = ring[i + 0]
        /\ PushBack(ts)[Len(PushBack(ts))] = ts
    BY <2>1, AppendElements
  <2>3. Len(PushBack(ts)) <= RingLength /\ PushBack(ts) # <<>>
    BY <1>1, <2>2 DEF Constants
  <2>4. QED BY <2>2, <2>3
<1>2. CASE ~(Len(ring) < RingLength)
  <2>1. PushBack(ts) = Append(Tail(ring), ts) /\ ring # <<>>
    BY <1>2 DEF PushBack, Constants
  <2>2. /\ Tail(ring) \in Seq(Times) /\ Len(ring) \in Nat \ {0}
        /\ Len(Tail(ring)) = Len(ring) - 1
        /\ \A i \in 1..Len(Tail(ring)) : Tail(ring)[i] = ring[i + 1]
    BY <2>1, TailElements
  <2>3. /\ PushBack(ts) \in Seq(Times)
        /\ Len(PushBack(ts)) = Len(Tail(ring)) + 1
        /\ \A i \in 1..Len(Tail(ring)) : PushBack(ts)[i] = Tail(ring)[i]
        /\ PushBack(ts)[Len(Tail(ring)) + 1] = ts
    BY <2>1, <2>2, AppendElements
  <2>4. /\ Len(PushBack(ts)) = Len(ring) + 1 - 1
        /\ \A i \in 1..(Len(ring) - 1) : PushBack(ts)[i] = ring[i + 1]
        /\ PushBack(ts)[Len(PushBack(ts))] = ts
    BY <2>2, <2>3
  <2>5. Len(PushBack(ts)) <= RingLength /\ PushBack(ts) # <<>>
    BY <2>2, <2>4 DEF Constants
  <2>6. QED BY <2>3, <2>4, <2>5
<1>3. QED BY <1>1, <1>2
-----------------------------------------------------------------------------
LEMMA InitIInv == ASSUME Constants, Init PROVE IInv
<1>1. Offset + 1 \in Times /\ Newest \in 0..MaxTime
  BY DEF Constants, Times, Newest
<1>2. <<>> \in Seq(Times) /\ Len(<<>>) = 0
  BY EmptySeq
<1>3. TypeOK
  <2>1. link \in Seq(Times) /\ Len(link) <= MaxLink /\ ring \in Seq(Times) /\ Len(ring) <= RingLength
    BY <1>2 DEF Init, Constants
  <2>2. now \in Times /\ rcv \in Times /\ stamp \in 0..MaxTime /\ it \in Nat
    BY <1>1 DEF Init
  <2>3. QED BY <2>1, <2>2 DEF Init, TypeOK
<1>4. LockInv /\ KindInv /\ ScanInv /\ FrameGetsNearest /\ SilenceShown /\ PhotoGetsNewest
  BY DEF Init, LockInv, KindInv, ScanInv, FrameGetsNearest, SilenceShown, PhotoGetsNewest, Answered
<1>5. OrderInv
  BY <1>1, <1>2 DEF Init, Constants, OrderInv, Sorted
<1>6. QED BY <1>3, <1>4, <1>5 DEF IInv

\* A message is handled while the reader is outside of its locked section.
LEMMA HandleDataIInv == ASSUME Constants, IInv, HandleData PROVE IInv'
<1>1. /\ link \in Seq(Times) /\ link # <<>> /\ ring \in Seq(Times) /\ Len(ring) <= RingLength
      /\ lock = "free" /\ link' = Tail(link) /\ rcv' = now /\ ring' = PushBack(Head(link))
      /\ UNCHANGED <<now, lock, reader, stepped>>
  BY DEF HandleData, IInv, TypeOK
<1>2. /\ Head(link) = link[1] /\ link[1] \in Times /\ Len(link) \in Nat \ {0}
      /\ link' \in Seq(Times) /\ Len(link') = Len(link) - 1
      /\ \A i \in 1..Len(link') : link'[i] = link[i + 1]
  BY <1>1, TailElements
<1>3. /\ ring' \in Seq(Times) /\ ring' # <<>> /\ Len(ring') <= RingLength
      /\ ring'[Len(ring')] = link[1]
      /\ \E d \in {0, 1} : /\ Len(ring') = Len(ring) + 1 - d
                           /\ \A i \in 1..(Len(ring) - d) : ring'[i] = ring[i + d]
  <2> DEFINE new == PushBack(Head(link))
  <2>1. Head(link) \in Times
    BY <1>2
  <2>2. /\ new \in Seq(Times) /\ new # <<>> /\ Len(new) <= RingLength
        /\ new[Len(new)] = Head(link)
        /\ \E d \in {0, 1} : /\ Len(new) = Len(ring) + 1 - d
                             /\ \A i \in 1..(Len(ring) - d) : new[i] = ring[i + d]
    BY <1>1, <2>1, PushBackElements
  <2>3. ring' = new /\ Head(link) = link[1]
    BY <1>1, <1>2
  <2> HIDE DEF new
  <2>4. QED BY <2>2, <2>3
<1>4. PICK d \in {0, 1} : /\ Len(ring') = Len(ring) + 1 - d
                          /\ \A i \in 1..(Len(ring) - d) : ring'[i] = ring[i + d]
  BY <1>3
<1>5. rd \in {"idle", "test", "lock", "done"} /\ data = NoSample /\ ~marked
  BY <1>1 DEF IInv, TypeOK, LockInv
<1>6. TypeOK'
  BY <1>1, <1>2, <1>3, <1>5 DEF IInv, TypeOK, Times, reader, Constants
<1>7. LockInv' /\ KindInv' /\ ScanInv' /\ FrameGetsNearest' /\ SilenceShown' /\ PhotoGetsNewest'
  BY <1>1, <1>3, <1>5
     DEF IInv, LockInv, KindInv, ScanInv, FrameGetsNearest, SilenceShown, PhotoGetsNewest,
         Answered, reader
<1>8. ASSUME ~stepped'
      PROVE  /\ \A i \in 1..Len(ring') : ring'[i] <= link[1] /\ ring'[i] \in Nat
             /\ Sorted(ring') /\ Sorted(link')
             /\ \A i \in 1..Len(link') : link[1] <= link'[i] /\ link'[i] <= now
  <2>1. /\ Sorted(link) /\ Sorted(ring) /\ Len(ring) \in Nat
        /\ \A i \in 1..Len(link) : link[i] <= now /\ link[i] \in Nat
        /\ \A i \in 1..Len(ring) : ring[i] <= link[1] /\ ring[i] \in Nat
    BY <1>1, <1>2, <1>8, ElementOfSeq, LenProperties DEF IInv, OrderInv, Times, Constants
  <2>2. \A i \in 1..Len(ring') : ring'[i] <= link[1] /\ ring'[i] \in Nat
    <3>1. TAKE i \in 1..Len(ring')
    <3>2. CASE i = Len(ring')
      <4>1. link[1] \in Nat
        BY <1>2 DEF Times, Constants
      <4>2. ring'[i] = link[1]
        BY <1>3, <3>2
      <4>3. QED BY <4>1, <4>2
    <3>3. CASE i # Len(ring')
      BY <1>4, <2>1, <3>3
    <3>4. QED BY <3>2, <3>3
  <2>3. Sorted(ring')
    <3>1. SUFFICES ASSUME NEW i \in 1..Len(ring'), NEW j \in 1..Len(ring'), i <= j
                   PROVE  ring'[i] <= ring'[j]
      BY DEF Sorted
    <3>2. CASE j = Len(ring')
      BY <1>3, <2>2, <3>2
    <3>3. CASE j # Len(ring')
      <4>1. /\ i \in 1..(Len(ring) - d) /\ j \in 1..(Len(ring) - d)
            /\ i + d \in 1..Len(ring) /\ j + d \in 1..Len(ring) /\ i + d <= j + d
        <5>1. d \in Nat /\ Len(ring) \in Nat /\ Len(ring') = Len(ring) + 1 - d
          BY <1>4, <2>1
        <5>2. QED BY <3>1, <3>3, <5>1
      <4>2. ring'[i] = ring[i + d] /\ ring'[j] = ring[j + d]
        BY <1>4, <4>1
      <4>3. QED BY <2>1, <4>1, <4>2 DEF Sorted
    <3>4. QED BY <3>2, <3>3
  <2>4. Sorted(link') /\ \A i \in 1..Len(link') : link[1] <= link'[i] /\ link'[i] <= now
    <3>1. \A i \in 1..Len(link') : i + 1 \in 1..Len(link) /\ link'[i] = link[i + 1]
      BY <1>2
    <3>2. \A i, j \in 1..Len(link') : i <= j => link'[i] <= link'[j]
      <4>1. TAKE i, j \in 1..Len(link')
      <4>2. i <= j => i + 1 <= j + 1
        BY <1>2
      <4>3. QED BY <2>1, <3>1, <4>2 DEF Sorted
    <3>3. \A i \in 1..Len(link') : link[1] <= link'[i] /\ link'[i] <= now
      <4>1. TAKE i \in 1..Len(link')
      <4>2. 1 <= i + 1 /\ 1 \in 1..Len(link)
        BY <1>2
      <4>3. QED BY <2>1, <3>1, <4>2 DEF Sorted
    <3>4. QED BY <3>2, <3>3 DEF Sorted
  <2>5. QED BY <2>2, <2>3, <2>4
<1>9. OrderInv'
  <2>1. SUFFICES ASSUME ~stepped' PROVE OrderInv'
    BY DEF OrderInv
  <2>2. now \in Nat /\ link[1] \in Nat /\ \A j \in 1..Len(link') : link'[j] \in Nat
    <3>1. now \in Times /\ link[1] \in Times
      BY <1>2 DEF IInv, TypeOK
    <3>2. \A j \in 1..Len(link') : link'[j] \in Times
      BY <1>2, ElementOfSeq
    <3>3. QED BY <3>1, <3>2 DEF Times, Constants
  <2>3. /\ \A i \in 1..Len(ring'), j \in 1..Len(link') : ring'[i] <= link'[j]
        /\ \A i \in 1..Len(ring') : ring'[i] <= now
    <3>1. link[1] <= now
      BY <1>1, <1>2, <2>1 DEF IInv, OrderInv
    <3>2. \A i \in 1..Len(ring') : ring'[i] \in Nat /\ ring'[i] <= link[1]
      BY <1>8, <2>1
    <3>3. \A j \in 1..Len(link') : link[1] <= link'[j]
      BY <1>8, <2>1
    <3>4. \A i \in 1..Len(ring'), j \in 1..Len(link') : ring'[i] <= link'[j]
      <4>1. TAKE i \in 1..Len(ring'), j \in 1..Len(link')
      <4>2. ring'[i] \in Nat /\ ring'[i] <= link[1] /\ link[1] <= link'[j] /\ link'[j] \in Nat
        BY <2>2, <3>2, <3>3
      <4>3. QED BY <2>2, <4>2
    <3>5. \A i \in 1..Len(ring') : ring'[i] <= now
      BY <2>2, <3>1, <3>2
    <3>6. QED BY <3>4, <3>5
  <2>4. rcv' <= now' /\ (rd' # "idle" /\ stamp' # Newest => stamp' + Offset <= now')
    BY <1>1, <2>1, <2>2 DEF IInv, OrderInv, reader
  <2>5. QED BY <1>1, <1>8, <2>1, <2>3, <2>4 DEF OrderInv
<1>10. QED BY <1>6, <1>7, <1>9 DEF IInv

\* The steps of the loop, where the ring is locked.
LEMMA ScanIInv ==
    ASSUME Constants, IInv, Back \/ ScanBetween \/ ScanEqual \/ ScanLast \/ ScanNext
    PROVE  IInv'
<1>1. /\ rd \in {"back", "scan"} /\ lock = "reader" /\ ring # <<>> /\ data = NoSample /\ ~marked
      /\ ring \in Seq(Times) /\ Len(ring) \in Nat \ {0}
      /\ \A i \in 1..Len(ring) : ring[i] \in Times /\ ring[i] \in Nat
      /\ stamp \in Nat /\ now \in Nat /\ rcv \in Nat /\ NoSample \notin Nat
      /\ Timeout \in Nat /\ Offset \in Nat
      /\ UNCHANGED <<now, link, ring, rcv, lock, stamp, stepped>>
  <2>1. /\ rd \in {"back", "scan"}
        /\ UNCHANGED <<now, link, ring, rcv, lock, stamp, stepped>>
    BY DEF Back, ScanBetween, ScanEqual, ScanLast, ScanNext
  <2>2. lock = "reader" /\ ring # <<>> /\ data = NoSample /\ ~marked
    BY <2>1 DEF IInv, LockInv
  <2>3. /\ ring \in Seq(Times) /\ now \in Times /\ rcv \in Times /\ stamp \in 0..MaxTime
        /\ Times \subseteq Nat
    BY DEF IInv, TypeOK, Times, Constants
  <2>4. Len(ring) \in Nat \ {0} /\ \A i \in 1..Len(ring) : ring[i] \in Times
    <3>1. Len(ring) \in Nat /\ Len(ring) # 0
      BY <2>2, <2>3, LenProperties, EmptySeq
    <3>2. \A i \in 1..Len(ring) : ring[i] \in Times
      BY <2>3, ElementOfSeq
    <3>3. QED BY <3>1, <3>2
  <2>5. \A i \in 1..Len(ring) : ring[i] \in Times /\ ring[i] \in Nat
    BY <2>3, <2>4
  <2>6. now \in Nat /\ rcv \in Nat /\ stamp \in Nat
    BY <2>3 DEF Constants
  <2>7. QED BY <2>1, <2>2, <2>3, <2>4, <2>5, <2>6 DEF Constants
<1>2. OrderInv' /\ (~stepped => Sorted(ring))
  BY <1>1 DEF Back, ScanBetween, ScanEqual, ScanLast, ScanNext, IInv, OrderInv
<1>3. CASE Back
  <2>1. ring[Len(ring)] \in Times /\ data' = ring[Len(ring)] /\ data' # NoSample
    BY <1>1, <1>3 DEF Back
  <2>2. TypeOK' /\ LockInv' /\ KindInv' /\ ScanInv'
    BY <1>1, <1>3, <2>1 DEF Back, IInv, TypeOK, LockInv, KindInv, ScanInv
  <2>3. FrameGetsNearest' /\ SilenceShown'
    BY <1>1, <1>3, <2>1 DEF Back, IInv, KindInv, FrameGetsNearest, SilenceShown, Answered
  <2>4. PhotoGetsNewest'
    <3>1. ~marked' /\ ring' = ring /\ stepped' = stepped
      BY <1>1, <1>3 DEF Back
    <3>2. ~stepped => \A i \in 1..Len(ring) : ring[i] <= ring[Len(ring)]
      BY <1>1, <1>2 DEF Sorted
    <3>3. QED BY <2>1, <3>1, <3>2 DEF PhotoGetsNewest
  <2>5. QED BY <1>2, <2>2, <2>3, <2>4 DEF IInv
<1>4. CASE ScanNext
  <2>1. it \in 1..Len(ring) /\ it # Len(ring) /\ it' = it + 1 /\ rd' = "scan"
    BY <1>4 DEF ScanNext, IsLast, IInv, TypeOK
  <2>2. ring[it] # stamp /\ (it # 1 => ring[it] < stamp)
    BY <1>1, <1>4, <2>1 DEF ScanNext, Between, AfterFirst, Equal
  <2>3. TypeOK' /\ LockInv' /\ KindInv'
    BY <1>1, <1>4, <2>1 DEF ScanNext, IInv, TypeOK, LockInv, KindInv
  <2>4. ScanInv'
    BY <1>1, <1>4, <2>1, <2>2 DEF ScanNext, IInv, ScanInv
  <2>5. FrameGetsNearest' /\ SilenceShown' /\ PhotoGetsNewest'
    BY <2>1 DEF FrameGetsNearest, SilenceShown, PhotoGetsNewest, Answered
  <2>6. QED BY <1>2, <2>3, <2>4, <2>5 DEF IInv
<1>5. ASSUME ScanBetween \/ ScanEqual \/ ScanLast PROVE IInv'
  <2>1. /\ rd = "scan" /\ rd' = "done" /\ it \in 1..Len(ring) /\ it' = it /\ stamp # Newest
        /\ \A j \in 1..Len(ring) : j < it => ring[j] # stamp /\ (j # 1 => ring[j] < stamp)
    BY <1>5 DEF ScanBetween, ScanEqual, ScanLast, IInv, TypeOK, KindInv, ScanInv
  <2>2. ASSUME ScanBetween
        PROVE  /\ it - 1 \in 1..Len(ring) /\ data' = ring[it - 1] /\ stamp < ring[it] /\ ~marked'
    BY <1>1, <2>1, <2>2 DEF ScanBetween, Between, AfterFirst, Found
  <2>3. ASSUME ScanEqual PROVE data' = ring[it] /\ stamp = ring[it] /\ ~marked'
    BY <1>1, <2>3 DEF ScanEqual, Equal
  <2>4. ASSUME ScanLast
        PROVE  /\ data' = ring[it] /\ it = Len(ring) /\ marked' = Silent
               /\ stamp > ring[it] \/ it = 1
    BY <1>1, <2>1, <2>4 DEF ScanLast, Between, AfterFirst, Equal, IsLast
  <2>5. \E k \in 1..Len(ring) : data' = ring[k]
    BY <1>5, <2>1, <2>2, <2>3, <2>4
  <2>6. data' \in Times /\ data' # NoSample /\ marked' \in BOOLEAN
    <3>1. data' \in Times /\ data' # NoSample
      BY <1>1, <2>5
    <3>2. marked' \in BOOLEAN
      BY <1>5 DEF ScanBetween, ScanEqual, ScanLast, Silent, IInv, TypeOK
    <3>3. QED BY <3>1, <3>2
  <2>7. TypeOK' /\ LockInv' /\ KindInv' /\ ScanInv'
    BY <1>1, <2>1, <2>6 DEF IInv, TypeOK, LockInv, KindInv, ScanInv
  <2>8. PhotoGetsNewest'
    BY <1>1, <2>1 DEF PhotoGetsNewest, Newest
  <2>9. FrameGetsNearest'
    <3>1. SUFFICES ASSUME ~stepped, NEW i \in 1..Len(ring)
                   PROVE  IF ring[i] <= stamp THEN ring[i] <= data' /\ data' <= stamp
                          ELSE data' <= ring[i]
      BY <1>1, <2>5 DEF FrameGetsNearest
    <3>2. \A a, b \in 1..Len(ring) : a <= b => ring[a] <= ring[b]
      BY <1>2, <3>1 DEF Sorted
    <3>3. CASE ScanBetween
      <4>1. i <= it - 1 \/ it <= i
        BY <2>1
      <4>2. i <= it - 1 => ring[i] <= ring[it - 1]
        BY <2>2, <3>2, <3>3
      <4>3. it <= i => ring[it] <= ring[i] /\ ring[it - 1] <= ring[i]
        BY <2>1, <2>2, <3>2, <3>3
      <4>4. it - 1 # 1 => ring[it - 1] < stamp
        BY <2>1, <2>2, <3>3
      <4>5. it - 1 = 1 => ring[1] <= ring[i]
        BY <2>1, <2>2, <3>2, <3>3
      <4>6. ring[it - 1] \in Nat /\ ring[it] \in Nat /\ ring[i] \in Nat /\ ring[1] \in Nat
        BY <1>1, <2>1, <2>2, <3>3
      <4>7. QED BY <1>1, <2>1, <2>2, <3>3, <4>1, <4>2, <4>3, <4>4, <4>5, <4>6
    <3>4. CASE ScanEqual
      <4>1. (i <= it => ring[i] <= ring[it]) /\ (it <= i => ring[it] <= ring[i])
        BY <2>1, <3>2
      <4>2. QED BY <1>1, <2>1, <2>3, <3>4, <4>1
    <3>5. CASE ScanLast
      <4>1. ring[i] <= ring[it]
        BY <2>1, <2>4, <3>2, <3>5
      <4>2. it = 1 => i = 1
        BY <2>1, <2>4, <3>5
      <4>3. QED BY <1>1, <2>1, <2>4, <3>5, <4>1, <4>2
    <3>6. QED BY <1>5, <3>3, <3>4, <3>5
  <2>10. SilenceShown'
    <3>1. SUFFICES ASSUME ~stepped
                   PROVE  /\ marked' => now - rcv > Timeout
                                        /\ (stamp > ring[Len(ring)] \/ Len(ring) = 1)
                          /\ stamp > ring[Len(ring)] /\ stamp + Offset > rcv + Timeout => marked'
      BY <1>1 DEF SilenceShown
    <3>2. ring[it] <= ring[Len(ring)] /\ stamp + Offset <= now
      BY <1>1, <1>2, <2>1, <3>1 DEF Sorted, IInv, OrderInv
    <3>3. CASE ScanBetween \/ ScanEqual
      BY <1>1, <2>1, <2>2, <2>3, <3>2, <3>3
    <3>4. CASE ScanLast
      <4>1. it = Len(ring) /\ (stamp > ring[it] \/ it = 1) /\ marked' = Silent
        BY <2>4, <3>4
      <4>2. Silent <=> now > rcv + Timeout
        BY <1>1 DEF Silent
      <4>3. now > rcv + Timeout => now - rcv > Timeout
        BY <1>1
      <4>4. stamp + Offset > rcv + Timeout => now > rcv + Timeout
        BY <1>1, <3>2
      <4>5. QED BY <4>1, <4>2, <4>3, <4>4
    <3>5. QED BY <1>5, <3>3, <3>4
  <2>11. QED BY <1>2, <2>7, <2>8, <2>9, <2>10 DEF IInv
<1>6. QED BY <1>3, <1>4, <1>5

LEMMA NextIInv == ASSUME Constants, IInv, [Next]_vars PROVE IInv'
<1> USE DEF Newest
<1>1. /\ now \in Nat /\ stamp \in Nat /\ rcv \in Nat /\ Offset \in Nat /\ MaxTime \in Nat
      /\ Timeout \in Nat /\ NoSample \notin Nat /\ now > Offset
      /\ link \in Seq(Times) /\ Len(link) \in Nat /\ Len(ring) \in Nat
      /\ \A i \in 1..Len(link) : link[i] \in Nat
      /\ \A i \in 1..Len(ring) : ring[i] \in Nat
  BY LenProperties, ElementOfSeq DEF IInv, TypeOK, Times, Constants
<1>2. CASE Tick
  <2>1. TypeOK' /\ LockInv' /\ KindInv' /\ ScanInv'
    BY <1>1, <1>2 DEF Tick, reader, IInv, TypeOK, Times, LockInv, KindInv, ScanInv
  <2>2. OrderInv'
    BY <1>1, <1>2 DEF Tick, reader, IInv, OrderInv, Sorted
  <2>3. FrameGetsNearest' /\ SilenceShown' /\ PhotoGetsNewest'
    BY <1>1, <1>2 DEF Tick, reader, IInv, FrameGetsNearest, SilenceShown, PhotoGetsNewest, Answered
  <2>4. QED BY <2>1, <2>2, <2>3 DEF IInv
<1>3. CASE SetBack
  <2>1. TypeOK' /\ LockInv' /\ KindInv' /\ ScanInv'
    BY <1>1, <1>3 DEF SetBack, reader, IInv, TypeOK, Times, LockInv, KindInv, ScanInv
  <2>2. OrderInv' /\ FrameGetsNearest' /\ SilenceShown' /\ PhotoGetsNewest'
    BY <1>3 DEF SetBack, reader, IInv, OrderInv, FrameGetsNearest, SilenceShown, PhotoGetsNewest, Answered
  <2>3. QED BY <2>1, <2>2 DEF IInv
<1>4. CASE Send
  <2>1. now \in Times /\ link' = Append(link, now) /\ Len(link) < MaxLink
        /\ UNCHANGED <<now, ring, rcv, lock, reader, stepped>>
    BY <1>4 DEF Send, IInv, TypeOK
  <2>2. /\ link' \in Seq(Times) /\ Len(link') = Len(link) + 1
        /\ \A i \in 1..Len(link) : link'[i] = link[i]
        /\ link'[Len(link) + 1] = now
    BY <1>1, <2>1, AppendElements
  <2>3. TypeOK' /\ LockInv' /\ KindInv' /\ ScanInv'
    BY <1>1, <2>1, <2>2 DEF reader, IInv, TypeOK, Constants, LockInv, KindInv, ScanInv
  <2>4. OrderInv'
    <3>1. SUFFICES ASSUME ~stepped PROVE OrderInv'
      BY <2>1 DEF OrderInv
    <3>2. /\ Sorted(link) /\ Sorted(ring) /\ rcv <= now
          /\ \A i \in 1..Len(link) : link[i] <= now
          /\ \A i \in 1..Len(ring) : ring[i] <= now
          /\ \A i \in 1..Len(ring), j \in 1..Len(link) : ring[i] <= link[j]
      BY <3>1 DEF IInv, OrderInv
    <3>4. /\ now \in Nat /\ Len(link) \in Nat
          /\ \A i \in 1..Len(link) : link[i] \in Nat
      BY <1>1, LenProperties, ElementOfSeq DEF IInv, TypeOK, Times, Constants
    <3>3. Sorted(link')
      <4>1. SUFFICES ASSUME NEW i \in 1..Len(link'), NEW j \in 1..Len(link'), i <= j
                     PROVE  link'[i] <= link'[j]
        BY DEF Sorted
      <4>2. CASE j \in 1..Len(link)
        <5>1. i \in 1..Len(link) /\ link'[i] = link[i] /\ link'[j] = link[j]
          BY <2>2, <3>4, <4>1, <4>2
        <5>2. QED BY <3>2, <4>1, <4>2, <5>1 DEF Sorted
      <4>3. CASE j = Len(link) + 1
        <5>1. link'[i] <= now
          BY <2>2, <3>2, <3>4
        <5>2. QED BY <2>2, <4>3, <5>1
      <4>4. QED BY <2>2, <3>4, <4>1, <4>2, <4>3
    <3>5. /\ \A i \in 1..Len(link') : link'[i] <= now
          /\ \A i \in 1..Len(ring), j \in 1..Len(link') : ring[i] <= link'[j]
      BY <2>2, <3>2, <3>4
    <3>6. rd # "idle" /\ stamp # Newest => stamp + Offset <= now
      BY <3>1 DEF IInv, OrderInv
    <3>7. QED BY <2>1, <3>2, <3>3, <3>5, <3>6 DEF reader, OrderInv
  <2>5. FrameGetsNearest' /\ SilenceShown' /\ PhotoGetsNewest'
    BY <2>1 DEF reader, IInv, FrameGetsNearest, SilenceShown, PhotoGetsNewest, Answered
  <2>6. QED BY <2>3, <2>4, <2>5 DEF IInv
<1>5. CASE HandleMalformed
  <2>1. /\ link # <<>> /\ link' = Tail(link)
        /\ UNCHANGED <<now, ring, rcv, lock, reader, stepped>>
    BY <1>5 DEF HandleMalformed
  <2>2. /\ link' \in Seq(Times) /\ Len(link') = Len(link) - 1
        /\ \A i \in 1..Len(link') : link'[i] = link[i + 1]
    BY <1>1, <2>1, TailElements
  <2>3. TypeOK' /\ LockInv' /\ KindInv' /\ ScanInv'
    BY <1>1, <2>1, <2>2 DEF reader, IInv, TypeOK, Constants, LockInv, KindInv, ScanInv
  <2>4. OrderInv'
    BY <1>1, <2>1, <2>2 DEF reader, IInv, OrderInv, Sorted
  <2>5. FrameGetsNearest' /\ SilenceShown' /\ PhotoGetsNewest'
    BY <2>1 DEF reader, IInv, FrameGetsNearest, SilenceShown, PhotoGetsNewest, Answered
  <2>6. QED BY <2>3, <2>4, <2>5 DEF IInv
<1>6. CASE HandleData
  BY <1>6, HandleDataIInv
<1>7. CASE Ask \/ TestEmpty \/ LockRing \/ Return
  <2>1. TypeOK' /\ UNCHANGED <<now, link, ring, rcv, stepped>>
    <3>1. UNCHANGED <<now, link, ring, rcv, stepped>>
      BY <1>7 DEF Ask, TestEmpty, LockRing, Return
    <3>2. stamp' \in 0..MaxTime /\ it' \in Nat
      BY <1>1, <1>7 DEF Ask, TestEmpty, LockRing, Return, IInv, TypeOK, Times
    <3>3. lock' \in {"free", "reader"} /\ rd' \in {"idle", "test", "lock", "back", "scan", "done"}
      BY <1>7 DEF Ask, TestEmpty, LockRing, Return, IInv, TypeOK
    <3>4. data' \in Times \cup {NoSample} /\ marked' \in BOOLEAN
      BY <1>7 DEF Ask, TestEmpty, LockRing, Return, IInv, TypeOK
    <3>5. rd' = "scan" => it' \in 1..Len(ring)
      <4>1. SUFFICES ASSUME rd' = "scan" PROVE it' \in 1..Len(ring)
        OBVIOUS
      <4>2. it' = 1 /\ ring # <<>>
        BY <1>7, <4>1 DEF Ask, TestEmpty, LockRing, Return, IInv, LockInv, ScanInv
      <4>3. Len(ring) # 0
        BY <4>2, EmptySeq DEF IInv, TypeOK
      <4>4. QED BY <1>1, <4>2, <4>3
    <3>6. QED BY <3>1, <3>2, <3>3, <3>4, <3>5 DEF IInv, TypeOK
  <2>2. LockInv' /\ KindInv'
    BY <1>1, <1>7 DEF Ask, TestEmpty, LockRing, Return, IInv, TypeOK, LockInv, KindInv
  <2>3. OrderInv'
    BY <1>1, <1>7 DEF Ask, TestEmpty, LockRing, Return, IInv, OrderInv, Sorted
  <2>4. ScanInv'
    <3>1. it' = 1 \/ rd' = "done"
      BY <1>7 DEF Ask, TestEmpty, LockRing, Return, IInv, ScanInv
    <3>2. ring' = ring
      BY <2>1
    <3>3. QED BY <1>1, <3>1, <3>2 DEF ScanInv
  <2>5. FrameGetsNearest' /\ SilenceShown' /\ PhotoGetsNewest'
    BY <1>7 DEF Ask, TestEmpty, LockRing, Return, IInv, LockInv, FrameGetsNearest, SilenceShown,
                PhotoGetsNewest, Answered
  <2>6. QED BY <2>1, <2>2, <2>3, <2>4, <2>5 DEF IInv
<1>8. CASE Back \/ ScanBetween \/ ScanEqual \/ ScanLast \/ ScanNext
  BY <1>8, ScanIInv
<1>9. CASE UNCHANGED vars
  BY <1>9 DEF vars, reader, IInv, TypeOK, LockInv, KindInv, OrderInv, Sorted, ScanInv,
              FrameGetsNearest, SilenceShown, PhotoGetsNewest, Answered
<1>10. QED
  BY <1>2, <1>3, <1>4, <1>5, <1>6, <1>7, <1>8, <1>9 DEF Next, Lookup

\* The invariant the other theorems rest on holds in every reachable state.
THEOREM Invariant == Spec => []IInv
  BY ConstantsHold, InitIInv, NextIInv, PTL DEF Spec

\* Every variable keeps its type, the iterator stays inside the ring.
THEOREM TypeCorrect == Spec => []TypeOK
<1>1. IInv => TypeOK  BY DEF IInv
<1>2. QED BY <1>1, Invariant, PTL

\* A frame gets the newest sample that is not later than it, or else the oldest
\* of the ring, as long as the clock runs forward: getGPSData's loop.
\* A photo gets the newest sample, however old, and never the mark.
THEOREM LookUpsGetNearestSample == Spec => []NearestSample
<1>1. IInv => NearestSample  BY DEF IInv, NearestSample
<1>2. QED BY <1>1, Invariant, PTL

\* Frames are marked as without GPS after the time-out's silence, and only then.
THEOREM SilenceIsShown == Spec => []SilenceShown
<1>1. IInv => SilenceShown  BY DEF IInv
<1>2. QED BY <1>1, Invariant, PTL
=============================================================================
