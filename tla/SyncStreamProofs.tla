-------------------------- MODULE SyncStreamProofs --------------------------
(***************************************************************************)
(* Proofs about SyncStream, for any set of buffers: its invariant, and     *)
(* that it implements the contract FrameLoan.                              *)
(***************************************************************************)
EXTENDS SyncStream, SequenceTheorems, TLAPS

\* What the IPCU thread knows of the frame it has.
CurInv == /\ cb = "idle" <=> cur = NoBuf
          /\ cur # NoBuf => loan[cur] = "lent" /\ cur \notin kept \cup releasing
          /\ cb \in {"call", "app", "release"} => kind[cur] # "corrupt"
          /\ cb \in {"app", "release"} => kind[cur] \in {"sample", "meta"}

\* What the application keeps, or is giving back, it was given.
KeptInv == \A b \in kept \cup releasing : loan[b] = "lent" /\ kind[b] \in {"sample", "meta"}

\* The address a frame has at each step of the callback and afterwards.
AddrInv == /\ cb = "convert" => addr[cur] = "phys"
           /\ cb \in {"call", "app"} /\ kind[cur] # "meta" => addr[cur] = IF Phys THEN "phys" ELSE "virt"
           /\ cb = "call" => addr[cur] = IF Phys THEN "phys" ELSE "virt"
           /\ \A b \in kept : kind[b] # "meta" => addr[b] = IF Phys THEN "phys" ELSE "virt"

IInv == TypeOK /\ CurInv /\ KeptInv /\ AddrInv
-----------------------------------------------------------------------------
LEMMA InitIInv == ASSUME Init PROVE IInv
  BY SyncAssumption DEF Init, IInv, TypeOK, CurInv, KeptInv, AddrInv, Kinds

\* Whatever becomes of the release message, only the one loan changes.
LEMMA ReleaseStreamLoan ==
    ASSUME TypeOK, NEW b \in Buffers, ReleaseStream(b)
    PROVE  /\ loan' \in [Buffers -> {"rtos", "lent", "lost"}]
           /\ loan'[b] \in {"rtos", "lost"}
           /\ \A c \in Buffers \ {b} : loan'[c] = loan[c]
<1>1. PICK l \in {"rtos", "lost"} : loan' = [loan EXCEPT ![b] = l]
  BY DEF ReleaseStream
<1>2. QED BY <1>1 DEF TypeOK

LEMMA NextIInv == ASSUME IInv, [Next]_vars PROVE IInv'
<1> USE SyncAssumption
<1>1. ASSUME NEW b \in Buffers, RtosSend(b) PROVE IInv'
  <2>1. PICK k \in Kinds : kind' = [kind EXCEPT ![b] = k]
    BY <1>1 DEF RtosSend
  <2>2. TypeOK'
    BY <1>1, <2>1 DEF RtosSend, IInv, TypeOK
  <2>3. b \notin kept \cup releasing
    BY <1>1 DEF RtosSend, IInv, KeptInv, TypeOK
  <2>4. CurInv' /\ KeptInv' /\ AddrInv'
    BY <1>1, <2>1, <2>3 DEF RtosSend, IInv, TypeOK, CurInv, KeptInv, AddrInv
  <2>5. QED BY <2>2, <2>4 DEF IInv
<1>2. CASE Convert
  <2>1. cur \in Buffers
    BY <1>2 DEF Convert, IInv, TypeOK, CurInv
  <2>2. TypeOK'
    BY <1>2, <2>1 DEF Convert, PhysToVirt, IInv, TypeOK
  <2>3. CurInv' /\ KeptInv'
    BY <1>2, <2>1 DEF Convert, IInv, TypeOK, CurInv, KeptInv
  <2>4. AddrInv'
    BY <1>2, <2>1 DEF Convert, PhysToVirt, IInv, TypeOK, CurInv, AddrInv
  <2>5. QED BY <2>2, <2>3, <2>4 DEF IInv
<1>3. CASE CallApplication
  <2>1. cur \in Buffers
    BY <1>3 DEF CallApplication, IInv, TypeOK, CurInv
  <2>2. TypeOK'
    BY <1>3, <2>1 DEF CallApplication, SecondConversion, PhysToVirt, IInv, TypeOK
  <2>3. CurInv' /\ KeptInv'
    BY <1>3, <2>1 DEF CallApplication, IInv, TypeOK, CurInv, KeptInv
  <2>4. AddrInv'
    BY <1>3, <2>1 DEF CallApplication, SecondConversion, PhysToVirt, IInv, TypeOK, CurInv, AddrInv
  <2>5. QED BY <2>2, <2>3, <2>4 DEF IInv
<1>4. CASE Unhandled
  BY <1>4 DEF Unhandled, IInv, TypeOK, CurInv, KeptInv, AddrInv
<1>5. CASE Returns
  <2>1. cur \in Buffers
    BY <1>5 DEF Returns, IInv, TypeOK, CurInv
  <2>2. CASE Keeps
    BY <1>5, <2>1, <2>2 DEF Returns, Keeps, IInv, TypeOK, CurInv, KeptInv, AddrInv
  <2>3. CASE GivesBack /\ UNCHANGED kept
    BY <1>5, <2>1, <2>3 DEF Returns, GivesBack, IInv, TypeOK, CurInv, KeptInv, AddrInv
  <2>4. QED BY <1>5, <2>2, <2>3 DEF Returns
<1>6. CASE Release
  <2>1. cur \in Buffers /\ cur \notin kept \cup releasing
    BY <1>6 DEF Release, IInv, TypeOK, CurInv
  <2>2. /\ loan' \in [Buffers -> {"rtos", "lent", "lost"}]
        /\ \A c \in Buffers \ {cur} : loan'[c] = loan[c]
    BY <1>6, <2>1, ReleaseStreamLoan DEF Release, IInv
  <2>3. QED
    BY <1>6, <2>1, <2>2 DEF Release, IInv, TypeOK, CurInv, KeptInv, AddrInv
<1>7. ASSUME NEW b \in Buffers, StreamRelease(b) PROVE IInv'
  BY <1>7 DEF StreamRelease, ForgetKept, IInv, TypeOK, CurInv, KeptInv, AddrInv
<1>8. ASSUME NEW b \in Buffers, StreamReleaseSend(b) PROVE IInv'
  <2>1. b \in releasing /\ b \notin kept /\ b # cur
    BY <1>8 DEF StreamReleaseSend, IInv, TypeOK, CurInv
  <2>2. /\ loan' \in [Buffers -> {"rtos", "lent", "lost"}]
        /\ \A c \in Buffers \ {b} : loan'[c] = loan[c]
    BY <1>8, ReleaseStreamLoan DEF StreamReleaseSend, IInv
  <2>3. QED
    BY <1>8, <2>1, <2>2 DEF StreamReleaseSend, IInv, TypeOK, CurInv, KeptInv, AddrInv
<1>9. CASE Open \/ Close
  BY <1>9 DEF Open, Close, IInv, TypeOK, CurInv, KeptInv, AddrInv
<1>10. CASE UNCHANGED vars
  BY <1>10 DEF vars, IInv, TypeOK, CurInv, KeptInv, AddrInv
<1>11. QED
  BY <1>1, <1>2, <1>3, <1>4, <1>5, <1>6, <1>7, <1>8, <1>9, <1>10 DEF Next, CallbackStep

\* The invariant the other theorems rest on holds in every reachable state.
THEOREM Invariant == Spec => []IInv
  BY InitIInv, NextIInv, PTL DEF Spec

\* Every variable keeps its type; no frame is kept and given back at once.
THEOREM TypeCorrect == Spec => []TypeOK
<1>1. IInv => TypeOK  BY DEF IInv
<1>2. QED BY <1>1, Invariant, PTL

\* While the application looks at a sample in a callback, or keeps it, the
\* frame is lent to Linux and its address was converted as often as it asked.
THEOREM SamplesAreReadable == Spec => []SampleReadable
<1>1. ASSUME IInv PROVE SampleReadable
  <2>1. cb = "app" => cur # NoBuf
    BY <1>1 DEF IInv, CurInv
  <2>2. QED BY <1>1, <2>1 DEF IInv, CurInv, KeptInv, AddrInv, SampleReadable
<1>2. QED BY <1>1, Invariant, PTL
-----------------------------------------------------------------------------
(* The refinement: each action is a step of the contract or a stutter.     *)

LEMMA InitContract == ASSUME Init PROVE Contract!Init
  BY SyncAssumption DEF Init, Contract!Init, whereBar, lineBar, usesBar

\* One step per action: which step of the contract it is.
LEMMA NextContract == ASSUME IInv, IInv', [Next]_vars PROVE [Contract!Next]_(Contract!vars)
<1> USE SyncAssumption
<1> DEFINE Same == whereBar' = whereBar /\ lineBar' = lineBar /\ usesBar' = usesBar
<1>0. ASSUME Same PROVE UNCHANGED Contract!vars
  BY <1>0 DEF Contract!vars
<1>1. ASSUME NEW b \in Buffers, RtosSend(b) PROVE Contract!Offer(b)
  <2>1. b \notin kept \cup releasing
    BY <1>1 DEF RtosSend, IInv, KeptInv, TypeOK
  <2>2. PICK k \in Kinds : kind' = [kind EXCEPT ![b] = k]
    BY <1>1 DEF RtosSend
  <2>3. whereBar[b] = "rtos" /\ whereBar' = [whereBar EXCEPT ![b] = "offered"]
    <3>1. /\ cb = "idle" /\ cur = NoBuf /\ cb' = "convert" /\ cur' = b /\ loan[b] = "rtos"
          /\ loan' = [loan EXCEPT ![b] = "lent"] /\ b # NoBuf
          /\ loan \in [Buffers -> {"rtos", "lent", "lost"}] /\ kind \in [Buffers -> Kinds]
      BY <1>1 DEF RtosSend, IInv, TypeOK, CurInv
    <3>2. whereBar[b] = "rtos"
      BY <3>1 DEF whereBar
    <3>3. whereBar'[b] = "offered"
      BY <2>2, <3>1 DEF whereBar
    <3>4. ASSUME NEW x \in Buffers, x # b PROVE whereBar'[x] = whereBar[x]
      BY <2>2, <3>1, <3>4 DEF whereBar
    <3>5. /\ DOMAIN whereBar = Buffers /\ DOMAIN whereBar' = Buffers
          /\ whereBar = [x \in Buffers |-> whereBar[x]] /\ whereBar' = [x \in Buffers |-> whereBar'[x]]
      BY DEF whereBar
    <3>6. QED BY <3>2, <3>3, <3>4, <3>5
  <2>4. lineBar' = lineBar
    <3>1. cb # "call" /\ cb' # "call"
      BY <1>1 DEF RtosSend
    <3>2. QED BY <3>1 DEF lineBar
  <2>a. usesBar' = usesBar
    BY <1>1, <2>1 DEF RtosSend, usesBar
  <2>5. QED BY <2>3, <2>4, <2>a DEF Contract!Offer
<1>2. ASSUME Convert PROVE Same \/ Contract!Accept(cur)
  <2>1. cur \in Buffers /\ loan[cur] = "lent" /\ cur \notin kept
    BY <1>2 DEF Convert, IInv, TypeOK, CurInv
  <2>2. CASE kind[cur] = "corrupt"
    <3>1. whereBar' = whereBar
      BY <1>2, <2>1, <2>2 DEF Convert, whereBar
    <3>2. lineBar' = lineBar /\ usesBar' = usesBar
      BY <1>2, <2>1, <2>2 DEF Convert, lineBar, usesBar
    <3>3. QED BY <3>1, <3>2
  <2>3. CASE kind[cur] # "corrupt"
    <3>1. whereBar[cur] = "offered" /\ whereBar' = [whereBar EXCEPT ![cur] = "waiting"]
      BY <1>2, <2>1, <2>3 DEF Convert, whereBar
    <3>2. lineBar = << >> /\ lineBar' = <<cur>> /\ usesBar' = usesBar
      BY <1>2, <2>1, <2>3 DEF Convert, lineBar, usesBar
    <3>3. Append(<< >>, cur) = <<cur>>
      OBVIOUS
    <3>4. QED BY <3>1, <3>2, <3>3 DEF Contract!Accept
  <2>4. QED BY <2>2, <2>3
<1>3. ASSUME CallApplication \/ Unhandled PROVE \E k \in 0 .. 1 : Contract!Deliver(k)
  <2>1. cur \in Buffers /\ loan[cur] = "lent" /\ cur \notin kept /\ kind[cur] # "corrupt" /\ cb = "call"
    BY <1>3 DEF CallApplication, Unhandled, IInv, TypeOK, CurInv
  <2>2. Head(<<cur>>) = cur /\ Tail(<<cur>>) = << >> /\ <<cur>> # << >>
    OBVIOUS
  <2>3. lineBar = <<cur>> /\ lineBar' = << >>
    BY <1>3, <2>1 DEF CallApplication, Unhandled, lineBar
  <2>4. whereBar' = [whereBar EXCEPT ![cur] = "held"]
    BY <1>3, <2>1 DEF CallApplication, Unhandled, whereBar
  <2>5. CASE CallApplication
    <3>1. usesBar' = [usesBar EXCEPT ![cur] = 1]
      BY <2>1, <2>5 DEF CallApplication, usesBar
    <3>2. Contract!Deliver(1)
      BY <2>2, <2>3, <2>4, <3>1 DEF Contract!Deliver
    <3>3. QED BY <3>2
  <2>6. CASE Unhandled
    <3>1. usesBar' = [usesBar EXCEPT ![cur] = 0]
      BY <2>1, <2>6 DEF Unhandled, usesBar
    <3>2. Contract!Deliver(0)
      BY <2>2, <2>3, <2>4, <3>1 DEF Contract!Deliver
    <3>3. QED BY <3>2
  <2>7. QED BY <1>3, <2>5, <2>6
<1>4. ASSUME Returns PROVE Same \/ Contract!Use(cur)
  <2>1. /\ cur \in Buffers /\ loan[cur] = "lent" /\ cur \notin kept
        /\ kind[cur] \in {"sample", "meta"} /\ cb = "app"
    BY <1>4 DEF Returns, IInv, TypeOK, CurInv
  <2>2. CASE Keeps
    <3>1. whereBar' = whereBar /\ lineBar' = lineBar
      BY <1>4, <2>1, <2>2 DEF Returns, Keeps, whereBar, lineBar
    <3>2. usesBar' = usesBar
      BY <1>4, <2>1, <2>2 DEF Returns, Keeps, usesBar
    <3>3. QED BY <3>1, <3>2
  <2>3. CASE GivesBack /\ UNCHANGED kept
    <3>1. whereBar[cur] = "held" /\ whereBar' = whereBar /\ lineBar' = lineBar
      BY <1>4, <2>1, <2>3 DEF Returns, GivesBack, whereBar, lineBar
    <3>2. usesBar[cur] = 1 /\ usesBar' = [usesBar EXCEPT ![cur] = 0]
      BY <1>4, <2>1, <2>3 DEF Returns, GivesBack, usesBar
    <3>3. usesBar' = [usesBar EXCEPT ![cur] = usesBar[cur] - 1]
      BY <3>2
    <3>4. QED BY <3>1, <3>2, <3>3 DEF Contract!Use
  <2>4. QED BY <1>4, <2>2, <2>3 DEF Returns
<1>5. ASSUME Release PROVE Contract!Return(cur)
  <2>1. /\ cur \in Buffers /\ loan[cur] = "lent" /\ cur \notin kept
        /\ kind[cur] \in {"sample", "meta"} /\ cb = "release"
    BY <1>5 DEF Release, IInv, TypeOK, CurInv
  <2>2. /\ loan'[cur] \in {"rtos", "lost"}
        /\ \A c \in Buffers \ {cur} : loan'[c] = loan[c]
    BY <1>5, <2>1, ReleaseStreamLoan DEF Release, IInv
  <2>3. whereBar[cur] = "held" /\ whereBar' = [whereBar EXCEPT ![cur] = loan'[cur]]
    BY <1>5, <2>1, <2>2 DEF Release, whereBar
  <2>4. lineBar' = lineBar /\ usesBar' = usesBar /\ usesBar[cur] = 0
    BY <1>5, <2>1 DEF Release, lineBar, usesBar
  <2>5. QED BY <2>2, <2>3, <2>4 DEF Contract!Return
<1>6. ASSUME NEW b \in Buffers, StreamRelease(b) PROVE Contract!Use(b)
  <2>1. loan[b] = "lent" /\ b # cur /\ kind[b] \in {"sample", "meta"}
    BY <1>6 DEF StreamRelease, IInv, KeptInv, CurInv
  <2>2. whereBar[b] = "held" /\ whereBar' = whereBar /\ lineBar' = lineBar
    BY <1>6, <2>1 DEF StreamRelease, whereBar, lineBar
  <2>3. usesBar[b] = 1 /\ usesBar' = [usesBar EXCEPT ![b] = 0]
    BY <1>6, <2>1 DEF StreamRelease, ForgetKept, usesBar
  <2>4. usesBar' = [usesBar EXCEPT ![b] = usesBar[b] - 1]
    BY <2>3
  <2>5. QED BY <2>2, <2>3, <2>4 DEF Contract!Use
<1>7. ASSUME NEW b \in Buffers, StreamReleaseSend(b) PROVE Contract!Return(b)
  <2>1. loan[b] = "lent" /\ b # cur /\ b \notin kept /\ kind[b] \in {"sample", "meta"}
    BY <1>7 DEF StreamReleaseSend, IInv, TypeOK, KeptInv, CurInv
  <2>2. /\ loan'[b] \in {"rtos", "lost"}
        /\ \A c \in Buffers \ {b} : loan'[c] = loan[c]
    BY <1>7, ReleaseStreamLoan DEF StreamReleaseSend, IInv
  <2>3. whereBar[b] = "held" /\ whereBar' = [whereBar EXCEPT ![b] = loan'[b]]
    BY <1>7, <2>1, <2>2 DEF StreamReleaseSend, whereBar
  <2>4. lineBar' = lineBar /\ usesBar' = usesBar /\ usesBar[b] = 0
    BY <1>7, <2>1 DEF StreamReleaseSend, lineBar, usesBar
  <2>5. QED BY <2>2, <2>3, <2>4 DEF Contract!Return
<1>8. ASSUME Open \/ Close \/ UNCHANGED vars PROVE Same
  BY <1>8 DEF Open, Close, vars, whereBar, lineBar, usesBar
<1>9. ASSUME Convert \/ Returns \/ Release PROVE cur \in Buffers
  BY <1>9 DEF Convert, Returns, Release, IInv, TypeOK, CurInv
<1>10. QED
  BY <1>0, <1>1, <1>2, <1>3, <1>4, <1>5, <1>6, <1>7, <1>8, <1>9
     DEF Next, CallbackStep, Contract!Next

\* The synchronous mode gives each accepted frame back once, after its only
\* consumer is done with it: callback_camif implements the contract.
THEOREM SyncImplementsContract == Spec => ImplementsContract
  BY InitContract, NextContract, Invariant, PTL DEF Spec, ImplementsContract, Contract!Spec
=============================================================================
