--------------------------- MODULE RecorderProofs ---------------------------
(***************************************************************************)
(* Proofs about Recorder, for any streams and any number of commands and   *)
(* frames.                                                                 *)
(*                                                                         *)
(* WritesInsideFile needs only the spin lock.  UndisturbedWalk needs what  *)
(* the vector's storage holds whatever is erased and added: the live       *)
(* server once, no registration twice, and a deleted one only until its    *)
(* slot is erased.  CleanRecording needs which registrations a command has *)
(* at each of its steps (RegInv) and what a walk has written (OnceInv).    *)
(***************************************************************************)
EXTENDS Recorder, SequenceTheorems, FiniteSetTheorems, TLAPS

\* f_ctx's file has a header and no trailer whenever a frame may be written.
SpinInv ==
    /\ spin = "cb" <=> cb = "write"
    /\ cb = "write" => status = "recording"
    /\ status = "recording" \/ main = "set" => fCtx # NoFile /\ file[fCtx] = "header"
    /\ main = "stop" => status = "recording"

\* The registrations in the vector: sl is its storage and n its size.
Holds(sl, n) ==
    /\ n >= 1 /\ n <= Len(sl)
    /\ \A i \in 1..n : sl[i] \in 0..starts
    /\ \A i, j \in 1..n : sl[i] = sl[j] => i = j
    /\ \E h \in 1..n : sl[h] = 0

ListInv ==
    /\ Holds(slots, size)
    /\ \A i \in 1..size : slots[i] \in freed => main = "erase" /\ i = index
    /\ freed \subseteq 1..starts
    /\ regStream[0] = LiveStream
    /\ main \in {"set", "add"} =>
           starts >= 1 /\ starts \notin freed /\ \A i \in 1..size : slots[i] # starts
    /\ main \in {"delete", "erase"} => index \in 1..size /\ slots[index] # 0
    /\ index >= 1
    /\ failedStarts <= starts

\* Frames for the live server among the first n registrations.
Due(n) == IF fStream = LiveStream /\ \E i \in 1..n : slots[i] = 0 THEN 1 ELSE 0

WalkInv ==
    /\ cb # "idle" => frame \in 1..MaxFrames
    /\ ~overlap =>
           /\ ~wild
           /\ cb # "idle" => /\ main # "erase" /\ end = size /\ itStorage = storage
                             /\ pos \in 1..(size + 1) /\ liveSaw = Due(pos - 1)
           /\ cb = "done" => pos = size + 1

IInv == TypeOK /\ SpinInv /\ ListInv /\ WalkInv /\ WritesInsideFile
-----------------------------------------------------------------------------
LEMMA InitIInv == ASSUME Init PROVE IInv
<1>. USE StreamAssumption, BoundAssumption DEF Init, NoFile
<1>1. slots \in Seq(Regs \cup {NoReg}) /\ Len(slots) = 1 /\ slots[1] = 0  BY DEF Regs
<1>2. TypeOK
  <2>1. {overlap, wild, badWrite, foreign, twice} \subseteq BOOLEAN  OBVIOUS
  <2>2. regStream \in [Regs -> Streams] /\ freed \subseteq Regs  OBVIOUS
  <2>3. /\ file \in [Files -> {"none", "header", "trailer", "failed"}]
        /\ written \in [Files -> SUBSET (1..MaxFrames)]
    OBVIOUS
  <2>4. 0 \in 0..MaxFrames /\ 0 \in 0..MaxStarts  OBVIOUS
  <2>5. QED BY <1>1, <2>1, <2>2, <2>3, <2>4 DEF TypeOK
<1>3. SpinInv  BY DEF SpinInv
<1>4. ListInv
  <2>1. Holds(slots, size)  BY <1>1 DEF Holds
  <2>2. regStream[0] = LiveStream  BY DEF Regs
  <2>3. QED BY <2>1, <2>2 DEF ListInv
<1>5. WalkInv /\ WritesInsideFile  BY DEF WalkInv, WritesInsideFile
<1>6. QED BY <1>2, <1>3, <1>4, <1>5 DEF IInv
-----------------------------------------------------------------------------
\* A step of the IPCU thread leaves the list alone.
LEMMA CallbackIInv ==
    ASSUME IInv, CallbackStep \/ \E s \in Streams : FrameArrives(s)
    PROVE  IInv'
<1>. USE BoundAssumption DEF list, dispatch, recorder, output, command, NoFile
<1>1. TypeOK /\ SpinInv /\ ListInv /\ WalkInv /\ WritesInsideFile  BY DEF IInv
<1>2. UNCHANGED <<list, status, fCtx, file, command>>
  BY DEF CallbackStep, FrameArrives, Walk, WalkWild, WalkEnds, Return, RecorderLock, Write
<1>3. ListInv'  BY <1>1, <1>2 DEF ListInv, Holds
<1>4. CASE \E s \in Streams : FrameArrives(s)
  <2>1. PICK s \in Streams : FrameArrives(s)  BY <1>4
  <2>2. /\ frame' = frame + 1 /\ frame < MaxFrames /\ fStream' = s
        /\ pos' = 1 /\ end' = size /\ itStorage' = storage /\ liveSaw' = 0
        /\ cb = "idle" /\ cb' = "walk" /\ overlap' = (overlap \/ main \in {"delete", "erase"})
        /\ UNCHANGED <<spin, output, wild>>
    BY <2>1 DEF FrameArrives
  <2>3. frame' \in 1..MaxFrames  BY <1>1, <2>2 DEF TypeOK
  <2>4. TypeOK'
    <3>1. {overlap, wild, badWrite, foreign, twice}' \subseteq BOOLEAN  BY <1>1, <2>2 DEF TypeOK
    <3>2. size \in Nat  BY <1>1 DEF TypeOK
    <3>3. QED BY <1>1, <1>2, <2>2, <2>3, <3>1, <3>2 DEF TypeOK
  <2>5. SpinInv'  BY <1>1, <1>2, <2>2 DEF SpinInv
  <2>6. WalkInv'
    <3>1. Due(pos - 1)' = 0
      <4>1. pos' - 1 = 0 /\ 1..0 = {}  BY <2>2
      <4>2. QED BY <4>1 DEF Due
    <3>2. size \in Nat  BY <1>1 DEF TypeOK
    <3>3. ~overlap' => ~overlap /\ main # "erase"  BY <2>2
    <3>4. 1 \in 1..(size + 1)  BY <1>1, <3>2 DEF ListInv, Holds
    <3>5. size' = size /\ storage' = storage /\ main' = main  BY <1>2
    <3>. HIDE DEF list, dispatch, recorder, output, command
    <3>6. QED BY <1>1, <2>2, <2>3, <3>1, <3>3, <3>4, <3>5 DEF WalkInv
  <2>7. QED BY <1>1, <1>3, <2>2, <2>4, <2>5, <2>6 DEF IInv, WritesInsideFile
<1>5. CASE Walk
  <2>1. /\ cb = "walk" /\ pos <= end /\ ~Dangling /\ pos' = pos + 1
        /\ liveSaw' = IF slots[pos] = 0 /\ regStream[slots[pos]] = fStream
                      THEN liveSaw + 1 ELSE liveSaw
        /\ cb' \in {"lock", "walk"}
        /\ UNCHANGED <<frame, fStream, end, itStorage, recorder, output, overlap, wild>>
    BY <1>5 DEF Walk
  <2>2. TypeOK'
    <3>1. liveSaw' \in Nat /\ pos' \in Nat  BY <1>1, <2>1 DEF TypeOK
    <3>2. QED BY <1>1, <1>2, <2>1, <3>1 DEF TypeOK
  <2>3. SpinInv'  BY <1>1, <1>2, <2>1 DEF SpinInv
  <2>4. WalkInv'
    <3>1. ASSUME ~overlap PROVE pos' \in 1..(size + 1) /\ liveSaw' = Due(pos - 1)'
      <4>1. end = size /\ pos \in 1..size /\ liveSaw = Due(pos - 1) /\ size \in Nat
        BY <1>1, <2>1, <3>1 DEF WalkInv, TypeOK
      <4>2. Due(pos - 1)' = Due(pos)
        <5>1. pos' - 1 = pos /\ UNCHANGED <<fStream, slots>>  BY <1>2, <2>1, <4>1
        <5>2. QED BY <5>1 DEF Due
      <4>3. CASE slots[pos] = 0
        <5>1. \A i \in 1..(pos - 1) : slots[i] # 0
          BY <1>1, <4>1, <4>3 DEF ListInv, Holds
        <5>2. pos \in 1..pos  BY <4>1
        <5>3. regStream[slots[pos]] = LiveStream  BY <1>1, <4>3 DEF ListInv
        <5>4. QED BY <2>1, <4>1, <4>2, <4>3, <5>1, <5>2, <5>3 DEF Due
      <4>4. CASE slots[pos] # 0
        <5>1. 1..pos = (1..(pos - 1)) \cup {pos}  BY <4>1
        <5>2. QED BY <2>1, <4>1, <4>2, <4>4, <5>1 DEF Due
      <4>5. QED BY <4>1, <4>3, <4>4, <2>1
    <3>2. QED BY <1>1, <1>2, <2>1, <3>1 DEF WalkInv
  <2>5. QED BY <1>1, <1>3, <2>1, <2>2, <2>3, <2>4 DEF IInv, WritesInsideFile
<1>6. CASE WalkWild
  <2>1. /\ cb = "walk" /\ pos <= end /\ Dangling /\ wild' = TRUE /\ cb' = "done"
        /\ UNCHANGED <<frame, fStream, pos, end, itStorage, liveSaw, recorder, output, overlap>>
    BY <1>6 DEF WalkWild
  <2>2. overlap
    <3>1. SUFFICES ASSUME ~overlap PROVE FALSE  OBVIOUS
    <3>2. itStorage = storage /\ pos \in 1..size /\ main # "erase"
      BY <1>1, <2>1, <3>1 DEF WalkInv, TypeOK
    <3>3. slots[pos] \in 0..starts /\ slots[pos] \notin freed /\ starts \in 0..MaxStarts
      BY <1>1, <3>2 DEF ListInv, Holds, TypeOK
    <3>4. slots[pos] # NoReg  BY <3>3 DEF NoReg
    <3>5. QED BY <2>1, <3>2, <3>3, <3>4 DEF Dangling
  <2>3. TypeOK'
    <3>1. {overlap, wild, badWrite, foreign, twice}' \subseteq BOOLEAN  BY <1>1, <2>1 DEF TypeOK
    <3>2. QED BY <1>1, <1>2, <2>1, <3>1 DEF TypeOK
  <2>4. SpinInv'  BY <1>1, <1>2, <2>1 DEF SpinInv
  <2>5. WalkInv'  BY <1>1, <2>1, <2>2 DEF WalkInv
  <2>6. QED BY <1>1, <1>3, <2>1, <2>3, <2>4, <2>5 DEF IInv, WritesInsideFile
<1>7. CASE WalkEnds \/ Return \/ RecorderLock
  <2>1. /\ cb # "idle" /\ cb # "write"
        /\ UNCHANGED <<frame, fStream, pos, end, itStorage, liveSaw, output, overlap, wild>>
    BY <1>7 DEF WalkEnds, Return, RecorderLock
  <2>2. SpinInv'  BY <1>1, <1>2, <1>7 DEF SpinInv, WalkEnds, Return, RecorderLock
  <2>3. TypeOK'
    <3>1. spin' \in {"free", "cb"} /\ cb' \in {"idle", "walk", "write", "done"}
      BY <1>1, <1>7 DEF TypeOK, WalkEnds, Return, RecorderLock
    <3>2. QED BY <1>1, <1>2, <2>1, <3>1 DEF TypeOK
  <2>4. WalkInv'
    <3>1. Due(pos - 1)' = Due(pos - 1)  BY <1>2, <2>1 DEF Due
    <3>2. cb' = "done" => cb = "walk" /\ pos > end  BY <1>7 DEF WalkEnds, Return, RecorderLock
    <3>3. ~overlap /\ cb' = "done" => pos = size + 1
      BY <1>1, <2>1, <3>2 DEF WalkInv, TypeOK
    <3>4. QED BY <1>1, <1>2, <2>1, <3>1, <3>3 DEF WalkInv
  <2>5. QED BY <1>1, <1>3, <2>1, <2>2, <2>3, <2>4 DEF IInv, WritesInsideFile
<1>8. CASE Write
  <2>1. fCtx # NoFile /\ file[fCtx] = "header"  BY <1>1, <1>8 DEF Write, SpinInv
  <2>2. /\ cb = "write" /\ cb' = "walk" /\ spin' = "free"
        /\ written' = [written EXCEPT ![fCtx] = @ \cup {frame}]
        /\ foreign' = (foreign \/ regStream[fCtx] # fStream)
        /\ twice' = (twice \/ frame \in written[fCtx])
        /\ UNCHANGED <<badWrite, frame, fStream, pos, end, itStorage, liveSaw, overlap, wild>>
    BY <1>8, <2>1 DEF Write, Unlock
  <2>3. TypeOK'
    <3>1. {overlap, wild, badWrite, foreign, twice}' \subseteq BOOLEAN  BY <1>1, <2>2 DEF TypeOK
    <3>2. frame \in 1..MaxFrames  BY <1>1, <2>2 DEF WalkInv
    <3>3. written' \in [Files -> SUBSET (1..MaxFrames)]  BY <1>1, <2>2, <3>2 DEF TypeOK
    <3>4. QED BY <1>1, <1>2, <2>2, <3>1, <3>3 DEF TypeOK
  <2>4. SpinInv'  BY <1>1, <1>2, <2>2 DEF SpinInv
  <2>5. WalkInv'
    <3>1. Due(pos - 1)' = Due(pos - 1)  BY <1>2, <2>2 DEF Due
    <3>2. QED BY <1>1, <1>2, <2>2, <3>1 DEF WalkInv
  <2>6. QED BY <1>1, <1>3, <2>2, <2>3, <2>4, <2>5 DEF IInv, WritesInsideFile
<1>9. QED BY <1>4, <1>5, <1>6, <1>7, <1>8 DEF CallbackStep
-----------------------------------------------------------------------------
\* A step of the main thread that leaves the vector alone.
LEMMA CommandIInv ==
    ASSUME IInv,
           \/ \E s \in Streams : VideoStart(s)
           \/ SetRecording \/ VideoStop \/ StopRecord \/ Scan \/ Exit \/ UNCHANGED vars
    PROVE  IInv'
<1>. USE BoundAssumption DEF list, dispatch, recorder, output, command, NoFile, vars
<1>1. TypeOK /\ SpinInv /\ ListInv /\ WalkInv /\ WritesInsideFile  BY DEF IInv
<1>2. UNCHANGED <<slots, size, storage, freed, dispatch, spin, output, overlap, wild>>
  BY DEF VideoStart, SetRecording, VideoStop, StopRecord, Scan, Exit
<1>3. WalkInv'
  <2>1. main' # "erase" \/ main' = main
    BY DEF VideoStart, SetRecording, VideoStop, StopRecord, Scan, Exit
  <2>2. Due(pos - 1)' = Due(pos - 1)  BY <1>2 DEF Due
  <2>3. QED BY <1>1, <1>2, <2>1, <2>2 DEF WalkInv
<1>4. CASE \E s \in Streams : VideoStart(s)
  <2>1. PICK s \in Streams : VideoStart(s)  BY <1>4
  <2>2. /\ main = "idle" /\ status # "recording" /\ starts < MaxStarts /\ starts' = starts + 1
        /\ regStream' = [regStream EXCEPT ![starts + 1] = s]
        /\ main' \in {"set", "add"} /\ fCtx' \in {NoFile, starts + 1}
        /\ \E v \in {"header", "failed"} : file' = [file EXCEPT ![starts + 1] = v]
        /\ main' = "set" => /\ fCtx' = starts + 1
                            /\ file' = [file EXCEPT ![starts + 1] = "header"]
        /\ failedStarts' \in {failedStarts, failedStarts + 1}
        /\ UNCHANGED <<status, index>>
    BY <2>1 DEF VideoStart, AlreadyRecording
  <2>3. starts \in Nat /\ starts + 1 \in Files /\ starts + 1 \in Regs /\ starts + 1 # 0
    BY <1>1, <2>2 DEF TypeOK, Files, Regs
  <2>4. SpinInv'  BY <1>1, <1>2, <2>2, <2>3 DEF SpinInv, TypeOK
  <2>5. ListInv'
    <3>1. Holds(slots, size)'  BY <1>1, <1>2, <2>2, <2>3 DEF ListInv, Holds
    <3>2. regStream'[0] = LiveStream  BY <1>1, <2>2, <2>3 DEF ListInv, TypeOK, Regs
    <3>3. starts' \notin freed /\ \A i \in 1..size : slots[i] # starts'
      BY <1>1, <2>2, <2>3 DEF ListInv, Holds
    <3>4. freed \subseteq 1..starts'  BY <1>1, <2>2, <2>3 DEF ListInv
    <3>5. \A i \in 1..size : slots[i] \notin freed  BY <1>1, <2>2 DEF ListInv
    <3>6. failedStarts' <= starts'  BY <1>1, <2>2, <2>3 DEF ListInv, TypeOK
    <3>7. QED BY <1>1, <1>2, <2>2, <2>3, <3>1, <3>2, <3>3, <3>4, <3>5, <3>6 DEF ListInv
  <2>6. TypeOK'
    <3>1. file' \in [Files -> {"none", "header", "trailer", "failed"}]
      BY <1>1, <2>2 DEF TypeOK
    <3>2. regStream' \in [Regs -> Streams]  BY <1>1, <2>2, <2>3 DEF TypeOK
    <3>3. starts' \in 0..MaxStarts  BY <2>2, <2>3
    <3>4. failedStarts' \in 0..MaxStarts  BY <1>1, <2>2, <2>3 DEF TypeOK, ListInv
    <3>5. fCtx' \in Files \cup {NoFile}  BY <2>2, <2>3
    <3>6. QED BY <1>1, <1>2, <2>2, <3>1, <3>2, <3>3, <3>4, <3>5 DEF TypeOK
  <2>7. QED BY <1>1, <1>2, <1>3, <2>4, <2>5, <2>6 DEF IInv, WritesInsideFile
<1>5. CASE SetRecording \/ VideoStop \/ Exit \/ UNCHANGED vars
  <2>1. /\ UNCHANGED <<regStream, fCtx, file, index, starts, failedStarts>>
        /\ status' \in {status, "recording"}
        /\ main' \in {"add", "stop", "exited", main}
    BY <1>5 DEF SetRecording, VideoStop, Exit
  <2>2. SpinInv'  BY <1>1, <1>2, <1>5 DEF SpinInv, SetRecording, VideoStop, Exit
  <2>3. TypeOK'  BY <1>1, <1>2, <2>1 DEF TypeOK
  <2>4. ListInv'
    <3>1. main' \in {"set", "add"} => main \in {"set", "add"}
      BY <1>5 DEF SetRecording, VideoStop, Exit
    <3>2. main' = main \/ (main \notin {"delete", "erase"} /\ main' \notin {"delete", "erase"})
      BY <1>5 DEF SetRecording, VideoStop, Exit
    <3>3. Holds(slots, size)'  BY <1>1, <1>2, <2>1 DEF ListInv, Holds
    <3>4. QED BY <1>1, <1>2, <2>1, <3>1, <3>2, <3>3 DEF ListInv
  <2>5. QED BY <1>1, <1>2, <1>3, <2>2, <2>3, <2>4 DEF IInv, WritesInsideFile
<1>6. CASE StopRecord
  <2>1. /\ main = "stop" /\ spin = "free" /\ status' = "ready" /\ main' = "scan" /\ index' = 1
        /\ file' = [file EXCEPT ![fCtx] = "trailer"]
        /\ UNCHANGED <<regStream, fCtx, starts, failedStarts>>
    BY <1>6 DEF StopRecord, LockFree
  <2>2. SpinInv'  BY <1>1, <1>2, <2>1 DEF SpinInv
  <2>3. TypeOK'
    <3>1. file' \in [Files -> {"none", "header", "trailer", "failed"}]
      BY <1>1, <2>1 DEF TypeOK
    <3>2. QED BY <1>1, <1>2, <2>1, <3>1 DEF TypeOK
  <2>4. ListInv'
    <3>1. Holds(slots, size)'  BY <1>1, <1>2, <2>1 DEF ListInv, Holds
    <3>2. QED BY <1>1, <1>2, <2>1, <3>1 DEF ListInv
  <2>5. QED BY <1>1, <1>2, <1>3, <2>2, <2>3, <2>4 DEF IInv, WritesInsideFile
<1>7. CASE Scan
  <2>1. /\ main = "scan" /\ main' \in {"scan", "idle", "delete"} /\ index' \in {index, index + 1}
        /\ main' = "delete" => index' = index /\ index <= size /\ slots[index] # 0
        /\ UNCHANGED <<regStream, status, fCtx, file, starts, failedStarts>>
    BY <1>7 DEF Scan, IsRecorder
  <2>2. SpinInv'  BY <1>1, <1>2, <2>1 DEF SpinInv
  <2>3. index \in Nat /\ index >= 1 /\ size \in Nat  BY <1>1 DEF TypeOK, ListInv
  <2>4. TypeOK'  BY <1>1, <1>2, <2>1, <2>3 DEF TypeOK
  <2>5. ListInv'
    <3>1. Holds(slots, size)'  BY <1>1, <1>2, <2>1 DEF ListInv, Holds
    <3>2. index' >= 1 /\ (main' = "delete" => index' \in 1..size)  BY <2>1, <2>3
    <3>3. QED BY <1>1, <1>2, <2>1, <3>1, <3>2 DEF ListInv
  <2>6. QED BY <1>1, <1>2, <1>3, <2>2, <2>4, <2>5 DEF IInv, WritesInsideFile
<1>8. QED BY <1>4, <1>5, <1>6, <1>7

\* A step of the main thread that only changes the vector, in a walk or not.
LEMMA ListIInv ==
    ASSUME IInv, ListInv', TypeOK',
           main \notin {"set", "stop"}, main' \notin {"set", "stop"},
           overlap' = (overlap \/ cb # "idle"),
           UNCHANGED <<dispatch, recorder, output, wild>>
    PROVE  IInv'
<1>. USE DEF dispatch, recorder, output
<1>1. SpinInv'  BY DEF IInv, SpinInv
<1>2. WalkInv'  BY DEF IInv, WalkInv
<1>3. QED BY <1>1, <1>2 DEF IInv, WritesInsideFile

\* addConsumer puts the current registration behind the others, whether the
\* vector has room or moves.
LEMMA AddSlots ==
    ASSUME TypeOK, ListInv, AddConsumer
    PROVE  /\ size \in Nat /\ size >= 1 /\ starts \in Nat /\ starts >= 1 /\ size' = size + 1
           /\ slots' \in Seq(Regs \cup {NoReg}) /\ size + 1 <= Len(slots')
           /\ \A i \in 1..(size + 1) : slots'[i] = IF i = size + 1 THEN starts ELSE slots[i]
<1>. USE BoundAssumption
<1>1. main = "add" /\ size' = size + 1  BY DEF AddConsumer
<1>. DEFINE S == Regs \cup {NoReg}
<1>2. /\ slots \in Seq(S) /\ size \in Nat /\ size >= 1 /\ size <= Len(slots) /\ Len(slots) \in Nat
      /\ starts \in Nat /\ starts \in S /\ NoReg \in S /\ starts >= 1
      /\ \A i \in 1..size : slots[i] \in S
  <2>1. slots \in Seq(S) /\ size \in Nat /\ starts \in 0..MaxStarts  BY DEF TypeOK
  <2>2. size >= 1 /\ size <= Len(slots) /\ starts >= 1  BY <1>1 DEF ListInv, Holds
  <2>3. \A i \in 1..Len(slots) : slots[i] \in S  BY <2>1
  <2>4. Len(slots) \in Nat  BY <2>1
  <2>5. \A i \in 1..size : i \in 1..Len(slots)  BY <2>1, <2>2, <2>4
  <2>6. starts \in S  BY <2>1 DEF Regs
  <2>7. QED BY <2>1, <2>2, <2>3, <2>4, <2>5, <2>6
<1>3. /\ slots' \in Seq(S) /\ size + 1 <= Len(slots')
      /\ \A i \in 1..(size + 1) : slots'[i] = IF i = size + 1 THEN starts ELSE slots[i]
  <2>1. CASE HasRoom
    <3>1. slots' = [slots EXCEPT ![size + 1] = starts]  BY <2>1 DEF AddConsumer
    <3>2. size + 1 \in 1..Len(slots)  BY <1>2, <2>1 DEF HasRoom
    <3>3. \A i \in 1..(size + 1) : i \in 1..Len(slots)  BY <1>2, <3>2
    <3>. HIDE DEF S
    <3>4. /\ slots' \in Seq(S) /\ Len(slots') = Len(slots)
          /\ \A j \in 1..Len(slots) : slots'[j] = IF j = size + 1 THEN starts ELSE slots[j]
      BY <1>2, <3>1, <3>2, ExceptSeq
    <3>5. QED BY <1>2, <3>2, <3>3, <3>4
  <2>2. CASE ~HasRoom
    <3>1. slots' = [i \in 1..(2 * size) |-> IF i <= size THEN slots[i]
                                            ELSE IF i = size + 1 THEN starts ELSE NoReg]
      BY <2>2 DEF AddConsumer
    <3>. HIDE DEF S
    <3>2. \A i \in 1..(2 * size) :
             (IF i <= size THEN slots[i] ELSE IF i = size + 1 THEN starts ELSE NoReg) \in S
      BY <1>2
    <3>3. slots' \in [1..(2 * size) -> S] /\ 2 * size \in Nat  BY <1>2, <3>1, <3>2
    <3>4. slots' \in Seq(S) /\ Len(slots') = 2 * size  BY <3>3
    <3>5. \A i \in 1..(size + 1) : i \in 1..(2 * size) /\ (i <= size <=> i # size + 1)
      BY <1>2
    <3>6. QED BY <1>2, <3>1, <3>4, <3>5
  <2>3. QED BY <2>1, <2>2
<1>4. QED BY <1>1, <1>2, <1>3

LEMMA AddIInv == ASSUME IInv, AddConsumer PROVE IInv'
<1>. USE BoundAssumption DEF list, dispatch, recorder, output, command
<1>1. TypeOK /\ ListInv  BY DEF IInv
<1>2. /\ main = "add" /\ main' = "idle" /\ size' = size + 1
      /\ overlap' = (overlap \/ cb # "idle")
      /\ storage' \in {storage, storage + 1}
      /\ UNCHANGED <<freed, regStream, dispatch, recorder, output, index, starts, failedStarts, wild>>
  BY DEF AddConsumer
<1>3. /\ size \in Nat /\ size >= 1 /\ starts \in Nat /\ starts >= 1
      /\ slots' \in Seq(Regs \cup {NoReg}) /\ size + 1 <= Len(slots')
      /\ \A i \in 1..(size + 1) : slots'[i] = IF i = size + 1 THEN starts ELSE slots[i]
  BY <1>1, AddSlots
<1>4. TypeOK'
  <2>1. {overlap, wild, badWrite, foreign, twice}' \subseteq BOOLEAN  BY <1>1, <1>2 DEF TypeOK
  <2>2. size' \in 0..Len(slots')  BY <1>2, <1>3
  <2>3. storage' \in Nat  BY <1>1, <1>2 DEF TypeOK
  <2>4. QED BY <1>1, <1>2, <1>3, <2>1, <2>2, <2>3 DEF TypeOK
<1>5. ListInv'
  <2>1. /\ \A i \in 1..size : slots[i] \in 0..starts /\ slots[i] \notin freed /\ slots[i] # starts
        /\ \A i, j \in 1..size : slots[i] = slots[j] => i = j
        /\ starts \notin freed
    BY <1>1, <1>2 DEF ListInv, Holds
  <2>2. \A i \in 1..(size + 1) : i \in 1..size \/ i = size + 1  BY <1>3
  <2>3. \A i \in 1..size : slots'[i] = slots[i] /\ i \in 1..(size + 1)  BY <1>3
  <2>4. slots'[size + 1] = starts  BY <1>3
  <2>5. \A i \in 1..(size + 1) : slots'[i] \in 0..starts /\ slots'[i] \notin freed
    BY <1>3, <2>1, <2>2, <2>3, <2>4
  <2>6. \A i, j \in 1..(size + 1) : slots'[i] = slots'[j] => i = j
    BY <2>1, <2>2, <2>3, <2>4
  <2>7. \E h \in 1..(size + 1) : slots'[h] = 0
    BY <1>1, <2>3 DEF ListInv, Holds
  <2>8. Holds(slots, size)'  BY <1>2, <1>3, <2>5, <2>6, <2>7 DEF Holds
  <2>9. QED BY <1>1, <1>2, <2>5, <2>8 DEF ListInv
<1>6. QED BY <1>2, <1>4, <1>5, ListIInv

LEMMA DeleteIInv == ASSUME IInv, DeleteConsumer PROVE IInv'
<1>. USE BoundAssumption DEF list, dispatch, recorder, output, command
<1>1. TypeOK /\ ListInv  BY DEF IInv
<1>2. /\ main = "delete" /\ main' = "erase" /\ freed' = freed \cup {slots[index]}
      /\ overlap' = (overlap \/ cb # "idle")
      /\ UNCHANGED <<slots, size, storage, regStream, dispatch, recorder, output, index, starts,
                     failedStarts, wild>>
  BY DEF DeleteConsumer
<1>3. slots[index] \in 1..starts /\ index \in 1..size /\ starts \in 0..MaxStarts
  BY <1>1, <1>2 DEF ListInv, Holds, TypeOK
<1>4. TypeOK'
  <2>1. {overlap, wild, badWrite, foreign, twice}' \subseteq BOOLEAN  BY <1>1, <1>2 DEF TypeOK
  <2>2. slots[index] \in Regs  BY <1>3 DEF Regs
  <2>3. QED BY <1>1, <1>2, <2>1, <2>2 DEF TypeOK
<1>5. ListInv'
  <2>1. Holds(slots, size)'  BY <1>1, <1>2 DEF ListInv, Holds
  <2>2. \A i \in 1..size : slots[i] \in freed' => i = index
    BY <1>1, <1>2, <1>3 DEF ListInv, Holds
  <2>3. freed' \subseteq 1..starts  BY <1>1, <1>2, <1>3 DEF ListInv
  <2>4. QED BY <1>1, <1>2, <2>1, <2>2, <2>3 DEF ListInv
<1>6. QED BY <1>2, <1>4, <1>5, ListIInv

\* The slot of number i after an erase, before it.
Old(i) == IF i < index THEN i ELSE i + 1

\* removeConsumer's erase drops one element and keeps the order of the others.
LEMMA EraseSlots ==
    ASSUME TypeOK, ListInv, EraseSlot
    PROVE  /\ size \in Nat /\ index \in 1..size /\ slots[index] # 0 /\ size' = size - 1
           /\ slots' \in Seq(Regs \cup {NoReg}) /\ Len(slots') = Len(slots)
           /\ \A i \in 1..(size - 1) : /\ slots'[i] = slots[Old(i)]
                                       /\ Old(i) \in 1..size /\ Old(i) # index
<1>. DEFINE S == Regs \cup {NoReg}
<1>1. main = "erase" /\ slots' = Erased /\ size' = size - 1  BY DEF EraseSlot
<1>2. /\ index \in 1..size /\ slots[index] # 0 /\ size \in Nat /\ slots \in Seq(S)
      /\ size <= Len(slots) /\ Len(slots) \in Nat
  BY <1>1 DEF ListInv, Holds, TypeOK
<1>3. slots' \in Seq(S) /\ Len(slots') = Len(slots)
      /\ \A i \in 1..(size - 1) : slots'[i] = slots[Old(i)] /\ Old(i) \in 1..size /\ Old(i) # index
  <2>1. slots' = [i \in 1..Len(slots) |-> IF i >= index /\ i < size THEN slots[i + 1] ELSE slots[i]]
    BY <1>1, <1>2 DEF Erased
  <2>2. \A i \in 1..Len(slots) : slots[i] \in S  BY <1>2
  <2>3. \A i \in 1..Len(slots) : i >= index /\ i < size => i + 1 \in 1..Len(slots)  BY <1>2
  <2>4. \A i \in 1..(size - 1) : /\ i \in 1..Len(slots) /\ Old(i) \in 1..size /\ Old(i) # index
                                 /\ (i >= index <=> ~(i < index)) /\ i < size
    BY <1>2 DEF Old
  <2>. HIDE DEF S
  <2>5. slots' \in [1..Len(slots) -> S]  BY <2>1, <2>2, <2>3
  <2>6. slots' \in Seq(S) /\ Len(slots') = Len(slots)  BY <1>2, <2>5
  <2>7. QED BY <2>1, <2>4, <2>6 DEF Old
<1>4. QED BY <1>1, <1>2, <1>3

LEMMA EraseIInv == ASSUME IInv, EraseSlot PROVE IInv'
<1>. USE BoundAssumption DEF list, dispatch, recorder, output, command
<1>1. TypeOK /\ ListInv  BY DEF IInv
<1>2. /\ main = "erase" /\ main' = "scan" /\ slots' = Erased /\ size' = size - 1
      /\ index' = index + 1 /\ overlap' = (overlap \/ cb # "idle")
      /\ UNCHANGED <<storage, freed, regStream, dispatch, recorder, output, starts, failedStarts, wild>>
  BY DEF EraseSlot
<1>3. /\ index \in 1..size /\ slots[index] # 0 /\ size \in Nat
      /\ size <= Len(slots) /\ Len(slots) \in Nat /\ slots' \in Seq(Regs \cup {NoReg})
      /\ Len(slots') = Len(slots)
      /\ \A i \in 1..(size - 1) : slots'[i] = slots[Old(i)] /\ Old(i) \in 1..size /\ Old(i) # index
  BY <1>1, EraseSlots DEF TypeOK
<1>4. \A i, j \in 1..(size - 1) : Old(i) = Old(j) => i = j  BY <1>3 DEF Old
<1>5. TypeOK'
  <2>1. {overlap, wild, badWrite, foreign, twice}' \subseteq BOOLEAN  BY <1>1, <1>2 DEF TypeOK
  <2>2. size' \in 0..Len(slots') /\ index' \in Nat  BY <1>2, <1>3
  <2>3. QED BY <1>1, <1>2, <1>3, <2>1, <2>2 DEF TypeOK
<1>6. ListInv'
  <2>1. PICK h \in 1..size : slots[h] = 0  BY <1>1 DEF ListInv, Holds
  <2>2. \E g \in 1..(size - 1) : Old(g) = h
    <3>1. h # index  BY <1>3, <2>1
    <3>2. CASE h < index  BY <1>3, <3>2 DEF Old
    <3>3. CASE h > index
      <4>1. h - 1 \in 1..(size - 1) /\ Old(h - 1) = h  BY <1>3, <3>3 DEF Old
      <4>2. QED BY <4>1
    <3>4. QED BY <1>3, <3>1, <3>2, <3>3
  <2>3. \E g \in 1..(size - 1) : slots'[g] = 0  BY <1>3, <2>1, <2>2
  <2>4. \A i \in 1..(size - 1) : slots'[i] \in 0..starts /\ slots'[i] \notin freed
    BY <1>1, <1>3 DEF ListInv, Holds
  <2>5. \A i, j \in 1..(size - 1) : slots'[i] = slots'[j] => i = j
    BY <1>1, <1>3, <1>4 DEF ListInv, Holds
  <2>6. size - 1 >= 1 /\ size - 1 <= Len(slots')  BY <1>3, <2>3
  <2>7. Holds(slots, size)'  BY <1>2, <2>3, <2>4, <2>5, <2>6 DEF Holds
  <2>8. index' >= 1  BY <1>2, <1>3
  <2>9. QED BY <1>1, <1>2, <2>4, <2>7, <2>8 DEF ListInv
<1>7. QED BY <1>2, <1>5, <1>6, ListIInv
-----------------------------------------------------------------------------
\* The inductive invariant of list, recorder and dispatch holds in every
\* reachable state.
THEOREM Invariant == Spec => []IInv
<1>1. IInv /\ [Next]_vars => IInv'
  BY CallbackIInv, CommandIInv, AddIInv, DeleteIInv, EraseIInv DEF Next, CommandStep
<1>2. QED BY InitIInv, <1>1, PTL DEF Spec

\* Every variable keeps its type: in particular the indices of the loop in
\* removeConsumer and the size of the vector stay inside its storage.
THEOREM TypeCorrect == Spec => []TypeOK
<1>1. IInv => TypeOK  BY DEF IInv
<1>2. QED BY <1>1, Invariant, PTL

\* No frame is written before a file's header or after its trailer.
THEOREM WritesStayInside == Spec => []WritesInsideFile
<1>1. IInv => WritesInsideFile  BY DEF IInv
<1>2. QED BY <1>1, Invariant, PTL

\* A walk that no command falls into follows no dangling pointer and reaches
\* the live server exactly once, whatever was registered and removed before.
THEOREM UndisturbedWalksAreRight == Spec => []UndisturbedWalk
<1>1. ASSUME IInv PROVE UndisturbedWalk
  <2>1. SUFFICES ASSUME ~overlap
                 PROVE  ~wild /\ (cb = "done" => liveSaw = IF fStream = LiveStream THEN 1 ELSE 0)
    BY DEF UndisturbedWalk
  <2>2. ~wild  BY <2>1, <1>1 DEF IInv, WalkInv
  <2>3. ASSUME cb = "done" PROVE liveSaw = IF fStream = LiveStream THEN 1 ELSE 0
    <3>1. pos = size + 1 /\ liveSaw = Due(pos - 1) /\ size \in Nat
      BY <1>1, <2>1, <2>3 DEF IInv, WalkInv, TypeOK
    <3>2. pos - 1 = size  BY <3>1
    <3>3. \E h \in 1..size : slots[h] = 0  BY <1>1 DEF IInv, ListInv, Holds
    <3>4. QED BY <3>1, <3>2, <3>3 DEF Due
  <2>4. QED BY <2>2, <2>3
<1>2. QED BY <1>1, Invariant, PTL
-----------------------------------------------------------------------------
(* What is recorded.                                                       *)

\* The only registration of the recorder, if any, is number i.
Only(i) == i \in 1..size /\ slots[i] # 0 /\ \A j \in 1..size : slots[j] # 0 => j = i

\* No start has failed, and no command fell into the walk that is going on.
Undisturbed == failedStarts = 0 /\ ~overlap

\* The command in progress and the registrations: f_ctx is the current start's
\* file from start_record until it is registered, and in the list from then to
\* the next stop.  If no start has failed there is no other registration, so
\* that the one loop of removeConsumer leaves none.
RegInv ==
    /\ main \in {"set", "scan", "delete", "erase"} => status = "ready"
    /\ main = "set" \/ (main = "add" /\ status = "recording") => fCtx = starts
    /\ status = "recording" /\ main # "add" => \E i \in 1..size : slots[i] = fCtx
    /\ failedStarts = 0 =>
         /\ main = "add" => status = "recording"
         /\ main \in {"set", "add"} \/ (status = "ready" /\ main \in {"idle", "exited"}) =>
                Registered = {}
         /\ \A i \in Registered : Only(i) /\ (main \in {"scan", "delete", "erase"} => i >= index)

\* A walk meets the recorder's registration once, and asks it to write before
\* the frame is in any file; frames are numbered as they come.
OnceInv ==
    /\ \A k \in Files : written[k] \subseteq 1..frame
    /\ Undisturbed =>
         /\ ~foreign /\ ~twice
         /\ cb \in {"lock", "write"} => /\ pos - 1 \in Registered
                                        /\ regStream[slots[pos - 1]] = fStream
         /\ cb # "idle" /\ (\E k \in Files : frame \in written[k]) =>
                cb \notin {"lock", "write"} /\ \A i \in Registered : i < pos

\* What the main thread's steps do to the registrations.
LEMMA RegNext == ASSUME IInv, RegInv, [Next]_vars PROVE RegInv'
<1>. USE DEF list, dispatch, recorder, output, command, Registered, Only
<1>1. TypeOK /\ SpinInv /\ ListInv  BY DEF IInv
<1>2. size \in Nat /\ index \in Nat /\ failedStarts \in Nat /\ starts \in Nat
  BY <1>1, BoundAssumption DEF TypeOK
<1>3. CASE CallbackStep \/ (\E s \in Streams : FrameArrives(s)) \/ UNCHANGED vars
  <2>1. UNCHANGED <<list, status, fCtx, command>>
    BY <1>3 DEF CallbackStep, FrameArrives, Walk, WalkWild, WalkEnds, Return, RecorderLock, Write, vars
  <2>2. QED BY <2>1 DEF RegInv
<1>4. CASE \E s \in Streams : VideoStart(s)
  <2>1. /\ main = "idle" /\ status # "recording" /\ main' \in {"set", "add"}
        /\ main' = "set" => fCtx' = starts'
        /\ failedStarts' = 0 => failedStarts = 0 /\ main' = "set"
        /\ UNCHANGED <<slots, size, status, index>>
    BY <1>2, <1>4 DEF VideoStart, AlreadyRecording
  <2>2. status = "ready"  BY <1>1, <2>1 DEF TypeOK
  <2>3. QED BY <2>1, <2>2 DEF RegInv
<1>5. CASE SetRecording \/ VideoStop \/ Exit
  BY <1>1, <1>5 DEF SetRecording, VideoStop, Exit, RegInv, TypeOK
<1>6. CASE AddConsumer
  <2>1. /\ size' = size + 1 /\ starts # 0
        /\ \A i \in 1..(size + 1) : slots'[i] = IF i = size + 1 THEN starts ELSE slots[i]
    BY <1>1, <1>2, <1>6, AddSlots
  <2>2. main = "add" /\ main' = "idle" /\ UNCHANGED <<status, fCtx, index, starts, failedStarts>>
    BY <1>6 DEF AddConsumer
  <2>3. size + 1 \in 1..(size + 1) /\ slots'[size + 1] = starts  BY <1>2, <2>1
  <2>4. \A i \in 1..(size + 1) : i # size + 1 => i \in 1..size /\ slots'[i] = slots[i]
    BY <1>2, <2>1
  <2>5. failedStarts = 0 => \A i \in 1..(size + 1) : slots'[i] # 0 => i = size + 1
    BY <2>2, <2>4 DEF RegInv
  <2>6. QED BY <2>1, <2>2, <2>3, <2>5 DEF RegInv
<1>7. CASE StopRecord
  BY <1>1, <1>7 DEF StopRecord, RegInv, SpinInv
<1>8. CASE Scan
  <2>1. /\ main = "scan" /\ main' \in {"idle", "scan", "delete"}
        /\ main' = "idle" => index' = index /\ index > size
        /\ main' = "scan" => index' = index + 1 /\ index <= size /\ slots[index] = 0
        /\ main' = "delete" => index' = index
        /\ UNCHANGED <<list, status, fCtx, starts, failedStarts>>
    BY <1>8 DEF Scan, IsRecorder
  <2>2. \A i \in 1..size : failedStarts = 0 /\ slots[i] # 0 => i >= index
    BY <2>1 DEF RegInv
  <2>3. status = "ready"  BY <2>1 DEF RegInv
  <2>4. failedStarts = 0 /\ main' = "idle" => Registered = {}
    <3>1. main' = "idle" => index > size  BY <2>1
    <3>2. \A i \in 1..size : ~(index > size /\ i >= index)  BY <1>2
    <3>3. QED BY <2>2, <3>1, <3>2
  <2>5. failedStarts = 0 /\ main' # "idle" => \A i \in Registered : i >= index'
    <3>1. main' = "delete" => index' = index  BY <2>1
    <3>2. main' = "scan" => index' = index + 1 /\ slots[index] = 0  BY <2>1
    <3>3. \A i \in 1..size : i >= index /\ i # index => i >= index + 1  BY <1>2
    <3>4. main' \in {"idle", "scan", "delete"}  BY <2>1
    <3>5. QED BY <2>2, <3>1, <3>2, <3>3, <3>4
  <2>6. \A i : Only(i)' <=> Only(i)  BY <2>1
  <2>7. QED BY <2>1, <2>3, <2>4, <2>5, <2>6 DEF RegInv
<1>9. CASE DeleteConsumer
  BY <1>9 DEF DeleteConsumer, RegInv
<1>10. CASE EraseSlot
  <2>1. /\ index \in 1..size /\ slots[index] # 0 /\ size' = size - 1
        /\ \A i \in 1..(size - 1) : /\ slots'[i] = slots[Old(i)]
                                    /\ Old(i) \in 1..size /\ Old(i) # index
    BY <1>1, <1>10, EraseSlots
  <2>2. main = "erase" /\ main' = "scan" /\ UNCHANGED <<status, fCtx, starts, failedStarts>>
    BY <1>10 DEF EraseSlot
  <2>3. failedStarts = 0 => \A i \in 1..(size - 1) : slots'[i] = 0
    BY <2>1 DEF RegInv
  <2>4. QED BY <2>1, <2>2, <2>3 DEF RegInv
<1>11. QED BY <1>3, <1>4, <1>5, <1>6, <1>7, <1>8, <1>9, <1>10 DEF Next, CommandStep

\* What the callback writes: frames of the stream the recorder is registered
\* for, which is that of the open file, and each of them once.
LEMMA OnceNext == ASSUME IInv, RegInv, OnceInv, [Next]_vars PROVE OnceInv'
<1>. USE DEF list, dispatch, recorder, output, command, Registered, Only
<1>1. TypeOK /\ SpinInv /\ ListInv /\ WalkInv  BY DEF IInv
<1>2. /\ size \in Nat /\ pos \in Nat /\ frame \in Nat /\ failedStarts \in Nat /\ starts \in Nat
      /\ written \in [Files -> SUBSET (1..MaxFrames)] /\ overlap \in BOOLEAN
  BY <1>1, BoundAssumption DEF TypeOK
<1>3. CASE \E s \in Streams : FrameArrives(s)
  <2>1. /\ frame' = frame + 1 /\ cb' = "walk" /\ (~overlap' => ~overlap)
        /\ UNCHANGED <<list, output, command>>
    BY <1>3 DEF FrameArrives
  <2>2. \A k \in Files : written'[k] \subseteq 1..frame' /\ frame' \notin written'[k]
    BY <1>2, <2>1 DEF OnceInv
  <2>3. QED BY <2>1, <2>2 DEF OnceInv, Undisturbed
<1>4. CASE Walk
  <2>1. /\ cb = "walk" /\ pos <= end /\ pos' = pos + 1
        /\ cb' = "lock" => slots[pos] # 0 /\ regStream[slots[pos]] = fStream
        /\ cb' \in {"lock", "walk"}
        /\ UNCHANGED <<list, frame, fStream, output, command, overlap>>
    BY <1>4 DEF Walk
  <2>2. \A k \in Files : written'[k] \subseteq 1..frame'  BY <2>1 DEF OnceInv
  <2>3. SUFFICES ASSUME Undisturbed
                 PROVE  /\ cb' = "lock" => pos \in Registered /\ regStream[slots[pos]] = fStream
                        /\ (\E k \in Files : frame \in written[k]) =>
                               cb' # "lock" /\ \A i \in Registered : i < pos + 1
    <3>1. pos' - 1 = pos  BY <1>2, <2>1
    <3>2. QED BY <2>1, <2>2, <2>3, <3>1 DEF OnceInv, Undisturbed
  <2>4. pos \in 1..size  BY <1>1, <1>2, <2>1, <2>3 DEF WalkInv, Undisturbed
  <2>5. QED BY <1>2, <2>1, <2>3, <2>4 DEF OnceInv
<1>5. CASE WalkWild \/ WalkEnds \/ Return \/ RecorderLock
  <2>1. /\ UNCHANGED <<list, frame, fStream, pos, output, command, overlap>>
        /\ cb' \in {"lock", "write"} => cb = "lock"
        /\ cb' # "idle" => cb # "idle"
    BY <1>5 DEF WalkWild, WalkEnds, Return, RecorderLock
  <2>2. QED BY <2>1 DEF OnceInv, Undisturbed
<1>6. CASE Write
  <2>1. fCtx # NoFile /\ file[fCtx] = "header" /\ cb = "write" /\ status = "recording"
    BY <1>1, <1>6 DEF Write, SpinInv
  <2>2. /\ written' = [written EXCEPT ![fCtx] = @ \cup {frame}]
        /\ foreign' = (foreign \/ regStream[fCtx] # fStream)
        /\ twice' = (twice \/ frame \in written[fCtx])
        /\ cb' = "walk" /\ UNCHANGED <<list, frame, fStream, pos, command, overlap>>
    BY <1>6, <2>1 DEF Write
  <2>3. frame \in 1..frame /\ fCtx \in Files  BY <1>1, <1>2, <2>1 DEF WalkInv, TypeOK
  <2>4. \A k \in Files : written'[k] \subseteq 1..frame'
    BY <1>2, <2>2, <2>3 DEF OnceInv
  <2>5. SUFFICES ASSUME Undisturbed
                 PROVE  /\ regStream[fCtx] = fStream /\ frame \notin written[fCtx]
                        /\ \A i \in Registered : i < pos
    BY <2>2, <2>4, <2>5 DEF OnceInv, Undisturbed
  <2>6. pos - 1 \in Registered /\ regStream[slots[pos - 1]] = fStream
    BY <2>1, <2>5 DEF OnceInv
  <2>7. \A i \in Registered : i = pos - 1  BY <2>5, <2>6 DEF RegInv, Undisturbed
  <2>8. main # "add"  BY <2>5, <2>6 DEF RegInv, Undisturbed
  <2>9. slots[pos - 1] = fCtx
    <3>1. PICK i \in 1..size : slots[i] = fCtx  BY <2>1, <2>8 DEF RegInv
    <3>2. i \in Registered  BY <2>1, <3>1 DEF NoFile
    <3>3. QED BY <2>7, <3>1, <3>2
  <2>10. frame \notin written[fCtx]  BY <2>1, <2>3, <2>5 DEF OnceInv
  <2>11. QED BY <1>2, <2>6, <2>7, <2>9, <2>10
<1>7. CASE \E s \in Streams : VideoStart(s)
  <2>1. /\ \E s \in Streams : regStream' = [regStream EXCEPT ![starts + 1] = s]
        /\ failedStarts' = 0 => failedStarts = 0
        /\ UNCHANGED <<slots, size, dispatch, output, overlap>>
    <3>1. PICK s \in Streams : VideoStart(s)  BY <1>7
    <3>2. failedStarts' \in {failedStarts, failedStarts + 1}  BY <3>1 DEF VideoStart
    <3>3. failedStarts' = 0 => failedStarts = 0  BY <1>2, <3>2
    <3>4. QED BY <3>1, <3>3 DEF VideoStart
  <2>2. \A i \in 1..size : regStream'[slots[i]] = regStream[slots[i]]
    BY <1>1, <1>2, <2>1 DEF ListInv, Holds, TypeOK, Regs
  <2>3. QED BY <2>1, <2>2 DEF OnceInv, Undisturbed
<1>8. CASE SetRecording \/ VideoStop \/ StopRecord \/ Scan \/ Exit \/ UNCHANGED vars
  <2>1. UNCHANGED <<list, dispatch, output, failedStarts, overlap>>
    BY <1>8 DEF SetRecording, VideoStop, StopRecord, Scan, Exit, vars
  <2>2. QED BY <2>1 DEF OnceInv, Undisturbed
<1>9. CASE AddConsumer \/ DeleteConsumer \/ EraseSlot
  <2>1. UNCHANGED <<dispatch, output, failedStarts>> /\ (~overlap' => ~overlap /\ cb = "idle")
    BY <1>2, <1>9 DEF AddConsumer, DeleteConsumer, EraseSlot
  <2>2. QED BY <2>1 DEF OnceInv, Undisturbed
<1>10. QED BY <1>3, <1>4, <1>5, <1>6, <1>7, <1>8, <1>9 DEF Next, CallbackStep, CommandStep

\* A recorder that records is registered for its file's stream, exactly once
\* unless a start has failed, and a file gets each frame of its stream at most
\* once and no other unless a command fell into a dispatch.
THEOREM RecordingStaysClean == Spec => []CleanRecording
<1>1. Init => RegInv /\ OnceInv
  BY StreamAssumption DEF Init, RegInv, OnceInv, Undisturbed, Registered, Only
<1>2. ASSUME IInv, RegInv, OnceInv PROVE CleanRecording
  <2>1. ASSUME main = "idle", status = "recording"
        PROVE  \E i \in Registered : regStream[slots[i]] = regStream[fCtx]
    <3>1. PICK i \in 1..size : slots[i] = fCtx  BY <1>2, <2>1 DEF RegInv
    <3>2. slots[i] # 0  BY <1>2, <2>1, <3>1 DEF IInv, SpinInv, NoFile
    <3>3. QED BY <3>1, <3>2 DEF Registered
  <2>2. ASSUME failedStarts = 0, main = "idle", status = "recording"
        PROVE  Cardinality(Registered) = 1
    <3>1. PICK i \in Registered : TRUE  BY <2>1, <2>2
    <3>2. Registered = {i}  BY <1>2, <2>2, <3>1 DEF RegInv, Only, Registered
    <3>3. QED BY <3>2, FS_Singleton
  <2>3. ASSUME failedStarts = 0, main = "idle", status # "recording"
        PROVE  Cardinality(Registered) = 0
    <3>1. Registered = {}  BY <1>2, <2>3 DEF RegInv, IInv, TypeOK
    <3>2. QED BY <3>1, FS_EmptySet
  <2>4. failedStarts = 0 /\ ~overlap => ~foreign /\ ~twice  BY <1>2 DEF OnceInv, Undisturbed
  <2>5. QED BY <2>1, <2>2, <2>3, <2>4 DEF CleanRecording
<1>3. QED BY <1>1, <1>2, Invariant, RegNext, OnceNext, PTL DEF Spec
=============================================================================
