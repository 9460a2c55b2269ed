------------------------------ MODULE Recorder ------------------------------
(***************************************************************************)
(* Recording a stream: the main thread's VideoStart and VideoStop commands *)
(* (main.cpp), the list of consumers that StreamReceiver's callback walks  *)
(* on the IPCU thread, and MediaRecorder.  The recorder's state is under a *)
(* spin lock; the list, a std::vector of pointers, is under none.          *)
(*                                                                         *)
(* The vector is modelled as its storage: an erase moves the later         *)
(* elements down and leaves the last slot's old pointer behind, a          *)
(* push_back into a full vector moves to storage of twice the size.  The   *)
(* callback's range-for keeps the begin and end it read at the start.      *)
(*                                                                         *)
(* A definition X_Y, just above X, is X with a bug: the runs' properties   *)
(* fail when it takes the place of X.                                      *)
(***************************************************************************)
EXTENDS Naturals, Sequences, FiniteSets

CONSTANTS
    Streams,      \* stream ids of VIDEO frames
    LiveStream,   \* the one Live555Server is registered for at start-up
    MaxStarts,    \* bound: VideoStart commands that reach start_record
    MaxFrames     \* bound: frames the RTOS sends

ASSUME StreamAssumption == LiveStream \in Streams
ASSUME BoundAssumption == MaxStarts \in Nat /\ MaxFrames \in Nat

\* Registration 0 is the live server's, registration k the k-th VideoStart's;
\* file k is the one that VideoStart opened.
Regs == 0..MaxStarts
Files == 1..MaxStarts
NoFile == 0
NoReg == MaxStarts + 1      \* what an unused slot holds

VARIABLES
    slots, size,  \* storage and size of consumerList
    storage,      \* which storage the vector has: counts the reallocations
    freed,        \* StreamConsumer objects deleted
    regStream,    \* regStream[k]: stream id of registration k
    cb,           \* the callback thread
    frame, fStream,        \* number of the frame it has, and its stream
    pos, end, itStorage,   \* its iterators
    liveSaw,      \* how often the live server has got this frame
    main,         \* the main thread
    index,        \* i of removeConsumer's loop
    starts,       \* VideoStart commands that reached start_record
    status,       \* recordStatus
    fCtx,         \* f_ctx: the file it writes to
    file,         \* file[k]: "none", "header" or "trailer" written, or "failed"
    written,      \* written[k]: frames in file k
    spin,         \* who holds spinLock across steps
    failedStarts, \* history: start_record calls that failed
    overlap,      \* history: the list was changed during a dispatch
    wild,         \* history: the callback followed a dangling pointer
    badWrite, foreign, twice  \* history: of av_write_frame, see Write

list == <<slots, size, storage, freed, regStream>>
dispatch == <<cb, frame, fStream, pos, end, itStorage, liveSaw>>
recorder == <<status, fCtx, file, spin>>
output == <<written, badWrite, foreign, twice>>
command == <<main, index, starts, failedStarts>>
vars == <<list, dispatch, recorder, output, command, overlap, wild>>

Init == /\ slots = <<0>> /\ size = 1 /\ storage = 0 /\ freed = {}
        /\ regStream = [k \in Regs |-> LiveStream]
        /\ cb = "idle" /\ frame = 0 /\ fStream = LiveStream
        /\ pos = 1 /\ end = 0 /\ itStorage = 0 /\ liveSaw = 0
        /\ main = "idle" /\ index = 1 /\ starts = 0 /\ failedStarts = 0
        /\ status = "ready" /\ fCtx = NoFile /\ spin = "free"
        /\ file = [k \in Files |-> "none"]
        /\ written = [k \in Files |-> {}]
        /\ badWrite = FALSE /\ foreign = FALSE /\ twice = FALSE
        /\ overlap = FALSE /\ wild = FALSE
-----------------------------------------------------------------------------
(* The IPCU thread: cb of stream_receiver.cpp.                             *)

FrameArrives(s) ==
    /\ cb = "idle" /\ main # "exited"
    /\ frame < MaxFrames
    /\ frame' = frame + 1 /\ fStream' = s
    /\ pos' = 1 /\ end' = size /\ itStorage' = storage /\ liveSaw' = 0
    /\ cb' = "walk"
    /\ overlap' = (overlap \/ main \in {"delete", "erase"})
    /\ UNCHANGED <<list, recorder, output, command, wild>>

\* The iterator points into freed storage, or to a deleted StreamConsumer:
\* undefined behaviour, of which the model follows no outcome further.
Dangling == itStorage # storage \/ slots[pos] \in freed \cup {NoReg}

\* One turn of the loop: compare the registration, and call its consumer.
Walk ==
    /\ cb = "walk"
    /\ pos <= end
    /\ ~Dangling
    /\ LET k == slots[pos] IN
       /\ pos' = pos + 1
       /\ liveSaw' = IF k = 0 /\ regStream[k] = fStream THEN liveSaw + 1 ELSE liveSaw
       /\ cb' = IF k # 0 /\ regStream[k] = fStream THEN "lock" ELSE "walk"
    /\ UNCHANGED <<list, frame, fStream, end, itStorage, recorder, output, command, overlap,
                   wild>>

WalkWild ==
    /\ cb = "walk"
    /\ pos <= end
    /\ Dangling
    /\ wild' = TRUE
    /\ cb' = "done"
    /\ UNCHANGED <<list, frame, fStream, pos, end, itStorage, liveSaw, recorder, output,
                   command, overlap>>

WalkEnds ==
    /\ cb = "walk"
    /\ pos > end
    /\ cb' = "done"
    /\ UNCHANGED <<list, frame, fStream, pos, end, itStorage, liveSaw, recorder, output,
                   command, overlap, wild>>

\* The callback returns and the frame is released.
Return ==
    /\ cb = "done"
    /\ cb' = "idle"
    /\ UNCHANGED <<list, frame, fStream, pos, end, itStorage, liveSaw, recorder, output,
                   command, overlap, wild>>

\* MediaRecorder::onFrameReceivedCallback: lock, look at the status.
RecorderLock ==
    /\ cb = "lock"
    /\ spin = "free"
    /\ IF status = "recording"
       THEN cb' = "write" /\ spin' = "cb"
       ELSE cb' = "walk" /\ UNCHANGED spin
    /\ UNCHANGED <<list, frame, fStream, pos, end, itStorage, liveSaw, status, fCtx, file,
                   output, command, overlap, wild>>

Unlock_Skipped == UNCHANGED spin
Unlock == spin' = "free"

\* write_one_frame, then unlock.  The history variables say that the file was
\* not between its header and its trailer, that the frame is of a stream the
\* file was not opened for, that the file has it already.
Write ==
    /\ cb = "write"
    /\ IF fCtx = NoFile \/ file[fCtx] # "header"
       THEN badWrite' = TRUE /\ UNCHANGED <<written, foreign, twice>>
       ELSE /\ written' = [written EXCEPT ![fCtx] = @ \cup {frame}]
            /\ foreign' = (foreign \/ regStream[fCtx] # fStream)
            /\ twice' = (twice \/ frame \in written[fCtx])
            /\ UNCHANGED badWrite
    /\ Unlock
    /\ cb' = "walk"
    /\ UNCHANGED <<list, frame, fStream, pos, end, itStorage, liveSaw, status, fCtx, file,
                   command, overlap, wild>>
-----------------------------------------------------------------------------
(* The main thread: handle_cmd.                                            *)

AlreadyRecording_NotChecked == FALSE
AlreadyRecording == status = "recording"

\* VideoStart: refused while recording.  start_record, up to the header; a
\* failure of avformat_alloc_output_context2 leaves f_ctx NULL, a later one
\* leaves it set.  The command goes on to addConsumer all the same.
VideoStart(s) ==
    /\ main = "idle"
    /\ ~AlreadyRecording
    /\ starts < MaxStarts
    /\ starts' = starts + 1
    /\ regStream' = [regStream EXCEPT ![starts + 1] = s]
    /\ \/ /\ fCtx' = starts + 1
          /\ file' = [file EXCEPT ![starts + 1] = "header"]
          /\ main' = "set"
          /\ UNCHANGED failedStarts
       \/ /\ fCtx' \in {NoFile, starts + 1}
          /\ file' = [file EXCEPT ![starts + 1] = "failed"]
          /\ main' = "add"
          /\ failedStarts' = failedStarts + 1
    /\ UNCHANGED <<slots, size, storage, freed, dispatch, status, spin, output, index, overlap,
                   wild>>

\* start_record's last lines, under the lock.
SetRecording ==
    /\ main = "set"
    /\ spin = "free"
    /\ status' = "recording"
    /\ main' = "add"
    /\ UNCHANGED <<list, dispatch, fCtx, file, spin, output, index, starts, failedStarts,
                   overlap, wild>>

\* The vector's own test.
HasRoom == size < Len(slots)

\* addConsumer: push_back, into larger storage when the vector is full.
AddConsumer ==
    /\ main = "add"
    /\ IF HasRoom
       THEN /\ slots' = [slots EXCEPT ![size + 1] = starts]
            /\ UNCHANGED storage
       ELSE /\ slots' = [i \in 1..(2 * size) |->
                           IF i <= size THEN slots[i]
                           ELSE IF i = size + 1 THEN starts ELSE NoReg]
            /\ storage' = storage + 1
    /\ size' = size + 1
    /\ overlap' = (overlap \/ cb # "idle")
    /\ main' = "idle"
    /\ UNCHANGED <<freed, regStream, dispatch, recorder, output, index, starts, failedStarts,
                   wild>>

LockFree_NotAwaited == TRUE
LockFree == spin = "free"

\* VideoStop: refused unless recording.
VideoStop ==
    /\ main = "idle"
    /\ status = "recording"
    /\ main' = "stop"
    /\ UNCHANGED <<list, dispatch, recorder, output, index, starts, failedStarts, overlap, wild>>

\* stop_record is one locked section.
StopRecord ==
    /\ main = "stop"
    /\ LockFree
    /\ status' = "ready"
    /\ file' = [file EXCEPT ![fCtx] = "trailer"]
    /\ main' = "scan" /\ index' = 1
    /\ UNCHANGED <<list, dispatch, fCtx, spin, output, starts, failedStarts, overlap, wild>>

IsRecorder_Always(i) == TRUE
IsRecorder(i) == slots[i] # 0

\* removeConsumer's loop: find a registration of the recorder ...
Scan ==
    /\ main = "scan"
    /\ \/ index > size /\ main' = "idle" /\ UNCHANGED index
       \/ index <= size /\ ~IsRecorder(index) /\ index' = index + 1 /\ UNCHANGED main
       \/ index <= size /\ IsRecorder(index) /\ main' = "delete" /\ UNCHANGED index
    /\ UNCHANGED <<list, dispatch, recorder, output, starts, failedStarts, overlap, wild>>

\* ... delete the object ...
DeleteConsumer ==
    /\ main = "delete"
    /\ freed' = freed \cup {slots[index]}
    /\ main' = "erase"
    /\ overlap' = (overlap \/ cb # "idle")
    /\ UNCHANGED <<slots, size, storage, regStream, dispatch, recorder, output, index, starts,
                   failedStarts, wild>>

Erased_NotMoved == slots
\* The elements behind the erased one move down; the last slot keeps its value.
Erased == [i \in DOMAIN slots |-> IF i >= index /\ i < size THEN slots[i + 1] ELSE slots[i]]

\* ... erase its slot, and step over the element that has moved into it.
EraseSlot ==
    /\ main = "erase"
    /\ slots' = Erased
    /\ size' = size - 1
    /\ index' = index + 1
    /\ main' = "scan"
    /\ overlap' = (overlap \/ cb # "idle")
    /\ UNCHANGED <<storage, freed, regStream, dispatch, recorder, output, starts, failedStarts,
                   wild>>

\* app_abort ends the loop; StreamReceiver::stop ends the callbacks.
Exit ==
    /\ main = "idle"
    /\ main' = "exited"
    /\ UNCHANGED <<list, dispatch, recorder, output, index, starts, failedStarts, overlap, wild>>
-----------------------------------------------------------------------------
CallbackStep == Walk \/ WalkWild \/ WalkEnds \/ Return \/ RecorderLock \/ Write
CommandStep == SetRecording \/ AddConsumer \/ StopRecord \/ Scan \/ DeleteConsumer \/ EraseSlot

Next == \/ \E s \in Streams : FrameArrives(s) \/ VideoStart(s)
        \/ CallbackStep
        \/ VideoStop \/ CommandStep \/ Exit

Spec == Init /\ [][Next]_vars

\* Both threads keep running.  The spin lock is not fair, but it is free
\* again and again, and MaxFrames lets only finitely many frames compete.
FairSpec == Spec /\ WF_vars(CallbackStep) /\ WF_vars(CommandStep)
-----------------------------------------------------------------------------
Registered == {i \in 1..size : slots[i] # 0}

TypeOK ==
    /\ slots \in Seq(Regs \cup {NoReg}) /\ size \in 0..Len(slots) /\ storage \in Nat
    /\ freed \subseteq Regs /\ regStream \in [Regs -> Streams]
    /\ cb \in {"idle", "walk", "lock", "write", "done"}
    /\ frame \in 0..MaxFrames /\ fStream \in Streams
    /\ pos \in Nat /\ end \in Nat /\ itStorage \in Nat /\ liveSaw \in Nat
    /\ main \in {"idle", "set", "add", "stop", "scan", "delete", "erase", "exited"}
    /\ index \in Nat /\ starts \in 0..MaxStarts /\ failedStarts \in 0..MaxStarts
    /\ status \in {"ready", "recording"} /\ fCtx \in Files \cup {NoFile}
    /\ file \in [Files -> {"none", "header", "trailer", "failed"}]
    /\ written \in [Files -> SUBSET (1..MaxFrames)] /\ spin \in {"free", "cb"}
    /\ {overlap, wild, badWrite, foreign, twice} \subseteq BOOLEAN

\* Frames go into a file only between its header and its trailer, whatever
\* the main thread does meanwhile: what the spin lock is for.
WritesInsideFile == ~badWrite

\* As long as the list was not changed during a walk, the callback follows no
\* dangling pointer, and the live server, whose place in the list moves, gets
\* each frame of its stream once and no other frame.  (That a command can fall
\* into a walk is the hazard of the missing lock.)
UndisturbedWalk ==
    ~overlap =>
        /\ ~wild
        /\ cb = "done" => liveSaw = IF fStream = LiveStream THEN 1 ELSE 0

\* Between commands a recorder that records is registered for its file's
\* stream.  If no start has ever failed it is registered once then and not at
\* all when it is ready, and a file holds only frames of its stream, each once,
\* unless a command fell into a dispatch.
CleanRecording ==
    /\ main = "idle" /\ status = "recording" =>
           \E i \in Registered : regStream[slots[i]] = regStream[fCtx]
    /\ failedStarts = 0 =>
           /\ main = "idle" =>
                  Cardinality(Registered) = IF status = "recording" THEN 1 ELSE 0
           /\ ~overlap => ~foreign /\ ~twice

\* A command ends, even if its recorder is busy with a frame.
CommandEnds == main \notin {"idle", "exited"} ~> main \in {"idle", "exited"}
=============================================================================
