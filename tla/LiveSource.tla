----------------------------- MODULE LiveSource -----------------------------
(***************************************************************************)
(* The live view: Live555Server and IPCU555FramedSource.  The IPCU thread  *)
(* copies each frame, with its SEI in front, into the buffer of the source *)
(* that the subsession's pointer names, and triggers an event; live555's   *)
(* event loop, a thread of its own, creates and deletes sources as clients *)
(* come and go and hands the buffer on.  A mutex, always tried and never   *)
(* waited for, guards the buffer; nothing guards the pointer and the       *)
(* reference count.                                                        *)
(*                                                                         *)
(* live555 is external: reuseFirstSource is set, so a source is created    *)
(* only when there is none, and event handlers run one after the other.    *)
(*                                                                         *)
(* A definition X_Y, just above X, is X with a bug: the runs' properties   *)
(* fail when it takes the place of X.                                      *)
(***************************************************************************)
EXTENDS Naturals

CONSTANTS
    FrameNumbers, \* frames are numbered 1..FrameNumbers, over and over
    MaxSources    \* bound: sources created

ASSUME LiveAssumption == FrameNumbers \in Nat \ {0} /\ MaxSources \in Nat

Sources == 1..MaxSources
NoSource == 0
Garbage == MaxSources + 1     \* what an uninitialised pointer holds
NoFrame == 0                  \* frame_size is 0

VARIABLES
    started,      \* isStarted: the event loop runs
    ptr,          \* subSession->ipcuFramedSource
    made, alive,  \* sources constructed; the one not destroyed, or NoSource
    refs,         \* referenceCount
    trigger,      \* eventTriggerId is not 0
    event,        \* source that a triggered event is for, or NoSource
    seiPart, dataPart,    \* its buffer: which frame each part is of
    lock,         \* who has the mutex
    w,            \* the IPCU thread, in onFrameReceivedCallback
    frame, this,  \* the frame it has, and the source it writes to
    loop,         \* the event loop
    awaiting,     \* isCurrentlyAwaitingData
    torn,         \* history: parts of two frames were delivered as one
    overlap,      \* history: a source came or went during a callback
    wild          \* history: a source that does not exist was used

server == <<started, ptr, made, alive, refs, trigger>>
buffer == <<seiPart, dataPart>>
writer == <<w, frame, this>>
history == <<torn, overlap, wild>>
vars == <<server, event, buffer, lock, writer, loop, awaiting, history>>

Init == /\ started = FALSE /\ ptr \in {NoSource, Garbage}
        /\ made = 0 /\ alive = NoSource /\ refs = 0
        /\ trigger = FALSE /\ event = NoSource
        /\ seiPart = NoFrame /\ dataPart = NoFrame
        /\ lock = "free"
        /\ w = "idle" /\ frame = 0 /\ this = NoSource
        /\ loop = "idle" /\ awaiting = FALSE
        /\ torn = FALSE /\ overlap = FALSE /\ wild = FALSE
-----------------------------------------------------------------------------
(* The IPCU thread: onFrameReceivedCallback, then writeFrameToBuf.         *)

\* The first frame only starts the server.
FrameArrives ==
    /\ w = "idle"
    /\ frame' = (frame % FrameNumbers) + 1
    /\ started' = TRUE
    /\ w' = IF started /\ ptr # NoSource THEN "call" ELSE "idle"
    /\ overlap' = (overlap \/ loop \in {"assign", "free"})
    /\ UNCHANGED <<ptr, made, alive, refs, trigger, event, buffer, lock, this, loop, awaiting,
                   torn, wild>>

\* The pointer is read again for the call.  A frame larger than the buffer
\* is dropped.
CallSource ==
    /\ w = "call"
    /\ this' = ptr
    /\ w' \in {"check", "idle"}
    /\ UNCHANGED <<server, event, buffer, lock, frame, loop, awaiting, history>>

NoReader_NotChecked == FALSE
NoReader == refs = 0

CheckReaders ==
    /\ w = "check"
    /\ w' = IF NoReader THEN "idle" ELSE "lock"
    /\ UNCHANGED <<server, event, buffer, lock, frame, this, loop, awaiting, history>>

TryLock_Skipped == w' = "sei" /\ UNCHANGED lock
\* The frame is dropped if the event loop has the mutex.
TryLock == \/ lock = "free" /\ lock' = "writer" /\ w' = "sei"
           \/ lock # "free" /\ w' = "idle" /\ UNCHANGED lock

LockBuffer ==
    /\ w = "lock"
    /\ TryLock
    /\ UNCHANGED <<server, event, buffer, frame, this, loop, awaiting, history>>

\* The object is deleted or never was one: of the undefined behaviour that
\* follows, the model only remembers that it happened.
Gone == this # alive

WriteSei ==
    /\ w = "sei"
    /\ seiPart' = IF Gone THEN seiPart ELSE frame
    /\ wild' = (wild \/ Gone)
    /\ w' = "data"
    /\ UNCHANGED <<server, event, dataPart, lock, frame, this, loop, awaiting, torn, overlap>>

WriteData ==
    /\ w = "data"
    /\ dataPart' = IF Gone THEN dataPart ELSE frame
    /\ wild' = (wild \/ Gone)
    /\ w' = "signal"
    /\ UNCHANGED <<server, event, seiPart, lock, frame, this, loop, awaiting, torn, overlap>>

Triggered_Kept == event
Triggered == IF trigger THEN this ELSE event

\* signalNewFrameData.
Signal ==
    /\ w = "signal"
    /\ event' = Triggered
    /\ wild' = (wild \/ Gone)
    /\ w' = "unlock"
    /\ UNCHANGED <<server, buffer, lock, frame, this, loop, awaiting, torn, overlap>>

Unlock ==
    /\ w = "unlock"
    /\ lock' = "free"
    /\ w' = "idle"
    /\ UNCHANGED <<server, event, buffer, frame, this, loop, awaiting, history>>
-----------------------------------------------------------------------------
(* The event loop: clients.                                                *)

\* createNewStreamSource, for a DESCRIBE or a SETUP: the constructor, which
\* counts the source last ...
Construct ==
    /\ started
    /\ loop = "idle"
    /\ alive = NoSource
    /\ made < MaxSources
    /\ made' = made + 1 /\ alive' = made + 1
    /\ seiPart' = NoFrame /\ dataPart' = NoFrame
    /\ trigger' = TRUE
    /\ refs' = refs + 1
    /\ loop' = "assign"
    /\ overlap' = (overlap \/ w # "idle")
    /\ UNCHANGED <<started, ptr, event, lock, writer, awaiting, torn, wild>>

\* ... and the assignment to the subsession's pointer.
AssignPointer ==
    /\ loop = "assign"
    /\ ptr' = alive
    /\ loop' = "idle"
    /\ overlap' = (overlap \/ w # "idle")
    /\ UNCHANGED <<started, made, alive, refs, trigger, event, buffer, lock, writer, awaiting,
                   torn, wild>>

\* The sink asks for the next frame: after PLAY, and after each delivery.
AskNext ==
    /\ loop = "idle"
    /\ alive # NoSource
    /\ awaiting' = TRUE
    /\ UNCHANGED <<server, event, buffer, lock, writer, loop, history>>

Released_Forgotten == refs
Released == refs - 1

\* The session ends, or the DESCRIBE is answered.  The destructor: the count
\* first ...
Destroy ==
    /\ loop = "idle"
    /\ alive # NoSource
    /\ refs' = Released
    /\ awaiting' = FALSE
    /\ loop' = "free"
    /\ overlap' = (overlap \/ w # "idle")
    /\ UNCHANGED <<started, ptr, made, alive, trigger, event, buffer, lock, writer, torn, wild>>

\* ... then, when it is 0, trigger and buffer.  The pointer keeps its value.
Free ==
    /\ loop = "free"
    /\ alive' = NoSource
    /\ IF refs = 0 THEN trigger' = FALSE /\ event' = NoSource
                   ELSE UNCHANGED <<trigger, event>>
    /\ loop' = "idle"
    /\ overlap' = (overlap \/ w # "idle")
    /\ UNCHANGED <<started, ptr, made, refs, buffer, lock, writer, awaiting, torn, wild>>
-----------------------------------------------------------------------------
(* The event loop: deliverFrame.                                           *)

\* The loop resets the event before it calls the handler, which does nothing
\* unless the sink awaits a frame.
TakeEvent ==
    /\ loop = "idle"
    /\ event # NoSource
    /\ event' = NoSource
    /\ wild' = (wild \/ event # alive)
    /\ loop' = IF event = alive /\ awaiting THEN "deliver" ELSE "idle"
    /\ UNCHANGED <<server, buffer, lock, writer, awaiting, torn, overlap>>

\* If the writer has the mutex, an empty frame is delivered.
LockOrEmpty ==
    /\ loop = "deliver"
    /\ \/ lock = "free" /\ lock' = "loop" /\ loop' = "copy" /\ UNCHANGED awaiting
       \/ lock # "free" /\ awaiting' = FALSE /\ loop' = "idle" /\ UNCHANGED lock
    /\ UNCHANGED <<server, event, buffer, writer, history>>

CopyOut ==
    /\ loop = "copy"
    /\ torn' = (torn \/ seiPart # dataPart)
    /\ lock' = "free"
    /\ awaiting' = FALSE
    /\ loop' = "idle"
    /\ UNCHANGED <<server, event, buffer, writer, overlap, wild>>
-----------------------------------------------------------------------------
WriterStep == \/ CallSource \/ CheckReaders \/ LockBuffer \/ WriteSei \/ WriteData \/ Signal
              \/ Unlock
LoopStep == AssignPointer \/ Free \/ TakeEvent \/ LockOrEmpty \/ CopyOut

Next == FrameArrives \/ WriterStep \/ Construct \/ AskNext \/ Destroy \/ LoopStep

Spec == Init /\ [][Next]_vars

\* Both threads keep running; clients and frames owe nothing.
FairSpec == Spec /\ WF_vars(WriterStep) /\ WF_vars(LoopStep)
-----------------------------------------------------------------------------
TypeOK ==
    /\ {started, trigger, awaiting, torn, overlap, wild} \subseteq BOOLEAN
    /\ ptr \in {NoSource, Garbage} \cup Sources
    /\ made \in 0..MaxSources /\ alive \in {NoSource} \cup Sources /\ refs \in 0..1
    /\ event \in {NoSource, Garbage} \cup Sources
    /\ seiPart \in 0..FrameNumbers /\ dataPart \in 0..FrameNumbers
    /\ lock \in {"free", "writer", "loop"}
    /\ w \in {"idle", "call", "check", "lock", "sei", "data", "signal", "unlock"}
    /\ frame \in 0..FrameNumbers /\ this \in {NoSource, Garbage} \cup Sources
    /\ loop \in {"idle", "assign", "free", "deliver", "copy"}

\* A client never gets the SEI of one frame with the data of another, however
\* write and delivery interleave: what the mutex is for.
WholeFrames == ~torn

\* A callback, or an event, meets a source that does not exist only if one
\* came or went during a callback.  The stale pointer and the uninitialised
\* one are harmless otherwise, because the reference count is 0 then.
WildOnlyByOverlap == wild => overlap

\* A client that waits while a frame is put into its source's buffer is
\* served, though perhaps with an empty frame, or it leaves.
WaitingClientServed == w = "signal" /\ this = alive /\ awaiting ~> ~awaiting
=============================================================================
