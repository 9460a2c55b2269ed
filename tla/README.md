# TLA+ models of the M10V multimedia server

The server runs on the Linux half of a Socionext Milbeaut M10V camera chip. The
other half, an RTOS, owns the camera pipeline; the two talk over *IPCU* mailboxes
and shared memory. The RTOS lends Linux *sample areas*, one frame at a time, and
Linux must give each back. The server takes frames from the stream channel,
records them, serves them live over RTSP, saves photos, and reports to other
processes of the device over ZeroMQ.

This directory holds TLA+ models of that code, TLC configurations that check
them on small instances, and TLAPS proofs. Run, here:

    tlc -workers 2 -config StreamQueue_safety.cfg MCStreamQueue.tla
    tlapm StreamQueueProofs.tla

`PROJECT.json` lists every run, every hazard with its source line, the source
lines each definition stands for, and for each property a mutant: a plausible
bug, written beside the definition it replaces and named `<definition>_<bug>`,
that makes the property fail.

## The system

| Component | State it keeps | Operations | Talks to |
|---|---|---|---|
| Asynchronous release engine (`sample_library.c`, `sw = 2`) | node pool, receive queue, release list, release counters, stop flag, two mutexes, two condition variables | IPCU callback, stream thread, `Stream_release_with_queue`, `Stream_release_set_count`, `Stream_ipcu_ch_init/close` | RTOS, application callbacks and threads |
| Synchronous and simple receive (`sw = 0`, `sw = 1`) | nothing but who has the frame | `callback_camif`, `Stream_release`, `callback_simple` | the same |
| Camera commands (`sample_library.c`, `ipcu_stream.c`) | current command, result words, semaphore, two channels | `camera_if_command`, its callback, the `Rtos_*` wrappers | RTOS |
| Stream receiver (`stream_receiver.cpp`) | `consumerList`, a vector of registrations | `addConsumer`, `removeConsumer`, the callback's walk, `start`, `stop` | every `FrameConsumer` |
| Media recorder (`media_recorder.cpp`) | status, output context, spin lock | `start_record`, `stop_record`, frame callback | libavformat, SEI encoder |
| Live view (`live555_server.cpp`, `ipcu555_*.cpp`) | source pointer, reference count, frame buffer and mutex, event trigger | first frame starts the server, source constructor and destructor, frame write, delivery | live555's event loop |
| Control loop (`main.cpp`, `communicator.cpp`, `utils.cpp`, `device_status.cpp`) | device status, storage path, abort flag | command socket, GPS and work-status subscribers, 1 s report | all of the above |
| GPS data and SEI (`gps_estone.cpp`, `sei_encoder.cpp`) | ring of GPS samples | write, look-up by time stamp, disconnect, encoding | recorder, live view, photos |
| Photo capture (`jpeg_capture.cpp`, raw and yuv) | three temporary file names, mutex, open descriptors | frame callback, write sequence, announcement | GPS data, the processes that read the photos |
| JPEG sections (`jpeg-data.c`) | list of sections | load, save | nothing: called only from code under `#if 0` |
| RTSP push client (`rtsp_streamer.cpp`) | | | nothing: marked deprecated and unused |
| GPIO, space data | | | pure I/O and constants |

Threads: the main thread (control loop), the IPCU callback thread, live555's
event loop, and in the asynchronous mode the library's stream thread and the
application's releasing threads. `StreamReceiver::start` clears `ipcu_param`, so
the server itself runs in the synchronous mode: every consumer runs on the IPCU
thread and the frame goes back when the last of them returns. The asynchronous
mode is the library's other half, with an interface of its own in
`cif_stream.h`, and the most intricate code of the repository.

What is hard here:

* frames are owned jointly by the RTOS, three lists and several threads, and a
  frame given back early, twice or never shows only as a broken picture or as a
  camera that stalls hours later;
* a close runs against arriving frames and late releases, reads two lists
  without their locks, and gives up after three seconds;
* a camera command may time out and its answer arrive during the next one;
* the consumer list and the live view's source pointer are shared by two threads
  without any lock; the recorder and the frame buffer have locks that must cover
  exactly the right steps;
* the main thread sets the fields of the device status one after the other while
  the IPCU thread copies them into a photo; its loop serves three sockets in a
  fixed order;
* a payload of three int32 and three floats, with any bytes, goes through a byte stream in which two
  zeros mean something;
* GPS samples are looked up by the time of a frame in a ring another thread
  fills, on a clock that may be set back;
* photos go to three names in turn while other processes read them;
* errors of one step are ignored by the next (`start_record` in `VideoStart`,
  the malformed acknowledgement, the release message that cannot be sent, the
  or-ed results of a photo's writes), and neither pictures nor recordings close
  their file.

## The modules

| Module | Models | Extends or uses |
|---|---|---|
| `FrameLoan` | what both receive modes promise: offer, accept in order or refuse, deliver, the announced uses, one return | |
| `StreamQueue` | the asynchronous release engine | INSTANCE `FrameLoan` |
| `StreamQueueProofs` | its theorems | `StreamQueue` |
| `StreamList` | the three linked lists with their pointers and walks | |
| `StreamListProofs` | its theorems | `StreamList` |
| `SyncStream` | `callback_camif` and `Stream_release` | INSTANCE `FrameLoan` |
| `SyncStreamProofs` | its theorems | `SyncStream` |
| `CameraCommand` | `camera_if_command` and its callback | |
| `Recorder` | consumer list, media recorder, VideoStart and VideoStop | |
| `RecorderProofs` | its theorems | `Recorder` |
| `LiveSource` | the live view's two threads | |
| `ControlLoop` | the main thread's loop, its messages and commands, and the EXIF block | |
| `ControlLoopProofs` | its theorems | `ControlLoop` |
| `GpsData` | the GPS ring, its writer and its look-ups | |
| `GpsDataProofs` | its theorems | `GpsData` |
| `SeiEncoder` | `SeiEncoder::encode` and a player's view of its result | |
| `LiveViewProofs` | theorems about the live view and the SEI it puts in front of a frame | `LiveSource`, `SeiEncoder` |
| `PhotoCapture` | photos, their temporary names and their readers | |
| `CameraProofs` | theorems about camera commands and photos | `CameraCommand`, `PhotoCapture` |
| `MC...` | an instance of each for TLC | the module it is named after |

**StreamQueue.** A step is one critical section of the code, so every
interleaving the mutexes allow is explored. A node is a `struct stream_queue`;
the three intrusive lists are a set (`pool`), a sequence (`recvQueue`) and a set
(`releaseList`). `thr` is where the stream thread is, `rel[r]` where an
application thread is inside `Stream_release_with_queue`, `main` where open or
close is. `remove_release_command` is the one section split in two (remove, then
push to the pool), because the main thread looks at the lists without their
mutexes: `initialize_stream_pool` reads three heads before it fills the pool node
by node, `finalize_stream_pool` two before it frees it, and each read, each turn of
those loops and the gap in `start_stream_thread` between the reset of the stop flag
and `pthread_create` is a step of its own. In that gap a callback that an earlier
`FJ_IPCU_SetReceiverCB` failed to remove may queue a frame although no thread is
there yet. The channel may also be opened while it is open (the fault `"reopen"`).
Where the code would then make a second stream thread beside the first, the model
stops (`CreateThread`): its one `thr` stands for the only thread the code is made
for. `owed[n]` is ghost state: the releases the application has still to
call; `unclean` remembers that an init failed half-way or came while the channel
was open, or that a drain timed out.
Signals of a condition variable move its waiter, waiters may also wake without
one, and the timed wait may expire whenever it is waiting. `Faults` names the
external calls that may fail.

**StreamList.** The lists below the ones of `StreamQueue`: heads, `next` and
`prev`, with anything in the pointers of a node fresh from `malloc`. A push to
the end is a walk, one step per turn, under the mutex of its list; the other two
lists are relinked meanwhile, in the same nodes' fields. `order` is a ghost: the
sequence each list ought to be. What `StreamQueue` proves as `NodesApart`, a
thread pushes a node it has taken out and nobody else has, is the discipline
assumed here (`hand`, `found`).

**SyncStream.** The IPCU thread's steps of `callback_camif`: convert the address,
call the application, release or not by its result. `addr[b]` follows what
`FJ_MM_phys_to_virt` makes of the address; converting twice gives `"undefined"`.
The release of meta data names it by that address, not by an index, so the RTOS
may not know the one it gets back (`NamedWrongly`): such a release may be lost like
one that could not be sent.

**CameraCommand.** Calls are numbered, and a result word is the number of the
call whose answer it is from, so a stale or a mixed result can be told from the
right one. Opening, the semaphore's life, clearing, sending, waiting, copying and
closing are separate steps against the callback's checks, two writes and post.
`strayed` is history: the calls during which the callback was at the
acknowledgement of an earlier one, which must have timed out or been strayed itself.

**Recorder.** The vector is modelled with its storage: an erase shifts the later
elements and leaves a stale last slot, a push into a full vector moves to new
storage, and the callback's iterators keep the range they read. Following a
dangling one sets `wild`; the model goes no further into undefined behaviour.
The spin lock's sections on the main thread, which no other thread can see
inside, are single steps.

**LiveSource.** The writer's and the event loop's steps between the pointer, the
reference count, the buffer's two parts and the mutex. live555 is external: it
creates a source only when there is none (`reuseFirstSource` is set), runs one
handler at a time and resets an event before it calls its handler.

**GpsData.** A sample is its time stamp. `HandleData` is the main thread's locked
section, the look-up is one step per turn of `getGPSData`'s loop, with the test
for an empty ring outside of the lock. The clock runs during all of it, messages
wait in the subscriber, and `SetBack` sets the clock back; `stepped` remembers
it. A look-up that finds an empty ring ends with `data = NoSample`: the callers
go on with an uninitialised struct.

**ControlLoop.** A turn of `main`'s loop is a handful of steps: the GPS
subscriber, or else the work status subscriber, the assignments of
`handle_sub_msg` one by one, the command socket with `handle_cmd`, the abort
flag. A message is its `cmd` and the keys it has, so that a missing key, a
value that is no number and a JSON `null` take the ways they take in the code: the
empty string, 0, a GPS message that is dropped (`handleData` returns at the first
number that does not parse, before it pushes anything), or the end of the process,
by an exception of `stof`, `stoi` or `stoull` (the GPS time stamp) that nobody
catches, or by a `std::string` made of the null pointer that
`json_object_get_string` returns. `Deadly` has the requests that can end it so. The IPCU thread's
`saveJpegWithExif` reads the fields of the maker note in any order, which is what
the evaluation of `sprintf`'s arguments may do. `told` is what the messages said
last of each field and `calm` says that no message was handled since the photo
began. A GPS sample is one more field here (`GpsData` has the ring), and of the
recorder only its state is left (`Recorder` has the rest).

**SeiEncoder.** `encode` pushes the payload byte by byte with its counter of
zeros; `UnitEndsAt`, `Dropped` and `Read` are what ISO/IEC 14496-10 has a player
do with the result in front of a frame's start code: its unit is the message up to
where the start code seems to begin. It is modelled as a step per byte and not as a
recursive operator, so that it can be proved about.

**PhotoCapture.** A photo is its number and a file is the number of the photo it
was made for, so that a name and what was opened under it can differ: `dir` maps
names to files, and a reader keeps its file after `remove()`. Each of a photo's
writes is a step, and so is each part another process reads. `failed` is the
value `false` of `saveJpegWithExif`, which the callback compares with 0: it is
what makes an announcement. So a photo with a failed write, or without EXIF data
and without a file, is announced, and one whose open failed is not; the model
does the same, and `faulty` marks these photos. The announcements are the set
`told`: a reader may come late, or twice. The IPCU thread is the only one that
takes the capture's mutex, so `trylock` fails only if a path leaves it locked.
Raw and YUV pictures and recordings are kept as the descriptors they leave open:
`save_frame_to_file` has no `close`, and neither `stop_record` nor the error exits
of `start_record` behind `avio_open` have an `avio_close`.

## What the runs check

| Run | Question | Bounds | States |
|---|---|---|---|
| `stream_queue_safety` | does any order of frames, releases, opens and closes, with every external call allowed to fail, put a node in two places, give a frame back early or twice, lose one, or leave something behind after a close? | 4 nodes, pool of 2, 3 buffers, 2 releasers, 2 uses per frame, 3 inits, on an open channel too | 1 324 000 |
| `stream_queue_progress` | does the engine implement `FrameLoan`, does a close return even if the application never releases a frame, and does every frame come back if it does? | 2 nodes, 2 buffers, 2 releasers, 2 opens, sends and unregistering may fail | 166 000 |
| `stream_list` | do the linked lists keep their order, and does a search find what is there? | 4 nodes, any of them or null in fresh pointers | 104 000 |
| `sync_stream` | does the synchronous mode implement `FrameLoan`, and is a sample readable while the application has it? | 3 buffers, sends may fail | 10 600 |
| `camera_command` | does a call get its own whole answer unless a late one falls into it, and does it return? | 3 calls, 2 commands | 242 000 |
| `recorder` | what goes into a file, and who is registered, after VideoStart and VideoStop in any order against arriving frames? | 3 starts, 3 frames, 2 streams | 811 000 |
| `live_source` | is a frame delivered whole, and is the source pointer used only while it is good? | 3 sources, frame numbers modulo 3 | 8 700 |
| `gps_data` | which sample does a frame or a photo get, and when is a frame marked as without GPS? | ring of 3, time-out 2, offset 1, 5 instants, 1 message under way | 206 000 |
| `sei_encoder` | does a player get every payload back, but for a lone zero at its end, and see no start code in it? | payload of 6 bytes out of 4 values | 36 900 |
| `control_loop` | what does a photo say of the device, are requests answered, and is the work status read? | 7 messages, with keys missing, garbled and null, 1 waiting in each subscriber, a GPS message every second turn; photos and messages, or messages and a client, with two sets of options | 1 247 000 |
| `quality_level` | does a quality get the level the comment at its declaration gives it? (no: 90) | qualities at the levels' boundaries | violated |
| `photo_capture` | what does a process that reads an announced photo see, and how long does a photo stay? | 3 names, 2 parts, 2 descriptors, 4 photos, 2 pictures or recordings | 207 000 |

*StreamQueue.* `NodesApart`, `HeldFramesPinned` and `LoansDistinct` say that no
node or frame has two owners and that a frame the application has still to
release stays where it is. `NoLoanForgotten` and `CountExact` say that nothing
is lost and that counts are those the application announced.
`NothingQueuedAfterStop`, `QueueHasOneReader` and `CleanClose`
are about opening and closing. `QueueHasOneReader` allows a queued frame without a
thread in the one place where the code has it, between the reset of the stop flag
and `pthread_create`, and asks that an init that has passed its three unlocked
checks finds no thread. It and `CleanClose` are conditional on `~unclean`: after a
drain that timed out, nodes do stay in `release_list`, the pool is not freed and
the next init is refused; after an init that failed half-way, pool or thread are
left; and an init on an open channel may read each list at a moment when its nodes
are in another and go on beside the running thread. That is what the code does, the
history variable says so, and nothing is claimed of lives that begin so but what
holds of every node and loan. The other seven properties have no such condition.
Two nodes in the pool, three buffers and two releasers let a frame be
refused for want of a node, two threads race for the last release of one frame
while another is queued, and two more nodes let a later life of the pool use
memory the first did not. Three inits allow a failed one, a close and a clean
life after them, or one on an open channel.

`stream_queue_progress` is checked under `FairSpec`, in which the threads run and the
drain's time-out expires but the application owes nothing: it may keep every frame
for ever, and `CloseReturns` holds all the same. `FramesComeBack` needs the
application, and says so: it is an implication from `AppFairness`.

*CameraCommand.* `RightAnswer` and `WokenByOwnAck` are about every call but the
strayed ones. A late acknowledgement passes for the answer of the call it falls into
if the command codes are equal, and otherwise wakes its caller with cleared words
and return value 0; that is in the model. What the two properties say is that the
damage ends there: no token and no word of it reaches a later call, which again has
its own answer, whole. A malformed acknowledgement gives cleared words and return
value 0, as in the code, and `RightAnswer` says that it never gives others. Three
calls, two of which may have the same code, are enough for an answer to be one or
two calls late and for a clean call after a strayed one.

*Recorder.* `WritesInsideFile` holds always: it is what the spin lock is for.
`UndisturbedWalk` and `CleanRecording` name exactly when the unlocked list and the
ignored result of `start_record` are harmless: as long as no command falls into a
dispatch and no start has failed. Both conditions can fail in the model, as in
the program, so the states beyond them are reached. Three starts allow a failed
one, a successful one and one after a stop that left a registration behind; three
frames of two streams allow one before, during and after a command.

*LiveSource.* The same shape: `WholeFrames` always holds, the use of a stale or
uninitialised pointer needs a source that comes or goes during a callback.

*StreamList.* `ListsKeepOrder` reads each list from its head and compares it with
`order`; `SearchRight` compares the end of a search with it. Four nodes allow a
removal from the middle of three while a fourth is pushed.

*ControlLoop.* `NoteIsLatest` is about a photo that no message disturbs: the fields
may have come in any order, in messages with and without the keys, but each must
be the last one's. A disturbed photo may mix two messages, and does. In
`RequestAnswered` the server may end instead, by its signal, by an exception, or
by a request with a `null`, or by a VideoStop without the video option, where
`media_recorder` is NULL.
`WorkStatusRead` needs that GPS messages come more seldom than turns of the loop
(`GpsPeriod` = 2): with one per turn TLC finds that work status messages are never
read, because `receiveSub` returns after a GPS message. The loop never waits and
GPS devices send a few messages a second, so the assumption is a fair one, but
nothing in the code enforces it. Messages and photos do not mix with requests in
this run: they share no state but the loop itself. In `quality_level` the code
disagrees with a comment: `device_status.cpp:8` says "1 for 90-99", and
`main.cpp:100` tests `> 90`. (The declaration in `device_status.h:12` has a third
scale in its comment.)

*SeiEncoder.* Six bytes of four values hold every run of zeros and every
neighbourhood of an insertion; the counter is never above 2. `SeiReadable` says
where the player's unit ends and what it reads from that unit, not from what was
written: all of the payload, unless it ends in a single zero, which gets no 0x03
behind it (`sei_encoder.cpp:34` acts on the second zero only) and is taken for a
part of the frame's start code. Then exactly that byte is missing. A GPS sample
whose roll, the last of its floats, ends in such a byte loses it.

*GpsData.* `NearestSample` is the reference definition of a look-up, on any ring
that messages can produce: full and wrapped, with equal time stamps, with frames
before, between and after all samples. It needs `~stepped`: after the clock is
set back, the ring is out of order and the scan may stop early. `SilenceShown`
has the two directions of the time-out; its exception, a ring with a single
sample, is the code's (the first sample is never tested for being later).
Five instants leave room for an offset, three samples and a silence longer than
the time-out; one message under way lets a sample arrive late.

*PhotoCapture.* `ReaderSeesOnePhoto` says that no reader, however slow, gets parts
of two photos, and that one that opened its file in time gets the announced
photo. `PhotoStays` says that every photo that met no fault is announced and
whole for the next two photos, as long as pictures and recordings, which never close
their file, have left a descriptor. Four photos bring the first name up again; two
descriptors are used up by two pictures or recordings.

### Fairness

* `StreamQueue`: weak fairness of each thread's steps (the scheduler runs
  threads), strong fairness of the timed wait's expiry: it is disabled while the
  thread is briefly out of the wait, but three seconds do pass. This is `FairSpec`,
  and `CloseReturns` needs no more. The premise of `FramesComeBack`, `AppFairness`,
  assumes of the application what the interface asks of it: it calls every
  release it owes, and its threads do not pass one frame over for ever.
* `SyncStream`: the IPCU thread runs, callbacks return, and a kept frame is
  released.
* `StreamList`, `GpsData`, `SeiEncoder`, `PhotoCapture`: safety only, no fairness.
* `CameraCommand`: caller and callback thread run, the time-out fires. The RTOS
  owes nothing: acknowledgements may be lost.
* `ControlLoop`: the main thread runs (it never blocks). Senders, client and
  photos owe nothing; GPS messages keep to their rate.
* `Recorder`, `LiveSource`: both threads run. No arrival of frames, clients or
  commands is assumed.

### Deadlock

It is checked in every run but five. In `camera_command` the bounded number of
calls may be used up, in `photo_capture` that of the photos; in `recorder` and
in the two runs of `ControlLoop` the program exits.

## What is proved

The proofs hold for every value of the constants that satisfies the named
assumptions: the nodes of the engine are finitely many, sizes and bounds that the
code has as positive are positive, the `No...` values are outside their sets,
`Faults` and `PhotoFaults` are among the calls named, the clock can get beyond the
offset, an SEI buffer has room for an insertion after
every second byte. Every safety property that a passing run checks is a theorem,
the two refinements of `FrameLoan` among them.

`LiveViewProofs` and `CameraProofs` each prove things about two modules that share no
state; so that one module can extend both, `SeiEncoder` and `PhotoCapture` name
their specifications `SeiSpec` and `PhotoSpec`.

**StreamQueueProofs.** `Invariant`, `TypeCorrect`, `NodesStayApart`,
`OneReleasePerLoan`, `HeldFramesStay` and `StoppedQueueEmpty`. None of these
properties is inductive alone: that a node popped by a releaser is in no other
place needs what each thread knows between two critical sections. `IInv` adds

* `CbInv`, `ThrInv`: the callback's frame is lent while it is handled; the stream
  thread's node is set between dequeue and dispatch, nobody owes a release for it
  yet, and a forced removal finds an empty list;
* `RelInv`: a releaser has a node exactly while it gives one back, and holds the
  mutex exactly between the two halves of the removal;
* `CountInv`: the counter of a dispatched node is what the application owes for
  it. This is why a decrement under the mutex sends only one releaser on.

The proof has one lemma per action that moves a node. Lemmas `AppendRange` and
`TailRange` turn the queue into a set without repetition. `StopInv`, on the stop flag
and the stream thread's states, is an invariant beside `IInv`.

Five theorems go on from there.

* `ClosesClean` needs `OrderlyInv`: as long as no init failed half-way or came while
  the channel was open, and no drain timed out, the stream thread exists exactly
  between `pthread_create` and join, the stop flag stays set from close to the
  next init, and once the thread is gone nothing is in a list, a hand or the
  callback (`Calm`), until the flag is reset. Then it does not matter that
  `finalize_stream_pool` reads the lists without their mutexes.
* `OneReader` follows from `OrderlyInv` and `StopInv`: an init begins with nothing in
  a list or a hand, so its three reads, whatever happens between them, cannot pass
  while a thread runs, and a frame that a left-over callback queues between the reset
  of the flag and `pthread_create` finds its thread next.
* `NoLoanLost` and `CountsStayExact` account for the loans: what an init takes for the
  pool is in no list and no hand (`Unallocated`), each error path puts a buffer
  into a release message, and `CountsInv` says what the counter is of a node in a
  thread's hand.
* `EngineImplementsContract` is the refinement of `FrameLoan`. The
  contract's line is the node in the stream thread's hand and `recv_queue` behind it
  (`LineNodes`); `NextContract` names for each action the contract's step or a
  stutter. The stutters are as much of it as the steps: a removal under way, a
  forced removal of an empty list and an init must not be seen in the contract.

**SyncStreamProofs.** `SyncImplementsContract`: every behaviour of the
synchronous mode is, under the mapping `whereBar`, `lineBar`, `usesBar`, one of
`FrameLoan`; `NextContract` names for each action the step it implements.
`SamplesAreReadable` and `TypeCorrect` come from the same invariant.

**GpsDataProofs.** `LookUpsGetNearestSample`, `SilenceIsShown` and `TypeCorrect`.
What a look-up returns depends on the whole history of the ring, so `IInv` adds

* `OrderInv`: while the clock was not set back, the ring and the messages under
  way are in the order of time, the first before the second, and none is from
  the future;
* `ScanInv`: the samples the loop has left behind are before the frame, but
  perhaps the first, which is only compared for equality;
* `LockInv`, `KindInv`: the reader has the mutex wherever it uses the ring, so
  the ring it scans is the ring it answers from.

`PushBackElements` says what `push_back` does to a ring that is full or not;
`HandleDataIInv` and `ScanIInv` treat the writer and the loop.

**StreamListProofs.** `ListsStayInOrder` and `SearchesAreRight`, for any number of
nodes. `IInv` ties the pointers to the ghost sequences: `Places` (a node is in one
list, one hand, or on its way), `Spells` (`next` and `prev` are the sequence
forwards and backwards), and where each walk is. `UnlinkList` is the removal from
the middle, of which a pop is the special case of the first element;
`OtherLists` says that a step on one list, whatever it writes to a node's
fields, leaves the other two spelled as they were, because their nodes are others.

**LiveViewProofs**, SEI. `EverySampleReadable`, for payloads of any length with bytes of
any value: the unit that the player ends is the message, or the message without the
lone zero it ends in, and what the player reads from that unit is the payload, or
the payload without that zero. The invariant says that what was pushed so far reads
as that part of the payload, that it does not end in two zeros, and that the counter
is the number of zeros it ends in. `PushKept` and `PushDropped` say what one more byte
does to `Read`, and `PopKept` what the loss of the last one does; cardinalities come
from the library's finite set theorems.

**ControlLoopProofs.** `UndisturbedNotesAreLatest` and `TypeCorrect`, for any messages.
`Pending` is the key: of every field, either it is what was meant or an assignment
of that is still to come. `AssignmentsAreMeant` proves it of each kind of message.

**RecorderProofs.** `TypeCorrect` is proved and not part of the run: types alone show
nothing of the server's code there. `WritesStayInside` needs `SpinInv` only. `UndisturbedWalksAreRight`
needs `ListInv`, which holds whether or not a walk is disturbed: the first `size`
slots hold the live server once and no registration twice, and a deleted object
only between its deletion and the erase. `WalkInv` counts what an undisturbed
walk has seen.
`RecordingStaysClean` adds `RegInv` and `OnceInv`: without failed starts there is at most one registration,
which the loop of `removeConsumer` has not passed yet, so its stepping over the
element after an erased one does no harm; and a walk no command falls into meets
it once. A failed start leaves a second one, which is why the property excludes it.

**LiveViewProofs**, live source. `FramesStayWhole` needs the mutex and one thing
that is easily missed: the writer may begin a frame in one source and end it after that source
was deleted and another made. It holds because a source is never made twice, so
the writer's pointer is not the new one. `PointerIsGoodBetweenCallbacks` needs what
pointer, count and trigger are worth between callbacks (`SourceInv`).

**CameraProofs**, commands. `AnswersAreRight` and `WakeUpsAreOwn` hold from one
argument about the single token, for any number of calls, time-outs and late
acknowledgements. An acknowledgement is pending or being handled only while its own
call waits, or it is astray: its call has timed out or was itself answered by
another's (`TokenInv`, `Astray`). In a call that no astray one has met the callback
can only be at the call's own, so `sem_init` has dropped all earlier tokens and the
only one posted is for this call. The callback posts as its last step, so the caller
copies words that are finished, and they are cleared, half written or whole exactly
as `Words` says (`AnswerInv`).

**CameraProofs**, photos. `ReadersSeeOnePhoto` and `PhotosStay`. The name of each of
the last `TempFiles` photos can be computed from the counter (`NameOf`), because
every photo finds the mutex free and moves the counter on (`NumInv`); so those names
differ, and what `remove()` and the next photo do is to a name that is out of the
window (`KeptInv`). A photo is always written to a file of its own, since `remove()`
came before the open (`WriteInv`, `OwnParts`), and so a reader that is overtaken
still reads one photo (`ReadInv`). `FdInv` counts the descriptors that pictures and
recordings leave open.

**Only model-checked.** All liveness, which the prover does not do: `CloseReturns`,
`FramesComeBack` in both receive modes, `CallReturns`, `CommandEnds`,
`WaitingClientServed`, `RequestAnswered` and `WorkStatusRead`. That the fixed
sizes of the runs are enough for these is argued with the bounds above.

## What is not modelled

* `callback_simple`, which passes raw messages to a callback and keeps no frame.
* The memory model: unlocked flags are read and written atomically. Where the
  code races on several words (result words, frame parts, list iterators) each
  word is a step.
* A release the application was not told to make. The interface forbids it.
* `rtos_cmd` and its wrappers ignore the result of `camera_if_command`; only one
  caller exists, the main thread.
* The contents of files, the constant entries of EXIF and XMP, GPIO and the space
  reporter's numbers: wording and pure I/O.
* Sizes of frames. The live view's test leaves out the SEI it puts in front; frames
  are far below `BUFFER_SIZE`, and no text of the repository bounds them.
* What happens when two threads use one ZeroMQ socket, as the announcement of a
  photo and the end of a recording may.
* GPS look-ups after the clock was set back are in the model, but no property
  says what they should return. `GpsData` has messages whose numbers do not parse; a
  time stamp that does not, whose exception ends the program, is in `ControlLoop`.
* A published message whose `cmd` itself is `null` ends the process like the other
  nulls; `ControlLoop`'s messages have one of the three known commands.
* A second stream thread. Where an init on an open channel, or after a drain that
  timed out, would make one, `StreamQueue` stops.
* What a consumer would make of meta data: the server has none, and the address it
  would get is converted twice.
* The files of raw and YUV pictures. Two in one second share a name, and the
  second overwrites the first without truncating it.
* The push client, which is deprecated and unused.
* The JPEG section parser, taken over from libexif: its only callers are under
  `#if 0`.

## Plan

What is left, in this order.

1. `FrameLoan`: what its users may rely on (a frame delivered and not yet returned
   is lent, the line is in the order of the offers) as theorems about the contract
   itself, so that they hold of both receive modes through the refinement.
2. `StreamList` as a refinement of the sets and the sequence that `StreamQueue` has
   in the place of the lists.
3. `callback_simple` and the second caller of the command channel, if one is added.
4. `Recorder` with the walks that a command falls into, as far as the vector's
   storage does not move, in place of the condition `~overlap`.
