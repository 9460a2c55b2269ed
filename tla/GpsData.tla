------------------------------ MODULE GpsData ------------------------------
(***************************************************************************)
(* GPSEstone (gps_estone.cpp): the main thread puts GPS samples into a     *)
(* ring, the IPCU thread looks up the sample for a frame by the frame's    *)
(* time, or the newest one for a photo.  One mutex guards the ring; the    *)
(* test whether it is empty is outside.                                    *)
(*                                                                         *)
(* Sample and frame times come from the device's clock, which may be set   *)
(* back.  A sample is its time stamp; its position and angles are not      *)
(* told apart.                                                             *)
(*                                                                         *)
(* A definition X_Y, just above X, is X with a bug: the runs' properties   *)
(* fail when it takes the place of X.                                      *)
(***************************************************************************)
EXTENDS Naturals, Sequences

CONSTANTS
    RingLength,   \* GPS_BUF_LENGTH
    Timeout,      \* 2*1000 ms
    Offset,       \* the option gps_timing_offset
    MaxTime,      \* bound: the clock
    MaxLink,      \* bound: messages under way to the subscriber
    ClockMayStep, \* the clock may be set back
    NoSample

ASSUME RingAssumption == RingLength \in Nat \ {0}
ASSUME ClockAssumption == {Timeout, Offset, MaxTime, MaxLink} \subseteq Nat /\ MaxTime > Offset
ASSUME GpsNoneAssumption == NoSample \notin Nat /\ ClockMayStep \in BOOLEAN

Times == (Offset + 1)..MaxTime
Newest == 0                   \* the time stamp photos ask with

VARIABLES
    now,          \* the system clock
    link,         \* GPS messages sent and not yet read, with their time stamps
    ring,         \* gps_data_buf
    rcv,          \* gps_rcv_tmout: when the last sample was handled
    lock,         \* who has dataMutex across steps
    rd, stamp, it,  \* the IPCU thread in getGPSData, its time_stamp and iterator
    data, marked, \* *data, and whether it was overwritten with 0xffffffff
    stepped       \* history: the clock was set back

reader == <<rd, stamp, it, data, marked>>
vars == <<now, link, ring, rcv, lock, reader, stepped>>

Init == /\ now = Offset + 1
        /\ link = <<>> /\ ring = <<>>
        /\ rcv = Offset + 1       \* uninitialised, but not read before it is set
        /\ lock = "free"
        /\ rd = "idle" /\ stamp = Newest /\ it = 1
        /\ data = NoSample /\ marked = FALSE
        /\ stepped = FALSE
-----------------------------------------------------------------------------
(* The clock and the sender of GPS messages.                               *)

Tick == /\ now < MaxTime
        /\ now' = now + 1
        /\ UNCHANGED <<link, ring, rcv, lock, reader, stepped>>

SetBack == /\ ClockMayStep
           /\ \E n \in Times : n < now /\ now' = n
           /\ stepped' = TRUE
           /\ UNCHANGED <<link, ring, rcv, lock, reader>>

Send == /\ Len(link) < MaxLink
        /\ link' = Append(link, now)
        /\ UNCHANGED <<now, ring, rcv, lock, reader, stepped>>
-----------------------------------------------------------------------------
(* The main thread: handleData.                                            *)

\* A message one of whose six numbers does not parse is dropped.
HandleMalformed ==
    /\ link # <<>>
    /\ link' = Tail(link)
    /\ UNCHANGED <<now, ring, rcv, lock, reader, stepped>>

PushBack_InFront(ts) == <<ts>> \o (IF Len(ring) < RingLength THEN ring
                                   ELSE SubSeq(ring, 1, Len(ring) - 1))
\* push_back of a full circular buffer overwrites its first element.
PushBack(ts) == Append(IF Len(ring) < RingLength THEN ring ELSE Tail(ring), ts)

\* One locked section: the time of reception, then the ring.
HandleData ==
    /\ link # <<>>
    /\ lock = "free"
    /\ link' = Tail(link)
    /\ rcv' = now
    /\ ring' = PushBack(Head(link))
    /\ UNCHANGED <<now, lock, reader, stepped>>
-----------------------------------------------------------------------------
(* The IPCU thread: getGPSData.                                            *)

\* For a frame of the recorder or the live view, or for a photo.
Ask == /\ rd = "idle"
       /\ stamp' \in {now - Offset, Newest}
       /\ rd' = "test"
       /\ UNCHANGED <<now, link, ring, rcv, lock, it, data, marked, stepped>>

\* Without the mutex.  An empty ring leaves *data as it was: uninitialised.
TestEmpty == /\ rd = "test"
             /\ rd' = IF ring = <<>> THEN "done" ELSE "lock"
             /\ UNCHANGED <<now, link, ring, rcv, lock, stamp, it, data, marked, stepped>>

LockRing == /\ rd = "lock"
            /\ lock = "free" /\ lock' = "reader"
            /\ rd' = IF stamp = Newest THEN "back" ELSE "scan"
            /\ UNCHANGED <<now, link, ring, rcv, stamp, it, data, marked, stepped>>

Back == /\ rd = "back"
        /\ data' = ring[Len(ring)]
        /\ rd' = "done"
        /\ UNCHANGED <<now, link, ring, rcv, lock, stamp, it, marked, stepped>>

AfterFirst_Any == TRUE
AfterFirst == it # 1

Between == stamp < ring[it] /\ AfterFirst
Equal == ~Between /\ stamp = ring[it]

IsLast_OffByOne == it = Len(ring) + 1
\* it == end() - 1
IsLast == it = Len(ring)

Found_Later == data' = ring[it]
\* The sample before the first later one.
Found == data' = ring[it - 1]

ScanBetween == /\ rd = "scan"
               /\ Between
               /\ Found
               /\ rd' = "done"
               /\ UNCHANGED <<now, link, ring, rcv, lock, stamp, it, marked, stepped>>

ScanEqual == /\ rd = "scan"
             /\ Equal
             /\ data' = ring[it]
             /\ rd' = "done"
             /\ UNCHANGED <<now, link, ring, rcv, lock, stamp, it, marked, stepped>>

Silent_Never == FALSE
\* Subtracted as unsigned numbers, hence the first test.
Silent == now > rcv /\ now - rcv > Timeout

ScanLast == /\ rd = "scan"
            /\ ~Between /\ ~Equal
            /\ IsLast
            /\ data' = ring[it]
            /\ marked' = Silent
            /\ rd' = "done"
            /\ UNCHANGED <<now, link, ring, rcv, lock, stamp, it, stepped>>

ScanNext == /\ rd = "scan"
            /\ ~Between /\ ~Equal /\ ~IsLast
            /\ it' = it + 1
            /\ UNCHANGED <<now, link, ring, rcv, lock, rd, stamp, data, marked, stepped>>

\* The lock guard ends, the caller uses what it got; none looks at the result.
Return == /\ rd = "done"
          /\ rd' = "idle"
          /\ lock' = "free"
          /\ stamp' = Newest /\ it' = 1
          /\ data' = NoSample /\ marked' = FALSE
          /\ UNCHANGED <<now, link, ring, rcv, stepped>>
-----------------------------------------------------------------------------
Lookup == TestEmpty \/ LockRing \/ Back \/ ScanBetween \/ ScanEqual \/ ScanLast \/ ScanNext \/ Return

Next == Tick \/ SetBack \/ Send \/ HandleMalformed \/ HandleData \/ Ask \/ Lookup

Spec == Init /\ [][Next]_vars
-----------------------------------------------------------------------------
TypeOK ==
    /\ now \in Times
    /\ link \in Seq(Times) /\ Len(link) <= MaxLink
    /\ ring \in Seq(Times) /\ Len(ring) <= RingLength
    /\ rcv \in Times
    /\ lock \in {"free", "reader"}
    /\ rd \in {"idle", "test", "lock", "back", "scan", "done"}
    /\ stamp \in 0..MaxTime
    /\ it \in Nat
    /\ rd = "scan" => it \in 1..Len(ring)
    /\ data \in Times \cup {NoSample}
    /\ marked \in BOOLEAN /\ stepped \in BOOLEAN

Answered == rd = "done" /\ data # NoSample

\* As long as the clock was not set back, a frame gets the newest sample of the
\* ring that is not later than the frame, or the oldest if all are later.
FrameGetsNearest ==
    Answered /\ stamp # Newest /\ ~stepped =>
        /\ \E i \in 1..Len(ring) : data = ring[i]
        /\ \A i \in 1..Len(ring) : IF ring[i] <= stamp THEN ring[i] <= data /\ data <= stamp
                                   ELSE data <= ring[i]

\* A frame is marked as without GPS only if no sample came for the time-out and
\* none in the ring is later than it, save when there is just one; and it is
\* marked if the silence had lasted that long at the time of the frame.
SilenceShown ==
    Answered /\ stamp # Newest /\ ~stepped =>
        /\ marked => now - rcv > Timeout /\ (stamp > ring[Len(ring)] \/ Len(ring) = 1)
        /\ stamp > ring[Len(ring)] /\ stamp + Offset > rcv + Timeout => marked

\* A photo gets the newest sample of all, however old it is, and is never marked.
PhotoGetsNewest ==
    Answered /\ stamp = Newest /\ ~stepped =>
        ~marked /\ \A i \in 1..Len(ring) : ring[i] <= data

\* What a look-up returns is right for a frame and for a photo.
NearestSample == FrameGetsNearest /\ PhotoGetsNewest
=============================================================================
