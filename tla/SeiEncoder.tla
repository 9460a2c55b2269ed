----------------------------- MODULE SeiEncoder -----------------------------
(***************************************************************************)
(* SeiEncoder::encode (sei_encoder.cpp): the GPS sample of a frame as the  *)
(* payload of an H.264 SEI message that goes in front of the frame.  A     *)
(* 0x03 after every two zero bytes keeps a player from seeing a start code *)
(* in the payload; it has to find the frame's own and to get the payload   *)
(* back by dropping what was inserted.  A single zero at the end of the    *)
(* payload has no 0x03 behind it and is lost to the frame's start code.    *)
(*                                                                         *)
(* encode keeps nothing between two calls, which all come from the IPCU    *)
(* thread.  The sample's three int32 and three floats are any bytes,       *)
(* uninitialised ones included.  The head has no two zeros after its start *)
(* code and ends in another byte than 0, so only its length matters.       *)
(*                                                                         *)
(* A definition X_Y, just above X, is X with a bug: the runs' properties   *)
(* fail when it takes the place of X.                                      *)
(***************************************************************************)
EXTENDS Integers, Sequences, FiniteSets

CONSTANTS
    Bytes,           \* values of a byte that occur
    PayloadLength,   \* 24: three int32, three floats
    HeadLength,      \* 23, SEI_HEAD
    BufferLength     \* 128, sei_data of the callers

ASSUME ByteAssumption == Bytes \subseteq Nat
ASSUME LengthAssumption == {PayloadLength, HeadLength, BufferLength} \subseteq Nat
\* The callers' buffers have room for a 0x03 after every second byte.
ASSUME RoomAssumption == HeadLength + PayloadLength + (PayloadLength \div 2) <= BufferLength

VARIABLES
    pc,              \* "idle", in the loop, or "done": the caller has the result
    tmp,             \* the payload
    i,               \* bytes of it that were pushed
    zero_counter,
    a,               \* the payload with its insertions
    length           \* of the whole SEI message

seiVars == <<pc, tmp, i, zero_counter, a, length>>

Payloads == [1..PayloadLength -> Bytes]

SeiInit ==
    /\ pc = "idle"
    /\ tmp \in Payloads
    /\ i = 0 /\ zero_counter = 0 /\ a = <<>> /\ length = 0
-----------------------------------------------------------------------------
\* A frame: its sample is copied and the loop begins.
Encode ==
    /\ pc \in {"idle", "done"}
    /\ pc' = "loop"
    /\ tmp' \in Payloads
    /\ i' = 0 /\ zero_counter' = 0 /\ a' = <<>> /\ length' = 0

ZerosAfter(b) == IF b = 0 THEN zero_counter + 1 ELSE 0

CounterAfter_NotReset(b) == ZerosAfter(b)
\* An insertion starts the count again.
CounterAfter(b) == IF ZerosAfter(b) = 2 THEN 0 ELSE ZerosAfter(b)

Pushed_ZeroNext(b) == IF zero_counter = 1 /\ b = 0 THEN <<3, b>> ELSE <<b>>
Pushed(b) == IF ZerosAfter(b) = 2 THEN <<b, 3>> ELSE <<b>>

PushByte ==
    /\ pc = "loop" /\ i < PayloadLength
    /\ i' = i + 1
    /\ a' = a \o Pushed(tmp[i + 1])
    /\ zero_counter' = CounterAfter(tmp[i + 1])
    /\ UNCHANGED <<pc, tmp, length>>

Finish ==
    /\ pc = "loop" /\ i = PayloadLength
    /\ pc' = "done"
    /\ length' = Len(a) + HeadLength
    /\ UNCHANGED <<tmp, i, zero_counter, a>>

SeiNext == Encode \/ PushByte \/ Finish

SeiSpec == SeiInit /\ [][SeiNext]_seiVars
-----------------------------------------------------------------------------
(* A player, as ISO/IEC 14496-10 has it: a unit ends where three bytes     *)
(* 0 0 0 or 0 0 1 begin, and in a unit a byte after two zeros is dropped.  *)

\* The callers put the frame, which begins with a start code, behind the SEI.
Sample == a \o <<0, 0, 0, 1>>

UnitEndsAt(s, k) == k + 2 \in 1..Len(s) /\ s[k] = 0 /\ s[k + 1] = 0 /\ s[k + 2] \in {0, 1}

Dropped(s, k) == k > 2 /\ s[k - 1] = 0 /\ s[k - 2] = 0

Read(s, k) == {m \in 1..k : ~Dropped(s, m)}

\* The player's unit is the first n bytes of the message.
UnitIs(n) == UnitEndsAt(Sample, n + 1) /\ \A k \in 1..n : ~UnitEndsAt(Sample, k)

\* A zero that ends the message is taken for one of the frame's start code.
Lost == IF a # <<>> /\ a[Len(a)] = 0 THEN 1 ELSE 0

\* What the player reads of s, byte by byte, is the first n bytes of the payload.
Reads(s, n) ==
    /\ Cardinality(Read(s, Len(s))) = n
    /\ \A k \in 1..Len(s) : IF Dropped(s, k) THEN s[k] = 3
                                             ELSE s[k] = tmp[Cardinality(Read(s, k))]

SeiTypeOK ==
    /\ pc \in {"idle", "loop", "done"}
    /\ tmp \in Payloads
    /\ i \in 0..PayloadLength
    /\ zero_counter \in {0, 1}
    /\ a \in Seq(Bytes \cup {3})
    /\ length \in 0..BufferLength

\* The player ends its unit behind the last byte of the message and reads the
\* payload back from it, whatever bytes the sample has, but for one: a zero at
\* the end of the payload with no 0x03 behind it stays out of the unit, and then
\* the player reads all the bytes before it.  The message fits the callers'
\* buffers.
SeiReadable ==
    /\ UnitIs(Len(a) - Lost)
    /\ Reads(SubSeq(a, 1, Len(a) - Lost), i - Lost)
    /\ Lost = 1 => tmp[i] = 0
    /\ pc = "done" => length = HeadLength + Len(a) /\ length <= BufferLength /\ i = PayloadLength
=============================================================================
