----------------------------- MODULE SyncStream -----------------------------
(***************************************************************************)
(* The synchronous mode (ipcu_param.sw = 0) of sample_library.c, in which  *)
(* the server itself runs: callback_camif hands each command to the        *)
(* application on the IPCU thread and gives the frame back when the        *)
(* application's callback returns, unless a positive result says that the  *)
(* application keeps it and will call Stream_release.                      *)
(*                                                                         *)
(* It keeps the same contract, FrameLoan, as the asynchronous engine.      *)
(*                                                                         *)
(* A definition X_Y, just above X, is X with a bug: the runs' properties   *)
(* fail when it takes the place of X.                                      *)
(***************************************************************************)
EXTENDS Naturals, Sequences

CONSTANTS
    Buffers,      \* sample areas the RTOS lends
    Phys,         \* ipcu_param.phys: the application wants physical addresses
    SendMayFail,  \* FJ_IPCU_Send may fail
    NoBuf

ASSUME SyncAssumption == NoBuf \notin Buffers /\ {Phys, SendMayFail} \subseteq BOOLEAN

VARIABLES
    cbOn,         \* callback_camif is registered
    cb, cur,      \* the IPCU thread and the frame it has
    kind,         \* kind[b]: what the command of the current loan of b says
    addr,         \* addr[b]: what its sample_address is by now
    loan,         \* loan[b]: does Linux hold b, or has its release been lost
    kept,         \* frames whose callback returned a positive value
    releasing     \* frames an application thread is in Stream_release for

vars == <<cbOn, cb, cur, kind, addr, loan, kept, releasing>>

Kinds == {"sample",      \* video, audio, raw, yuv or jpeg
          "meta",
          "other",       \* good magic, but no case takes it
          "corrupt"}     \* MagicCode is not 0x9999EEEE

Init == /\ cbOn = FALSE
        /\ cb = "idle" /\ cur = NoBuf
        /\ kind = [b \in Buffers |-> "sample"]
        /\ addr = [b \in Buffers |-> "phys"]
        /\ loan = [b \in Buffers |-> "rtos"]
        /\ kept = {} /\ releasing = {}
-----------------------------------------------------------------------------
(* callback_camif.                                                         *)

RtosSend(b) ==
    /\ cbOn /\ cb = "idle"
    /\ loan[b] = "rtos"
    /\ loan' = [loan EXCEPT ![b] = "lent"]
    /\ \E k \in Kinds : kind' = [kind EXCEPT ![b] = k]
    /\ addr' = [addr EXCEPT ![b] = "phys"]
    /\ cb' = "convert" /\ cur' = b
    /\ UNCHANGED <<cbOn, kept, releasing>>

\* FJ_MM_phys_to_virt: defined for physical addresses only.
PhysToVirt(a) == IF a = "phys" THEN "virt" ELSE "undefined"

\* The address is converted before the magic code is looked at.  A corrupt
\* command is only reported.
Convert ==
    /\ cb = "convert"
    /\ addr' = IF Phys THEN addr ELSE [addr EXCEPT ![cur] = PhysToVirt(@)]
    /\ IF kind[cur] = "corrupt" THEN cb' = "idle" /\ cur' = NoBuf
                                ELSE cb' = "call" /\ UNCHANGED cur
    /\ UNCHANGED <<cbOn, kind, loan, kept, releasing>>

SecondConversion_Always == ~Phys
\* Only the case for meta data converts again.
SecondConversion == ~Phys /\ kind[cur] = "meta"

\* The callback for this kind of stream is called.
CallApplication ==
    /\ cb = "call"
    /\ kind[cur] \in {"sample", "meta"}
    /\ addr' = IF SecondConversion THEN [addr EXCEPT ![cur] = PhysToVirt(@)] ELSE addr
    /\ cb' = "app"
    /\ UNCHANGED <<cbOn, cur, kind, loan, kept, releasing>>

\* An unknown sub-command leaves ret at 1: not released, and kept by nobody.
Unhandled ==
    /\ cb = "call"
    /\ kind[cur] = "other"
    /\ cb' = "idle" /\ cur' = NoBuf
    /\ UNCHANGED <<cbOn, kind, addr, loan, kept, releasing>>

Keeps_Released == cb' = "release" /\ kept' = kept \cup {cur} /\ UNCHANGED cur
\* ret > 0.
Keeps == cb' = "idle" /\ kept' = kept \cup {cur} /\ cur' = NoBuf

GivesBack_OnNegative == cb' = "idle" /\ cur' = NoBuf
\* ret <= 0.
GivesBack == cb' = "release" /\ UNCHANGED cur

\* The application's callback returns.
Returns ==
    /\ cb = "app"
    /\ \/ Keeps
       \/ GivesBack /\ UNCHANGED kept
    /\ UNCHANGED <<cbOn, kind, addr, loan, releasing>>

\* The message names a sample by its area_index, but meta data by its
\* sample_address: the RTOS need not know one that Linux has converted.
NamedWrongly(b) == kind[b] = "meta" /\ addr[b] # "phys"

\* release_stream.  Nothing is sent for a corrupt command; none gets here.
ReleaseStream(b) ==
    \E l \in {"rtos", "lost"} :
      /\ l = "lost" => SendMayFail \/ NamedWrongly(b)
      /\ loan' = [loan EXCEPT ![b] = l]

Release ==
    /\ cb = "release"
    /\ ReleaseStream(cur)
    /\ cb' = "idle" /\ cur' = NoBuf
    /\ UNCHANGED <<cbOn, kind, addr, kept, releasing>>
-----------------------------------------------------------------------------
(* The application: Stream_release of a frame it kept.                     *)

ForgetKept_Stays(b) == UNCHANGED kept
ForgetKept(b) == kept' = kept \ {b}

StreamRelease(b) ==
    /\ b \in kept
    /\ ForgetKept(b)
    /\ releasing' = releasing \cup {b}
    /\ UNCHANGED <<cbOn, cb, cur, kind, addr, loan>>

StreamReleaseSend(b) ==
    /\ b \in releasing
    /\ ReleaseStream(b)
    /\ releasing' = releasing \ {b}
    /\ UNCHANGED <<cbOn, cb, cur, kind, addr, kept>>
-----------------------------------------------------------------------------
(* Stream_ipcu_ch_init and Stream_ipcu_ch_close: registration only.  A     *)
(* running callback goes on, and so do frames that are kept.               *)

Open == cbOn' = TRUE /\ UNCHANGED <<cb, cur, kind, addr, loan, kept, releasing>>
Close == cbOn' = FALSE /\ UNCHANGED <<cb, cur, kind, addr, loan, kept, releasing>>
-----------------------------------------------------------------------------
CallbackStep == Convert \/ CallApplication \/ Unhandled \/ Returns \/ Release

Next == \/ \E b \in Buffers : RtosSend(b) \/ StreamRelease(b) \/ StreamReleaseSend(b)
        \/ CallbackStep
        \/ Open \/ Close

Spec == Init /\ [][Next]_vars

\* The callbacks return, and the application releases what it keeps.
FairSpec == /\ Spec /\ WF_vars(CallbackStep)
            /\ \A b \in Buffers : WF_vars(StreamRelease(b)) /\ WF_vars(StreamReleaseSend(b))
-----------------------------------------------------------------------------
TypeOK ==
    /\ cbOn \in BOOLEAN
    /\ cb \in {"idle", "convert", "call", "app", "release"}
    /\ cur \in Buffers \cup {NoBuf}
    /\ kind \in [Buffers -> Kinds]
    /\ addr \in [Buffers -> {"phys", "virt", "undefined"}]
    /\ loan \in [Buffers -> {"rtos", "lent", "lost"}]
    /\ kept \subseteq Buffers /\ releasing \subseteq Buffers \ kept

\* While the application may look at a sample its address is the kind it asked
\* for, and the frame is still lent.  (A meta command's address is converted
\* twice: see the hazards.)
SampleReadable ==
    \A b \in kept \cup (IF cb = "app" THEN {cur} ELSE {}) :
        /\ loan[b] = "lent"
        /\ kind[b] # "meta" => addr[b] = IF Phys THEN "phys" ELSE "virt"

\* Every sample and meta frame leaves Linux again, as far as Linux can tell: its
\* release is sent, though it may be lost or name no frame the RTOS knows.
FramesComeBack ==
    \A b \in Buffers :
        loan[b] = "lent" /\ kind[b] \in {"sample", "meta"} ~> loan[b] # "lent"
-----------------------------------------------------------------------------
(* The contract.  A corrupt command is offered for good; an unknown one is *)
(* delivered to nobody.                                                    *)

whereBar ==
    [b \in Buffers |->
       IF loan[b] # "lent" THEN loan[b]
       ELSE IF kind[b] = "corrupt" \/ (b = cur /\ cb = "convert") THEN "offered"
       ELSE IF b = cur /\ cb = "call" THEN "waiting" ELSE "held"]
lineBar == IF cb = "call" THEN <<cur>> ELSE <<>>
usesBar == [b \in Buffers |-> IF b \in kept \/ (b = cur /\ cb = "app") THEN 1 ELSE 0]

Contract == INSTANCE FrameLoan
            WITH MaxCount <- 1, where <- whereBar, line <- lineBar, uses <- usesBar

\* The synchronous mode implements the contract as well: a frame goes back
\* after the callback or after Stream_release, whichever the callback's result
\* says, and only once.
ImplementsContract == Contract!Spec
=============================================================================
