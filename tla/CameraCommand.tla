---------------------------- MODULE CameraCommand ----------------------------
(***************************************************************************)
(* camera_if_command of sample_library.c: a command sent to the RTOS over  *)
(* one mailbox, its acknowledgement received by a callback on another, a   *)
(* semaphore between the two and a time-out on the wait.  The variables    *)
(* they share (the semaphore, the current command, the return value) are   *)
(* static and unlocked: the mutex around them is commented out.            *)
(*                                                                         *)
(* Calls are numbered.  An acknowledgement carries two of the four result  *)
(* words; the number of the call it answers stands for their value and 0   *)
(* for the cleared word, so a mixed result shows.                          *)
(*                                                                         *)
(* A definition X_Y, just above X, is X with a bug: the runs' properties   *)
(* fail when it takes the place of X.                                      *)
(***************************************************************************)
EXTENDS Naturals

CONSTANTS
    Cmds,         \* command codes (cmd_set and cmd together)
    MaxCalls,     \* bound: calls of camera_if_command
    Faults,       \* which of "open" and "send" may fail
    NoCmd

ASSUME CallsAssumption == MaxCalls \in Nat /\ NoCmd \notin Cmds
ASSUME CmdFaultAssumption == Faults \subseteq {"open", "send"}

Calls == 1..MaxCalls

VARIABLES
    pc,           \* the calling thread
    call,         \* number of the call in progress, or of the last one
    cmdOf,        \* cmdOf[m]: command of call m
    chan,         \* the two channels are open and the callback registered
    sem, semLive, \* cb_sem, and whether it is between sem_init and sem_destroy
    current,      \* camera_if_current_cmd_set, camera_if_current_cmd
    retWord,      \* camera_if_cmd_ret_value.recv_param, two words
    result,       \* result[m]: recv_param as call m copied it
    ret,          \* ret[m]: what call m returned
    ack,          \* ack[m]: where the acknowledgement of call m is
    good,         \* good[m]: it is well-formed (length, magic code, version)
    cb, cbCall,   \* the callback thread and the call its ack answers
    strayed       \* history: calls during which the callback was at the
                  \* acknowledgement of an earlier one

caller == <<pc, call, cmdOf, chan, result, ret>>
shared == <<sem, semLive, current, retWord>>
cbVars == <<cb, cbCall, ack, good>>
vars == <<caller, shared, cbVars, strayed>>

Init == /\ pc = "idle" /\ call = 0
        /\ cmdOf = [m \in Calls |-> NoCmd]
        /\ chan = "closed"
        /\ sem = 0 /\ semLive = FALSE
        /\ current = NoCmd
        /\ retWord = <<0, 0>>
        /\ result = [m \in Calls |-> <<0, 0>>]
        /\ ret = [m \in Calls |-> "none"]
        /\ ack = [m \in Calls |-> "none"]
        /\ good = [m \in Calls |-> FALSE]
        /\ cb = "idle" /\ cbCall = 0
        /\ strayed = {}
-----------------------------------------------------------------------------
(* The caller: camera_if_command and camera_if_send_cmd.                   *)

Call(c) ==
    /\ pc = "idle"
    /\ call < MaxCalls
    /\ call' = call + 1
    /\ cmdOf' = [cmdOf EXCEPT ![call + 1] = c]
    /\ pc' = "open"
    /\ strayed' = IF cb = "idle" THEN strayed ELSE strayed \cup {call + 1}
    /\ UNCHANGED <<chan, result, ret, shared, cbVars>>

\* camera_if_ipcu_ch_open closes again what it opened when a step fails; the
\* call then destroys a semaphore that it has not initialised.
Open ==
    /\ pc = "open"
    /\ \/ chan' = "open" /\ pc' = "seminit" /\ UNCHANGED ret
       \/ /\ "open" \in Faults
          /\ pc' = "destroy"
          /\ ret' = [ret EXCEPT ![call] = "fail"]
          /\ UNCHANGED chan
    /\ UNCHANGED <<call, cmdOf, result, shared, cbVars, strayed>>

SemInitial_Two == 2
SemInitial == 1

\* sem_init: the callback is registered by now, and may have posted already.
SemInit ==
    /\ pc = "seminit"
    /\ sem' = SemInitial /\ semLive' = TRUE
    /\ pc' = "clear"
    /\ UNCHANGED <<call, cmdOf, chan, result, ret, current, retWord, cbVars, strayed>>

Cleared_Kept == retWord
Cleared == <<0, 0>>

\* camera_if_send_cmd clears the return value, then sets the command an
\* acknowledgement must carry; the callback may run in between.
ClearReturn ==
    /\ pc = "clear"
    /\ retWord' = Cleared
    /\ pc' = "setcmd"
    /\ UNCHANGED <<call, cmdOf, chan, result, ret, sem, semLive, current, cbVars, strayed>>

SetCurrent ==
    /\ pc = "setcmd"
    /\ current' = cmdOf[call]
    /\ pc' = "trywait"
    /\ UNCHANGED <<call, cmdOf, chan, result, ret, sem, semLive, retWord, cbVars, strayed>>

TakeToken_Dropped == UNCHANGED sem
\* sem_trywait: it cannot fail right after sem_init with 1, since only this
\* thread takes tokens.
TakeToken == sem' = sem - 1

TryWait ==
    /\ pc = "trywait"
    /\ sem > 0
    /\ TakeToken
    /\ pc' = "send"
    /\ UNCHANGED <<call, cmdOf, chan, result, ret, semLive, current, retWord, cbVars, strayed>>

\* FJ_IPCU_Send.
Send ==
    /\ pc = "send"
    /\ \/ /\ ack' = [ack EXCEPT ![call] = "pending"]
          /\ pc' = "wait"
          /\ UNCHANGED ret
       \/ /\ "send" \in Faults
          /\ ret' = [ret EXCEPT ![call] = "fail"]
          /\ pc' = "destroy"
          /\ UNCHANGED ack
    /\ UNCHANGED <<call, cmdOf, chan, result, shared, cb, cbCall, good, strayed>>

Posted_NotTested == TRUE
Posted == sem > 0

\* sem_timedwait returns because a token was posted ...
Wait ==
    /\ pc = "wait"
    /\ Posted
    /\ sem' = sem - 1
    /\ pc' = "copy1"
    /\ UNCHANGED <<call, cmdOf, chan, result, ret, semLive, current, retWord, cbVars, strayed>>

TimedOut_Never == FALSE
TimedOut == sem = 0

\* ... or because to_sec seconds have passed without one.
TimeOut ==
    /\ pc = "wait"
    /\ TimedOut
    /\ ret' = [ret EXCEPT ![call] = "fail"]
    /\ pc' = "destroy"
    /\ UNCHANGED <<call, cmdOf, chan, result, shared, cbVars, strayed>>

\* The result words are copied one by one; ret_value.ret is not looked at.
Copy1 ==
    /\ pc = "copy1"
    /\ result' = [result EXCEPT ![call][1] = retWord[1]]
    /\ pc' = "copy2"
    /\ UNCHANGED <<call, cmdOf, chan, ret, shared, cbVars, strayed>>

Copy2 ==
    /\ pc = "copy2"
    /\ result' = [result EXCEPT ![call][2] = retWord[2]]
    /\ ret' = [ret EXCEPT ![call] = "ok"]
    /\ pc' = "destroy"
    /\ UNCHANGED <<call, cmdOf, chan, shared, cbVars, strayed>>

SemDestroy ==
    /\ pc = "destroy"
    /\ semLive' = FALSE
    /\ pc' = "close"
    /\ UNCHANGED <<call, cmdOf, chan, result, ret, sem, current, retWord, cbVars, strayed>>

\* camera_if_ipcu_ch_close: no callback starts after it; one may be running.
Close ==
    /\ pc = "close"
    /\ chan' = "closed"
    /\ pc' = "idle"
    /\ UNCHANGED <<call, cmdOf, result, ret, shared, cbVars, strayed>>
-----------------------------------------------------------------------------
(* The RTOS and the callback thread: camera_if_cmd_rcv_callback.           *)

\* One acknowledgement per command; it may come late, or get lost.
AckLost(m) ==
    /\ ack[m] = "pending"
    /\ ack' = [ack EXCEPT ![m] = "lost"]
    /\ UNCHANGED <<caller, shared, cb, cbCall, good, strayed>>

\* The checks.  A bad answer posts without touching the result words.
Callback(m) ==
    /\ cb = "idle"
    /\ chan = "open"
    /\ ack[m] = "pending"
    /\ ack' = [ack EXCEPT ![m] = "seen"]
    /\ \E g \in BOOLEAN :
         /\ good' = [good EXCEPT ![m] = g]
         /\ cb' = IF g /\ cmdOf[m] = current THEN "write1" ELSE "post"
    /\ cbCall' = m
    /\ strayed' = IF m = call THEN strayed ELSE strayed \cup {call}
    /\ UNCHANGED <<caller, shared>>

CallbackWrite1 ==
    /\ cb = "write1"
    /\ retWord' = [retWord EXCEPT ![1] = cbCall]
    /\ cb' = "write2"
    /\ UNCHANGED <<caller, sem, semLive, current, cbCall, ack, good, strayed>>

CallbackWrite2 ==
    /\ cb = "write2"
    /\ retWord' = [retWord EXCEPT ![2] = cbCall]
    /\ cb' = "post"
    /\ UNCHANGED <<caller, sem, semLive, current, cbCall, ack, good, strayed>>

\* sem_post.  On a destroyed semaphore it is undefined, but what it would count
\* is gone with the next sem_init.
CallbackPost ==
    /\ cb = "post"
    /\ sem' = IF semLive THEN sem + 1 ELSE sem
    /\ cb' = "idle" /\ cbCall' = 0
    /\ UNCHANGED <<caller, semLive, current, retWord, ack, good, strayed>>
-----------------------------------------------------------------------------
CallerStep == \/ Open \/ SemInit \/ ClearReturn \/ SetCurrent \/ TryWait \/ Send
              \/ Wait \/ TimeOut \/ Copy1 \/ Copy2 \/ SemDestroy \/ Close
CallbackStep == CallbackWrite1 \/ CallbackWrite2 \/ CallbackPost

Next == \/ \E c \in Cmds : Call(c)
        \/ CallerStep
        \/ \E m \in Calls : AckLost(m) \/ Callback(m)
        \/ CallbackStep

Spec == Init /\ [][Next]_vars

\* The caller keeps running and its time-out fires; the RTOS owes nothing.
FairSpec == Spec /\ WF_vars(CallerStep) /\ WF_vars(CallbackStep)
-----------------------------------------------------------------------------
TypeOK ==
    /\ pc \in {"idle", "open", "seminit", "clear", "setcmd", "trywait", "send", "wait",
               "copy1", "copy2", "destroy", "close"}
    /\ call \in 0..MaxCalls
    /\ cmdOf \in [Calls -> Cmds \cup {NoCmd}]
    /\ chan \in {"open", "closed"}
    /\ sem \in Nat /\ semLive \in BOOLEAN
    /\ current \in Cmds \cup {NoCmd}
    /\ retWord \in (0..MaxCalls) \X (0..MaxCalls)
    /\ result \in [Calls -> (0..MaxCalls) \X (0..MaxCalls)]
    /\ ret \in [Calls -> {"none", "ok", "fail"}]
    /\ ack \in [Calls -> {"none", "pending", "seen", "lost"}]
    /\ good \in [Calls -> BOOLEAN]
    /\ cb \in {"idle", "write1", "write2", "post"} /\ cbCall \in 0..MaxCalls
    /\ strayed \subseteq Calls

\* A late acknowledgement harms only the call it falls into.  Any other call
\* that returns 0, however many have timed out before it, has the words of its
\* own acknowledgement, whole, or the cleared ones if that was bad.
RightAnswer ==
    \A m \in Calls \ strayed : ret[m] = "ok" =>
        result[m] = IF good[m] THEN <<m, m>> ELSE <<0, 0>>

\* Such a call is woken by its own acknowledgement and by nothing else: the
\* callback is done with it and no token is left over for a later wait, although
\* late acknowledgements of earlier calls may have posted before.  And what the
\* callback posts for it, as long as it has not timed out, reaches its own
\* semaphore, while it waits.
WokenByOwnAck ==
    /\ pc \in {"copy1", "copy2"} /\ call \notin strayed =>
           ack[call] = "seen" /\ cb = "idle" /\ sem = 0
    /\ cb # "idle" /\ cbCall \notin strayed /\ ret[cbCall] # "fail" =>
           cbCall = call /\ pc = "wait" /\ semLive

\* A call ends, answered or not.
CallReturns == pc # "idle" ~> pc = "idle"
=============================================================================
