---------------------------- MODULE CameraProofs ----------------------------
(***************************************************************************)
(* Proofs about the two parts of the program that face the camera and keep *)
(* what it answers: camera_if_command (CameraCommand), time-outs and late  *)
(* acknowledgements included, and JpegCapture (PhotoCapture) with the      *)
(* processes that read its files.  For every number of calls, photos,      *)
(* names and parts.                                                        *)
(***************************************************************************)
EXTENDS CameraCommand, PhotoCapture, TLAPS

(* camera_if_command.                                                      *)

\* Calls are made one after the other, and nothing is known of a call before
\* its turn.
OrderInv ==
    /\ pc # "idle" => call \in Calls
    /\ chan = "open" => pc \notin {"idle", "open"}
    /\ \A m \in Calls : m > call => ret[m] = "none" /\ ack[m] = "none"
    /\ pc \notin {"idle", "destroy", "close"} => ret[call] = "none"
    /\ pc \in {"open", "seminit", "clear", "setcmd", "trywait", "send"} => ack[call] = "none"

\* The words that call m has to return.
Answer(m) == IF good[m] THEN <<m, m>> ELSE <<0, 0>>

\* The result words between the caller's clearing them and its copying them.
Words == IF ack[call] # "seen" \/ cb = "write1" THEN <<0, 0>>
         ELSE IF cb = "write2" THEN <<call, 0>> ELSE Answer(call)

\* Where the acknowledgement of call m may be outside of its way to the caller:
\* only if m has given up, or was answered by another call's.
Astray(m) == ret[m] = "fail" \/ m \in strayed

\* An acknowledgement is under way while its call waits for it, or it is astray.
\* A call that no other one's has met has the token to itself: only its own
\* acknowledgement posts one.
TokenInv ==
    /\ \A m \in Calls : ack[m] = "pending" => (pc = "wait" /\ m = call) \/ Astray(m)
    /\ cb # "idle" => /\ cbCall \in Calls /\ ack[cbCall] = "seen"
                      /\ (pc = "wait" /\ cbCall = call) \/ Astray(cbCall)
    /\ pc \in {"clear", "setcmd", "trywait", "send", "wait", "copy1", "copy2"} => semLive
    /\ pc # "idle" /\ call \notin strayed =>
         /\ cb # "idle" => cbCall = call
         /\ pc \in {"clear", "setcmd", "trywait"} => sem = 1
         /\ pc \in {"send", "copy1", "copy2"} => sem = 0
         /\ pc = "wait" => sem = IF ack[call] = "seen" /\ cb = "idle" THEN 1 ELSE 0
         /\ pc \in {"copy1", "copy2"} => ack[call] = "seen"

\* The command to match and the words are those of the call, at each step.
AnswerInv ==
    /\ pc \in {"trywait", "send", "wait"} => current = cmdOf[call]
    /\ pc # "idle" /\ call \notin strayed =>
         /\ pc \in {"setcmd", "trywait", "send", "wait", "copy1", "copy2"} => retWord = Words
         /\ pc = "wait" /\ cb \in {"write1", "write2"} => good[call]
         /\ pc = "copy2" => result[call][1] = retWord[1]
    /\ \A m \in Calls \ strayed : ret[m] = "ok" => result[m] = Answer(m)

CallInv == OrderInv /\ TokenInv /\ AnswerInv

\* What writing one half of a pair makes of it.
LEMMA Halves == \A S : \A w \in S \X S, x \in S :
                   /\ [w EXCEPT ![1] = x] = <<x, w[2]>>
                   /\ [w EXCEPT ![2] = x] = <<w[1], x>>
<1> SUFFICES ASSUME NEW S, NEW w \in S \X S, NEW x \in S
             PROVE  /\ [w EXCEPT ![1] = x] = <<x, w[2]>>
                    /\ [w EXCEPT ![2] = x] = <<w[1], x>>
  OBVIOUS
<1>1. PICK a \in S, b \in S : w = <<a, b>>
  OBVIOUS
<1> QED BY <1>1

\* Every step keeps the types; a call in progress indexes the tables.
LEMMA CallTypes == TypeOK /\ OrderInv /\ [Next]_vars => TypeOK'
<1> SUFFICES ASSUME TypeOK, OrderInv, [Next]_vars PROVE TypeOK'
  OBVIOUS
<1> USE CallsAssumption DEF TypeOK, Calls, caller, shared, cbVars
<1>1. ASSUME NEW c \in Cmds, Call(c) PROVE TypeOK'
  BY <1>1 DEF Call
<1>2. CASE Open
  BY <1>2 DEF Open
<1>3. CASE SemInit
  BY <1>3 DEF SemInit, SemInitial
<1>4. CASE ClearReturn
  BY <1>4 DEF ClearReturn, Cleared
<1>5. CASE SetCurrent
  BY <1>5 DEF SetCurrent, OrderInv
<1>6. CASE TryWait
  BY <1>6 DEF TryWait, TakeToken
<1>7. CASE Send
  BY <1>7 DEF Send
<1>8. CASE Wait
  BY <1>8 DEF Wait, Posted
<1>9. CASE TimeOut
  BY <1>9 DEF TimeOut
<1>10. CASE Copy1
  <2>1. call \in Calls /\ result[call] \in (0..MaxCalls) \X (0..MaxCalls)
    BY <1>10 DEF Copy1, OrderInv
  <2>2. [result[call] EXCEPT ![1] = retWord[1]] \in (0..MaxCalls) \X (0..MaxCalls)
    BY <2>1, Halves
  <2> QED BY <1>10, <2>1, <2>2 DEF Copy1
<1>11. CASE Copy2
  <2>1. call \in Calls /\ result[call] \in (0..MaxCalls) \X (0..MaxCalls)
    BY <1>11 DEF Copy2, OrderInv
  <2>2. [result[call] EXCEPT ![2] = retWord[2]] \in (0..MaxCalls) \X (0..MaxCalls)
    BY <2>1, Halves
  <2> QED BY <1>11, <2>1, <2>2 DEF Copy2
<1>12. CASE SemDestroy
  BY <1>12 DEF SemDestroy
<1>13. CASE Close
  BY <1>13 DEF Close
<1>14. ASSUME NEW m \in Calls, AckLost(m) PROVE TypeOK'
  BY <1>14 DEF AckLost
<1>15. ASSUME NEW m \in Calls, Callback(m) PROVE TypeOK'
  BY <1>15, SMTT(30) DEF Callback, OrderInv
<1>16. CASE CallbackWrite1
  BY <1>16, Halves, SMTT(30) DEF CallbackWrite1
<1>17. CASE CallbackWrite2
  BY <1>17, Halves DEF CallbackWrite2
<1>18. CASE CallbackPost
  BY <1>18 DEF CallbackPost
<1>19. CASE UNCHANGED vars
  BY <1>19 DEF vars
<1> QED
  BY <1>1, <1>2, <1>3, <1>4, <1>5, <1>6, <1>7, <1>8, <1>9, <1>10, <1>11, <1>12, <1>13,
     <1>14, <1>15, <1>16, <1>17, <1>18, <1>19 DEF Next, CallerStep, CallbackStep

\* Every step keeps the order of the calls, time-outs or not.
LEMMA OrderNext == TypeOK /\ OrderInv /\ [Next]_vars => OrderInv'
<1> SUFFICES ASSUME TypeOK, OrderInv, [Next]_vars PROVE OrderInv'
  OBVIOUS
<1> USE CallsAssumption DEF TypeOK, OrderInv, Calls, caller, shared, cbVars
<1>1. ASSUME NEW c \in Cmds, Call(c) PROVE OrderInv'
  BY <1>1 DEF Call
<1>2. CASE Open
  <2>1. call \in Calls /\ ret[call] = "none"
    BY <1>2 DEF Open
  <2>2. \A m \in Calls : m # call => ret'[m] = ret[m]
    BY <1>2, <2>1 DEF Open
  <2> QED BY <1>2, <2>1, <2>2 DEF Open
<1>3. CASE SemInit \/ ClearReturn \/ SetCurrent \/ TryWait \/ Wait \/ SemDestroy
  BY <1>3 DEF SemInit, ClearReturn, SetCurrent, TryWait, Wait, SemDestroy
<1>4. CASE Send
  <2>1. call \in Calls /\ ret[call] = "none"
    BY <1>4 DEF Send
  <2>2. \A m \in Calls : m # call => ret'[m] = ret[m] /\ ack'[m] = ack[m]
    BY <1>4, <2>1 DEF Send
  <2>3. call' = call /\ pc' \in {"wait", "destroy"} /\ (pc' = "wait" => ret' = ret)
    BY <1>4 DEF Send
  <2> QED BY <2>1, <2>2, <2>3
<1>5. CASE TimeOut
  BY <1>5 DEF TimeOut
<1>6. CASE Copy1
  BY <1>6 DEF Copy1
<1>7. CASE Copy2
  BY <1>7 DEF Copy2
<1>8. CASE Close
  BY <1>8 DEF Close
<1>9. ASSUME NEW m \in Calls, AckLost(m) PROVE OrderInv'
  BY <1>9 DEF AckLost
<1>10. ASSUME NEW m \in Calls, Callback(m) PROVE OrderInv'
  BY <1>10 DEF Callback
<1>11. CASE CallbackStep
  BY <1>11 DEF CallbackStep, CallbackWrite1, CallbackWrite2, CallbackPost
<1>12. CASE UNCHANGED vars
  BY <1>12 DEF vars
<1> QED
  BY <1>1, <1>2, <1>3, <1>4, <1>5, <1>6, <1>7, <1>8, <1>9, <1>10, <1>11, <1>12
  DEF Next, CallerStep

\* Every step leaves the token with the call that waits: sem_init drops what late
\* acknowledgements have posted and sem_trywait takes what it has put there, the
\* only acknowledgement that is not astray is the caller's own, and the callback
\* posts once for it.
LEMMA TokenNext == TypeOK /\ OrderInv /\ TokenInv /\ [Next]_vars => TokenInv'
<1> SUFFICES ASSUME TypeOK, OrderInv, TokenInv, [Next]_vars PROVE TokenInv'
  OBVIOUS
<1> USE CallsAssumption DEF TypeOK, OrderInv, TokenInv, Astray, Calls, caller, shared, cbVars
<1>1. ASSUME NEW c \in Cmds, Call(c) PROVE TokenInv'
  BY <1>1 DEF Call
<1>2. CASE Open
  BY <1>2 DEF Open
<1>3. CASE SemInit
  BY <1>3 DEF SemInit, SemInitial
<1>4. CASE ClearReturn
  BY <1>4 DEF ClearReturn, Cleared
<1>5. CASE SetCurrent
  BY <1>5 DEF SetCurrent
<1>6. CASE TryWait
  BY <1>6 DEF TryWait, TakeToken
<1>7. CASE Send
  BY <1>7 DEF Send
<1>8. CASE Wait
  BY <1>8 DEF Wait, Posted
<1>9. CASE TimeOut
  BY <1>9 DEF TimeOut, TimedOut
<1>10. CASE Copy1
  BY <1>10 DEF Copy1
<1>11. CASE Copy2
  BY <1>11 DEF Copy2
<1>12. CASE SemDestroy
  BY <1>12 DEF SemDestroy
<1>13. CASE Close
  BY <1>13 DEF Close
<1>14. ASSUME NEW m \in Calls, AckLost(m) PROVE TokenInv'
  BY <1>14 DEF AckLost
<1>15. ASSUME NEW m \in Calls, Callback(m) PROVE TokenInv'
  BY <1>15 DEF Callback
<1>16. CASE CallbackWrite1
  BY <1>16 DEF CallbackWrite1
<1>17. CASE CallbackWrite2
  BY <1>17 DEF CallbackWrite2
<1>18. CASE CallbackPost
  BY <1>18 DEF CallbackPost
<1>19. CASE UNCHANGED vars
  BY <1>19 DEF vars
<1> QED
  BY <1>1, <1>2, <1>3, <1>4, <1>5, <1>6, <1>7, <1>8, <1>9, <1>10, <1>11, <1>12, <1>13,
     <1>14, <1>15, <1>16, <1>17, <1>18, <1>19 DEF Next, CallerStep, CallbackStep

\* Nor does it touch the return value, except the callback for the call that
\* waits: the caller copies what that callback has finished writing.
LEMMA AnswerNext ==
    TypeOK /\ OrderInv /\ TokenInv /\ AnswerInv /\ [Next]_vars => AnswerInv'
<1> SUFFICES ASSUME TypeOK, OrderInv, TokenInv, AnswerInv, [Next]_vars PROVE AnswerInv'
  OBVIOUS
<1> USE CallsAssumption DEF TypeOK, OrderInv, TokenInv, AnswerInv, Answer, Words, Astray, Calls,
                            caller, shared, cbVars
<1>1. ASSUME NEW c \in Cmds, Call(c) PROVE AnswerInv'
  BY <1>1 DEF Call
<1>2. CASE Open
  BY <1>2 DEF Open
<1>3. CASE SemInit
  BY <1>3 DEF SemInit, SemInitial
<1>4. CASE ClearReturn
  BY <1>4 DEF ClearReturn, Cleared
<1>5. CASE SetCurrent
  BY <1>5 DEF SetCurrent
<1>6. CASE TryWait
  BY <1>6 DEF TryWait, TakeToken
<1>7. CASE Send
  <2>1. call \in Calls /\ ack'[call'] # "seen" /\ call' = call
    BY <1>7 DEF Send
  <2>2. \A m \in Calls : ret'[m] = "ok" => ret[m] = "ok"
    BY <1>7, <2>1 DEF Send
  <2>3. call \notin strayed => cb = "idle" /\ retWord = <<0, 0>>
    BY <1>7 DEF Send
  <2> QED BY <1>7, <2>1, <2>2, <2>3 DEF Send
<1>8. CASE Wait
  BY <1>8 DEF Wait, Posted
<1>9. CASE TimeOut
  BY <1>9 DEF TimeOut, TimedOut
<1>10. CASE Copy1
  <2>1. call \in Calls /\ result[call] \in (0..MaxCalls) \X (0..MaxCalls)
    BY <1>10 DEF Copy1
  <2>2. result'[call] = <<retWord[1], result[call][2]>>
    BY <1>10, <2>1, Halves DEF Copy1
  <2>3. \A m \in Calls : m # call => result'[m] = result[m]
    BY <1>10, <2>1 DEF Copy1
  <2>4. \A m \in Calls : ret[m] = "ok" => m # call
    BY <1>10 DEF Copy1
  <2>5. \A m \in Calls \ strayed' : ret'[m] = "ok" => result'[m] = Answer(m)'
    BY <1>10, <2>3, <2>4 DEF Copy1
  <2>6. result'[call'][1] = retWord'[1]
    BY <1>10, <2>2 DEF Copy1
  <2>7. call' \notin strayed' => retWord' = Words'
    BY <1>10 DEF Copy1
  <2> QED BY <1>10, <2>5, <2>6, <2>7 DEF Copy1
<1>11. CASE Copy2
  <2>1. call \in Calls /\ result[call] \in (0..MaxCalls) \X (0..MaxCalls)
    BY <1>11 DEF Copy2
  <2>2. result'[call] = <<result[call][1], retWord[2]>>
    BY <1>11, <2>1, Halves, SMTT(30) DEF Copy2
  <2>3. call \notin strayed =>
          <<result[call][1], retWord[2]>> = retWord /\ retWord = Answer(call)
    BY <1>11, <2>1 DEF Copy2
  <2>4. \A m \in Calls : m # call => result'[m] = result[m] /\ ret'[m] = ret[m]
    BY <1>11, <2>1 DEF Copy2
  <2>5. \A m \in Calls \ strayed' : ret'[m] = "ok" => result'[m] = Answer(m)'
    <3>1. strayed' = strayed /\ good' = good /\ (\A m \in Calls : Answer(m)' = Answer(m))
      BY <1>11 DEF Copy2
    <3>2. ASSUME call \notin strayed PROVE result'[call] = Answer(call)
      <4>1. <<result[call][1], retWord[2]>> = Answer(call)
        BY <2>3, <3>2
      <4> QED BY <2>2, <4>1, Zenon
    <3>3. \A m \in Calls \ strayed : m # call /\ ret[m] = "ok" => result[m] = Answer(m)
      OBVIOUS
    <3> SUFFICES ASSUME NEW m \in Calls \ strayed, ret'[m] = "ok" PROVE result'[m] = Answer(m)
      BY <3>1, Zenon
    <3>4. CASE m = call
      BY <3>2, <3>4, Zenon
    <3>5. CASE m # call
      BY <2>4, <3>3, <3>5, Zenon
    <3> QED BY <3>4, <3>5
  <2> QED BY <1>11, <2>5 DEF Copy2
<1>12. CASE SemDestroy
  BY <1>12 DEF SemDestroy
<1>13. CASE Close
  BY <1>13 DEF Close
<1>14. ASSUME NEW m \in Calls, AckLost(m) PROVE AnswerInv'
  BY <1>14 DEF AckLost
<1>15. ASSUME NEW m \in Calls, Callback(m) PROVE AnswerInv'
  BY <1>15 DEF Callback
<1>16. CASE CallbackWrite1
  <2>1. call \notin strayed /\ pc \notin {"idle", "open", "seminit", "clear", "destroy", "close"} =>
            pc = "wait" /\ cbCall = call /\ ack[call] = "seen" /\ retWord = <<0, 0>>
    BY <1>16 DEF CallbackWrite1
  <2>2. retWord' = <<cbCall, retWord[2]>>
    BY <1>16, Halves DEF CallbackWrite1
  <2>3. UNCHANGED <<pc, call, cmdOf, ret, result, ack, good, current, strayed, cbCall>> /\ cb' = "write2"
    BY <1>16 DEF CallbackWrite1
  <2>4. pc # "idle" /\ call \notin strayed =>
         /\ pc \in {"setcmd", "trywait", "send", "wait", "copy1", "copy2"} => retWord' = Words'
         /\ pc = "wait" => good[call]
         /\ pc # "copy2"
    BY <1>16, <2>1, <2>2, <2>3 DEF CallbackWrite1
  <2>5. \A m \in Calls : Answer(m)' = Answer(m)
    BY <2>3
  <2> QED BY <2>3, <2>4, <2>5, Zenon
<1>17. CASE CallbackWrite2
  <2>1. call \notin strayed /\ pc \notin {"idle", "open", "seminit", "clear", "destroy", "close"} =>
            pc = "wait" /\ cbCall = call /\ good[call] /\ ack[call] = "seen" /\ retWord = <<call, 0>>
    BY <1>17 DEF CallbackWrite2
  <2>2. retWord' = <<retWord[1], cbCall>>
    BY <1>17, Halves DEF CallbackWrite2
  <2>3. UNCHANGED <<pc, call, cmdOf, ret, result, ack, good, current, strayed, cbCall>> /\ cb' = "post"
    BY <1>17 DEF CallbackWrite2
  <2>4. pc # "idle" /\ call \notin strayed =>
         /\ pc \in {"setcmd", "trywait", "send", "wait", "copy1", "copy2"} => retWord' = Words'
         /\ pc = "wait" => good[call]
         /\ pc # "copy2"
    <3> SUFFICES ASSUME pc # "idle", call \notin strayed,
                        pc \in {"setcmd", "trywait", "send", "wait", "copy1", "copy2"}
                 PROVE  retWord' = Words' /\ good[call] /\ pc = "wait"
      OBVIOUS
    <3>1. pc = "wait" /\ cbCall = call /\ good[call] /\ ack[call] = "seen" /\ retWord = <<call, 0>>
      BY <2>1
    <3>2. retWord' = <<call, call>>
      BY <2>2, <3>1
    <3>3. Words' = Answer(call)
      BY <2>3, <3>1
    <3>4. Answer(call) = <<call, call>>
      BY <3>1, Zenon
    <3> QED BY <3>1, <3>2, <3>3, <3>4, Zenon
  <2>5. \A m \in Calls : Answer(m)' = Answer(m)
    BY <2>3
  <2> QED BY <2>3, <2>4, <2>5, Zenon
<1>18. CASE CallbackPost
  BY <1>18 DEF CallbackPost
<1>19. CASE UNCHANGED vars
  BY <1>19 DEF vars
<1> QED
  BY <1>1, <1>2, <1>3, <1>4, <1>5, <1>6, <1>7, <1>8, <1>9, <1>10, <1>11, <1>12, <1>13,
     <1>14, <1>15, <1>16, <1>17, <1>18, <1>19 DEF Next, CallerStep, CallbackStep

\* The inductive invariant of camera_if_command holds.
THEOREM CallsInOrder == Spec => [](TypeOK /\ CallInv)
<1>1. Init => TypeOK /\ CallInv
  <2> USE CallsAssumption DEF Init, Calls
  <2>1. Init => TypeOK
    <3>1. 0 \in 0..MaxCalls /\ <<0, 0>> \in (0..MaxCalls) \X (0..MaxCalls)
      OBVIOUS
    <3>2. Init => good \in [Calls -> BOOLEAN] /\ ret \in [Calls -> {"none", "ok", "fail"}]
      BY Zenon
    <3>3. Init => result \in [Calls -> (0..MaxCalls) \X (0..MaxCalls)]
      BY <3>1, Zenon
    <3>4. Init => ack \in [Calls -> {"none", "pending", "seen", "lost"}]
      BY Zenon
    <3>5. Init => cmdOf \in [Calls -> Cmds \cup {NoCmd}]
      BY Zenon
    <3>6. Init => /\ pc \in {"idle", "open", "seminit", "clear", "setcmd", "trywait",
                            "send", "wait", "copy1", "copy2", "destroy", "close"}
                  /\ call \in 0..MaxCalls /\ sem \in Nat /\ retWord \in (0..MaxCalls) \X (0..MaxCalls)
      BY <3>1
    <3> QED BY <3>1, <3>2, <3>3, <3>4, <3>5, <3>6 DEF TypeOK
  <2>2. Init => OrderInv /\ TokenInv
    BY DEF OrderInv, TokenInv
  <2>3. Init => AnswerInv
    BY DEF AnswerInv
  <2> QED BY <2>1, <2>2, <2>3 DEF CallInv
<1>2. TypeOK /\ CallInv /\ [Next]_vars => (TypeOK /\ CallInv)'
  BY CallTypes, OrderNext, TokenNext, AnswerNext DEF CallInv
<1> QED BY <1>1, <1>2, PTL DEF Spec

\* TypeOK: the variables keep their types for every number of calls.
THEOREM CallTypeCorrect == Spec => []TypeOK
  BY CallsInOrder, PTL

\* RightAnswer: a call that no late acknowledgement has met and that returns 0 has
\* the words of its own acknowledgement, or the cleared ones if that was bad.
THEOREM AnswersAreRight == Spec => []RightAnswer
<1>1. CallInv => RightAnswer
  BY DEF CallInv, AnswerInv, Answer, RightAnswer
<1> QED BY <1>1, CallsInOrder, PTL

\* WokenByOwnAck: sem_timedwait of such a call returns for its own acknowledgement,
\* whose sem_post is in the life of its semaphore.
THEOREM WakeUpsAreOwn == Spec => []WokenByOwnAck
<1>1. TypeOK /\ CallInv => WokenByOwnAck
  BY DEF TypeOK, CallInv, OrderInv, TokenInv, Astray, WokenByOwnAck
<1> QED BY <1>1, CallsInOrder, PTL
-----------------------------------------------------------------------------
(* JpegCapture.                                                            *)

\* The name of photo p, if it is one of the last TempFiles.
NameOf(p) == IF num > photos - p THEN num - (photos - p) ELSE num - (photos - p) + TempFiles

\* The callback is through with photo p.
Finished(p) == p < photos \/ jpg = "idle"

\* The counter has been used once per photo: the lock is never found held.
NumInv ==
    /\ photos = 0 => num = 0 /\ jpg = "idle"
    /\ photos > 0 => num \in 1..TempFiles
    /\ \A p \in Photos : p > photos \/ ~Finished(p) => told[p] = None

\* A descriptor stays in use for each picture that was not a photo.
FdInv ==
    /\ jpg \in {"write", "close"} => fds > 0
    /\ leaks < MaxFd => fds = leaks + (IF jpg \in {"write", "close"} THEN 1 ELSE 0)

\* The photo at hand goes to a file of its own, part by part.
WriteInv ==
    /\ jpg \notin {"write", "close"} => ino = None /\ part = 1
    /\ jpg \in {"exif", "open"} => ~failed
    /\ jpg = "open" => dir[num] = None
    /\ jpg \in {"write", "close"} => ino = photos /\ dir[num] = photos
    /\ jpg = "close" => part = Parts + 1
    /\ part > 1 => failed
    /\ jpg \in {"write", "close"} /\ photos \notin faulty =>
          \A i \in 1..Parts : i < part => content[photos][i] = photos
    /\ jpg = "result" /\ photos \notin faulty =>
          /\ failed => dir[num] = photos /\ content[photos] = Whole(photos)
          /\ leaks < MaxFd => failed

\* A file has parts of the photo it was made for and of no other.
OwnParts == \A f \in Photos : \A i \in 1..Parts : content[f][i] \in {None, f}

\* What the announcement of a photo that met no fault promises.
KeptInv ==
    \A p \in 1..photos : Finished(p) /\ p \notin faulty =>
        /\ leaks < MaxFd => told[p] # None
        /\ told[p] # None => content[p] = Whole(p)
        /\ told[p] # None /\ photos - p < TempFiles => told[p] = NameOf(p) /\ dir[told[p]] = p

\* A reader has parts of the file it opened, and of nothing else.
ReadInv ==
    /\ rd = None => got = <<>> /\ ~prompt
    /\ rd # None => rdIno # None
    /\ \A i \in 1..Len(got) : got[i] \in {None, rdIno}
    /\ prompt /\ rd \notin faulty =>
          rdIno = rd /\ content[rd] = Whole(rd) /\ \A i \in 1..Len(got) : got[i] = rd

\* The inductive invariant of JpegCapture and its readers.
PhotoInv == NumInv /\ FdInv /\ WriteInv /\ OwnParts /\ KeptInv /\ ReadInv

\* Every step keeps the types: the counter, the part that is next and the
\* descriptors stay in their ranges.
LEMMA PhotoTypes ==
    PhotoTypeOK /\ NumInv /\ FdInv /\ WriteInv /\ ReadInv /\ [PhotoNext]_photoVars => PhotoTypeOK'
<1> SUFFICES ASSUME PhotoTypeOK, NumInv, FdInv, WriteInv, ReadInv, [PhotoNext]_photoVars
             PROVE  PhotoTypeOK'
  OBVIOUS
<1> USE SizeAssumption, PhotoBoundAssumption DEF PhotoTypeOK, Photos, Names, None, writer, client,
        NumInv, FdInv, WriteInv
<1>1. CASE ReceivePhoto
  <2>1. ~lock /\ lock' = TRUE /\ jpg' = "exif" /\ num' = NextNum /\ failed' = FALSE
    BY <1>1, Zenon DEF ReceivePhoto
  <2>2. NextNum \in 0..TempFiles
    BY DEF NextNum
  <2>3. photos' \in 0..MaxPhotos
    BY <1>1 DEF ReceivePhoto
  <2> QED BY <1>1, <2>1, <2>2, <2>3 DEF ReceivePhoto
<1>2. CASE NoExif
  BY <1>2 DEF NoExif
<1>3. CASE Remove
  BY <1>3 DEF Remove, Removed
<1>4. CASE OpenFile
  BY <1>4 DEF OpenFile
<1>5. CASE OpenFails
  <2>1. photos \in Photos
    BY <1>5 DEF OpenFails
  <2>2. faulty' = faulty \/ faulty' = faulty \cup {photos}
    BY <1>5 DEF OpenFails
  <2>3. faulty' \subseteq Photos
    BY <2>1, <2>2
  <2> QED BY <1>5, <2>3 DEF OpenFails
<1>6. CASE Write
  <2>1. content' = [content EXCEPT ![ino] = [content[ino] EXCEPT ![part] = photos]]
    BY <1>6, Zenon DEF Write
  <2>2. photos \in Photos
    BY <1>6 DEF Write
  <2>3. content' \in [Photos -> [1..Parts -> Photos \cup {None}]]
    BY <2>1, <2>2
  <2>4. part \in 1..Parts /\ part' \in 1..(Parts + 1)
    BY <1>6 DEF Write, AfterWrite
  <2>5. jpg' = IF part = Parts THEN "close" ELSE "write"
    BY <1>6 DEF Write, AfterWrite
  <2>6. (jpg' = "write" <=> ino' # None /\ part' <= Parts) /\ (jpg' # "idle" <=> lock')
    BY <1>6, <2>4, <2>5 DEF Write, AfterWrite
  <2> QED BY <1>6, <2>3, <2>4, <2>5, <2>6 DEF Write, AfterWrite
<1>7. CASE WriteFails
  BY <1>7 DEF WriteFails, AfterWrite
<1>8. CASE CloseFile
  BY <1>8 DEF CloseFile, AfterClose
<1>9. CASE Result
  <2>1. told' \in [Photos -> Names \cup {None}] /\ failed' = FALSE /\ lock' = FALSE
    BY <1>9 DEF Result, AfterResult
  <2> QED BY <1>9, <2>1 DEF Result
<1>10. CASE LeaveOpen
  <2>1. fds' \in 0..MaxFd /\ leaks' \in 0..MaxLeaks
    BY <1>10 DEF LeaveOpen
  <2> QED BY <1>10, <2>1 DEF LeaveOpen
<1>11. CASE OpenForReading
  <2>1. rd' \in Photos /\ rdIno' \in Photos
    BY <1>11 DEF OpenForReading
  <2>2. prompt' \in BOOLEAN
    BY <1>11 DEF OpenForReading
  <2> QED BY <1>11, <2>1, <2>2 DEF OpenForReading
<1>12. CASE ReadPart
  <2>1. rdIno \in Photos /\ Len(got) + 1 \in 1..Parts
    BY <1>12 DEF ReadPart, ReadInv
  <2>2. content[rdIno] \in [1..Parts -> Photos \cup {None}]
    BY <2>1
  <2>3. content[rdIno][Len(got) + 1] \in Photos \cup {None}
    BY <2>1, <2>2
  <2>4. got' \in Seq(Photos \cup {None}) /\ Len(got') <= Parts
    BY <1>12, <2>3 DEF ReadPart
  <2> QED BY <1>12, <2>4 DEF ReadPart
<1>13. CASE EndReading
  <2>1. got' \in Seq(Photos \cup {None}) /\ Len(got') <= Parts
    BY <1>13 DEF EndReading
  <2> QED BY <1>13, <2>1 DEF EndReading
<1>14. CASE UNCHANGED photoVars
  BY <1>14 DEF photoVars
<1> QED
  BY <1>1, <1>2, <1>3, <1>4, <1>5, <1>6, <1>7,
     <1>8, <1>9, <1>10, <1>11, <1>12, <1>13, <1>14 DEF PhotoNext, Capture, SaveRaw, StartRecord

\* The counter follows the photos, because every photo finds the mutex free.
LEMMA NumNext ==
    PhotoTypeOK /\ NumInv /\ [PhotoNext]_photoVars => NumInv'
<1> SUFFICES ASSUME PhotoTypeOK, NumInv, [PhotoNext]_photoVars PROVE NumInv'
  OBVIOUS
<1> USE SizeAssumption, PhotoBoundAssumption DEF PhotoTypeOK, Photos, Names, None, writer, client,
        NumInv, Finished
<1>1. CASE ReceivePhoto
  BY <1>1 DEF ReceivePhoto, NextNum
<1>2. CASE NoExif
  BY <1>2 DEF NoExif
<1>3. CASE Remove
  BY <1>3 DEF Remove, Removed
<1>4. CASE OpenFile
  BY <1>4 DEF OpenFile
<1>5. CASE OpenFails
  BY <1>5 DEF OpenFails
<1>6. CASE Write
  BY <1>6 DEF Write, AfterWrite
<1>7. CASE WriteFails
  BY <1>7 DEF WriteFails, AfterWrite
<1>8. CASE CloseFile
  BY <1>8 DEF CloseFile, AfterClose
<1>9. CASE Result
  BY <1>9 DEF Result, AfterResult
<1>10. CASE LeaveOpen
  BY <1>10 DEF LeaveOpen
<1>11. CASE OpenForReading
  BY <1>11 DEF OpenForReading
<1>12. CASE ReadPart
  BY <1>12 DEF ReadPart
<1>13. CASE EndReading
  BY <1>13 DEF EndReading
<1>14. CASE UNCHANGED photoVars
  BY <1>14 DEF photoVars
<1> QED
  BY <1>1, <1>2, <1>3, <1>4, <1>5, <1>6, <1>7,
     <1>8, <1>9, <1>10, <1>11, <1>12, <1>13, <1>14 DEF PhotoNext, Capture, SaveRaw, StartRecord

\* The descriptor of a photo is given back, those of raw pictures and recordings are not.
LEMMA FdNext ==
    PhotoTypeOK /\ NumInv /\ FdInv /\ [PhotoNext]_photoVars => FdInv'
<1> SUFFICES ASSUME PhotoTypeOK, NumInv, FdInv, [PhotoNext]_photoVars PROVE FdInv'
  OBVIOUS
<1> USE SizeAssumption, PhotoBoundAssumption DEF PhotoTypeOK, Photos, Names, None, writer, client,
        FdInv
<1>1. CASE ReceivePhoto
  BY <1>1 DEF ReceivePhoto, NextNum
<1>2. CASE NoExif
  BY <1>2 DEF NoExif
<1>3. CASE Remove
  BY <1>3 DEF Remove, Removed
<1>4. CASE OpenFile
  BY <1>4 DEF OpenFile
<1>5. CASE OpenFails
  BY <1>5 DEF OpenFails
<1>6. CASE Write
  BY <1>6 DEF Write, AfterWrite
<1>7. CASE WriteFails
  BY <1>7 DEF WriteFails, AfterWrite
<1>8. CASE CloseFile
  BY <1>8 DEF CloseFile, AfterClose
<1>9. CASE Result
  BY <1>9 DEF Result, AfterResult
<1>10. CASE LeaveOpen
  BY <1>10 DEF LeaveOpen
<1>11. CASE OpenForReading
  BY <1>11 DEF OpenForReading
<1>12. CASE ReadPart
  BY <1>12 DEF ReadPart
<1>13. CASE EndReading
  BY <1>13 DEF EndReading
<1>14. CASE UNCHANGED photoVars
  BY <1>14 DEF photoVars
<1> QED
  BY <1>1, <1>2, <1>3, <1>4, <1>5, <1>6, <1>7,
     <1>8, <1>9, <1>10, <1>11, <1>12, <1>13, <1>14 DEF PhotoNext, Capture, SaveRaw, StartRecord

\* A photo's file is made anew, since remove() came first, and gets its parts in
\* order; only a fault leaves one out.
LEMMA WriteNext ==
    PhotoTypeOK /\ NumInv /\ FdInv /\ WriteInv /\ [PhotoNext]_photoVars => WriteInv'
<1> SUFFICES ASSUME PhotoTypeOK, NumInv, FdInv, WriteInv, [PhotoNext]_photoVars PROVE WriteInv'
  OBVIOUS
<1> USE SizeAssumption, PhotoBoundAssumption DEF PhotoTypeOK, Photos, Names, None, writer, client,
        NumInv, FdInv, WriteInv, Whole
<1>1. CASE ReceivePhoto
  BY <1>1 DEF ReceivePhoto, NextNum
<1>2. CASE NoExif
  BY <1>2 DEF NoExif
<1>3. CASE Remove
  BY <1>3 DEF Remove, Removed
<1>4. CASE OpenFile
  BY <1>4 DEF OpenFile
<1>5. CASE OpenFails
  BY <1>5 DEF OpenFails
<1>6. CASE Write
  <2>1. photos \in Photos /\ part \in 1..Parts /\ ino = photos
    BY <1>6 DEF Write
  <2>2. content[photos] \in [1..Parts -> Photos \cup {None}]
    BY <2>1
  <2>3. content' = [content EXCEPT ![photos] = [content[photos] EXCEPT ![part] = photos]]
    BY <1>6, <2>1 DEF Write
  <2>4. content'[photos] = [content[photos] EXCEPT ![part] = photos]
    BY <2>1, <2>3
  <2>5. /\ content'[photos][part] = photos
        /\ \A i \in 1..Parts : i # part => content'[photos][i] = content[photos][i]
    BY <2>1, <2>2, <2>4
  <2> QED BY <1>6, <2>1, <2>5 DEF Write, AfterWrite
<1>7. CASE WriteFails
  BY <1>7 DEF WriteFails, AfterWrite
<1>8. CASE CloseFile
  <2>1. photos \in Photos
    BY <1>8 DEF CloseFile
  <2>2. content[photos] \in [1..Parts -> Photos \cup {None}]
    BY <2>1
  <2>3. photos \notin faulty => \A i \in 1..Parts : content[photos][i] = photos
    BY <1>8 DEF CloseFile
  <2>4. photos \notin faulty => content[photos] = [i \in 1..Parts |-> photos]
    BY <2>2, <2>3
  <2> QED BY <1>8, <2>4 DEF CloseFile, AfterClose
<1>9. CASE Result
  BY <1>9 DEF Result, AfterResult
<1>10. CASE LeaveOpen
  BY <1>10 DEF LeaveOpen
<1>11. CASE OpenForReading
  BY <1>11 DEF OpenForReading
<1>12. CASE ReadPart
  BY <1>12 DEF ReadPart
<1>13. CASE EndReading
  BY <1>13 DEF EndReading
<1>14. CASE UNCHANGED photoVars
  BY <1>14 DEF photoVars
<1> QED
  BY <1>1, <1>2, <1>3, <1>4, <1>5, <1>6, <1>7,
     <1>8, <1>9, <1>10, <1>11, <1>12, <1>13, <1>14 DEF PhotoNext, Capture, SaveRaw, StartRecord

\* No write goes to another photo's file.
LEMMA OwnPartsNext ==
    PhotoTypeOK /\ WriteInv /\ OwnParts /\ [PhotoNext]_photoVars => OwnParts'
<1> SUFFICES ASSUME PhotoTypeOK, WriteInv, OwnParts, [PhotoNext]_photoVars PROVE OwnParts'
  OBVIOUS
<1> USE SizeAssumption, PhotoBoundAssumption DEF PhotoTypeOK, Photos, Names, None, writer, client,
        WriteInv, OwnParts
<1>1. CASE ReceivePhoto
  BY <1>1 DEF ReceivePhoto, NextNum
<1>2. CASE NoExif
  BY <1>2 DEF NoExif
<1>3. CASE Remove
  BY <1>3 DEF Remove, Removed
<1>4. CASE OpenFile
  BY <1>4 DEF OpenFile
<1>5. CASE OpenFails
  BY <1>5 DEF OpenFails
<1>6. CASE Write
  BY <1>6 DEF Write, AfterWrite
<1>7. CASE WriteFails
  BY <1>7 DEF WriteFails, AfterWrite
<1>8. CASE CloseFile
  BY <1>8 DEF CloseFile, AfterClose
<1>9. CASE Result
  BY <1>9 DEF Result, AfterResult
<1>10. CASE LeaveOpen
  BY <1>10 DEF LeaveOpen
<1>11. CASE OpenForReading
  BY <1>11 DEF OpenForReading
<1>12. CASE ReadPart
  BY <1>12 DEF ReadPart
<1>13. CASE EndReading
  BY <1>13 DEF EndReading
<1>14. CASE UNCHANGED photoVars
  BY <1>14 DEF photoVars
<1> QED
  BY <1>1, <1>2, <1>3, <1>4, <1>5, <1>6, <1>7,
     <1>8, <1>9, <1>10, <1>11, <1>12, <1>13, <1>14 DEF PhotoNext, Capture, SaveRaw, StartRecord

\* The names of the last TempFiles photos differ, so that neither remove() nor
\* the next photo's file takes away what was announced.
LEMMA KeptNext ==
    PhotoTypeOK /\ PhotoTypeOK' /\ NumInv /\ FdInv /\ WriteInv /\ KeptInv /\ [PhotoNext]_photoVars
    => KeptInv'
<1> DEFINE Holds(p) ==
      /\ leaks < MaxFd => told[p] # None
      /\ told[p] # None => content[p] = Whole(p)
      /\ told[p] # None /\ photos - p < TempFiles => told[p] = NameOf(p) /\ dir[told[p]] = p
<1> SUFFICES ASSUME PhotoTypeOK, PhotoTypeOK', NumInv, FdInv, WriteInv, KeptInv,
                    [PhotoNext]_photoVars, NEW p \in 1..photos', Finished(p)', p \notin faulty'
             PROVE  Holds(p)'
  BY DEF KeptInv, Whole
<1>0. p \in Photos /\ (p \in 1..photos /\ Finished(p) /\ p \notin faulty => Holds(p))
  <2>1. photos' \in 0..MaxPhotos
    BY DEF PhotoTypeOK
  <2>2. p \in Photos
    BY <2>1, PhotoBoundAssumption DEF Photos
  <2>3. p \in 1..photos /\ Finished(p) /\ p \notin faulty => Holds(p)
    BY DEF KeptInv
  <2> QED BY <2>2, <2>3
<1> USE SizeAssumption, PhotoBoundAssumption DEF PhotoTypeOK, Photos, Names, None, writer, client
<1>1. CASE ReceivePhoto
  <2>1. jpg' = "exif" /\ num' = NextNum /\ photos' = photos + 1
    BY <1>1, Zenon DEF ReceivePhoto
  <2>2. p \in 1..photos /\ Finished(p) /\ p \notin faulty
    BY <1>1, <2>1 DEF ReceivePhoto, Finished
  <2>3. photos' - p < TempFiles => NameOf(p)' = NameOf(p)
    <3>1. num \in 1..TempFiles /\ photos - p >= 0
      BY <2>2 DEF NumInv
    <3>2. CASE num = TempFiles
      BY <2>1, <2>2, <3>1, <3>2 DEF NameOf, NextNum
    <3>3. CASE num # TempFiles
      BY <2>1, <2>2, <3>1, <3>3 DEF NameOf, NextNum
    <3> QED BY <3>2, <3>3
  <2> QED BY <1>0, <1>1, <2>1, <2>2, <2>3 DEF ReceivePhoto, Whole
<1>2. CASE NoExif \/ OpenFails \/ CloseFile \/ WriteFails
  <2>1. p \in 1..photos /\ Finished(p) /\ p \notin faulty
    BY <1>2 DEF NoExif, OpenFails, CloseFile, WriteFails, AfterWrite, Finished
  <2> QED BY <1>0, <1>2, <2>1 DEF NoExif, OpenFails, CloseFile, WriteFails, AfterWrite,
                                 NameOf, Whole
<1>3. CASE Remove \/ OpenFile
  <2>1. p \in 1..photos /\ p < photos /\ Finished(p) /\ p \notin faulty
    BY <1>3 DEF Remove, OpenFile, Finished
  <2>2. told[p] = NameOf(p) /\ photos - p < TempFiles => told[p] # num
    <3>1. num \in 1..TempFiles
      BY <2>1 DEF NumInv
    <3> HIDE DEF PhotoTypeOK
    <3>2. photos \in Nat /\ p \in Nat /\ TempFiles \in Nat
      BY DEF PhotoTypeOK
    <3> QED BY <2>1, <3>1, <3>2 DEF NameOf
  <2>3. \A n \in Names : n # num => dir'[n] = dir[n]
    BY <1>3 DEF Remove, Removed, OpenFile
  <2>4. /\ NameOf(p)' = NameOf(p) /\ told' = told /\ content' = content
        /\ leaks' = leaks /\ photos' = photos
    BY <1>3 DEF Remove, OpenFile, NameOf
  <2>5. told[p] # None => told[p] \in Names
    BY <1>0
  <2> QED BY <1>0, <2>1, <2>2, <2>3, <2>4, <2>5 DEF Whole
<1>4. CASE Write
  <2>1. p \in 1..photos /\ p < photos /\ Finished(p) /\ p \notin faulty
    BY <1>4 DEF Write, AfterWrite, Finished
  <2>2. content'[p] = content[p]
    BY <1>4, <2>1 DEF Write, WriteInv
  <2> QED BY <1>0, <1>4, <2>1, <2>2 DEF Write, AfterWrite, NameOf, Whole
<1>5. CASE Result
  <2>1. CASE p < photos
    <3>1. p \in 1..photos /\ Finished(p) /\ p \notin faulty /\ told'[p] = told[p]
      BY <1>5, <2>1 DEF Result, Finished
    <3> QED BY <1>0, <1>5, <3>1 DEF Result, NameOf, Whole
  <2>2. CASE p = photos
    <3>1. told[p] = None /\ NameOf(p)' = num /\ num \in Names
      BY <1>5, <2>2 DEF Result, NumInv, Finished, NameOf
    <3>2. told'[p] = IF failed THEN num ELSE None
      BY <1>0, <1>5, <2>2, <3>1 DEF Result
    <3> QED BY <1>5, <2>2, <3>1, <3>2 DEF Result, WriteInv, Whole
  <2> QED BY <1>5, <2>1, <2>2 DEF Result
<1>6. CASE LeaveOpen
  BY <1>0, <1>6 DEF LeaveOpen, Finished, NameOf, Whole
<1>7. CASE OpenForReading \/ ReadPart \/ EndReading \/ UNCHANGED photoVars
  BY <1>0, <1>7 DEF OpenForReading, ReadPart, EndReading, photoVars, Finished, NameOf, Whole
<1> QED
  BY <1>1, <1>2, <1>3, <1>4, <1>5, <1>6, <1>7 DEF PhotoNext, Capture, SaveRaw, StartRecord

\* What a reader has opened stays as it is, however late it reads on.
LEMMA ReadNext ==
    PhotoTypeOK /\ NumInv /\ WriteInv /\ OwnParts /\ KeptInv /\ ReadInv /\ [PhotoNext]_photoVars
    => ReadInv'
<1> SUFFICES ASSUME PhotoTypeOK, NumInv, WriteInv, OwnParts, KeptInv, ReadInv, [PhotoNext]_photoVars
             PROVE  ReadInv'
  OBVIOUS
<1> USE SizeAssumption, PhotoBoundAssumption DEF PhotoTypeOK, Photos, Names, None, writer, client,
        NumInv, WriteInv, OwnParts, KeptInv, ReadInv, Whole, Finished, NameOf
<1>1. CASE ReceivePhoto
  BY <1>1 DEF ReceivePhoto, NextNum
<1>2. CASE NoExif
  BY <1>2 DEF NoExif
<1>3. CASE Remove
  BY <1>3 DEF Remove, Removed
<1>4. CASE OpenFile
  BY <1>4 DEF OpenFile
<1>5. CASE OpenFails
  BY <1>5 DEF OpenFails
<1>6. CASE Write
  BY <1>6 DEF Write, AfterWrite
<1>7. CASE WriteFails
  BY <1>7 DEF WriteFails, AfterWrite
<1>8. CASE CloseFile
  BY <1>8 DEF CloseFile, AfterClose
<1>9. CASE Result
  BY <1>9 DEF Result, AfterResult
<1>10. CASE LeaveOpen
  BY <1>10 DEF LeaveOpen
<1>11. CASE OpenForReading
  <2>1. PICK p \in Photos : /\ told[p] # None /\ dir[told[p]] # None
                            /\ rd' = p /\ rdIno' = dir[told[p]]
                            /\ prompt' = (photos - p < TempFiles)
    BY <1>11 DEF OpenForReading
  <2>2. p \in 1..photos /\ Finished(p)
    BY <2>1
  <2>3. got = <<>> /\ got' = got /\ content' = content /\ faulty' = faulty
    BY <1>11 DEF OpenForReading
  <2>4. prompt' /\ p \notin faulty => dir[told[p]] = p /\ content[p] = [i \in 1..Parts |-> p]
    BY <2>1, <2>2
  <2> QED BY <2>1, <2>3, <2>4
<1>12. CASE ReadPart
  <2>1. rdIno \in Photos /\ Len(got) + 1 \in 1..Parts
    BY <1>12 DEF ReadPart
  <2>2. content[rdIno][Len(got) + 1] \in {None, rdIno}
    BY <2>1
  <2>3. prompt /\ rd \notin faulty => content[rdIno][Len(got) + 1] = rd
    BY <2>1
  <2>4. \A i \in 1..Len(got') : \/ got'[i] = got[i] /\ i \in 1..Len(got)
                              \/ got'[i] = content[rdIno][Len(got) + 1]
    BY <1>12 DEF ReadPart
  <2> QED BY <1>12, <2>1, <2>2, <2>3, <2>4 DEF ReadPart
<1>13. CASE EndReading
  BY <1>13 DEF EndReading
<1>14. CASE UNCHANGED photoVars
  BY <1>14 DEF photoVars
<1> QED
  BY <1>1, <1>2, <1>3, <1>4, <1>5, <1>6, <1>7,
     <1>8, <1>9, <1>10, <1>11, <1>12, <1>13, <1>14 DEF PhotoNext, Capture, SaveRaw, StartRecord

\* The parts together are inductive.
LEMMA PhotoInductive ==
    PhotoTypeOK /\ PhotoInv /\ [PhotoNext]_photoVars => (PhotoTypeOK /\ PhotoInv)'
  BY PhotoTypes, NumNext, FdNext, WriteNext, OwnPartsNext, KeptNext, ReadNext DEF PhotoInv

\* The inductive invariant of JpegCapture holds.
THEOREM PhotosInOrder == PhotoSpec => [](PhotoTypeOK /\ PhotoInv)
<1>1. PhotoInit => PhotoTypeOK /\ PhotoInv
  <2> USE SizeAssumption, PhotoBoundAssumption DEF PhotoInit, Photos, Names, None
  <2>1. PhotoInit => PhotoTypeOK
    <3>1. PhotoInit => content \in [Photos -> [1..Parts -> Photos \cup {None}]]
      <4>1. Blank \in [1..Parts -> Photos \cup {None}]
        BY DEF Blank
      <4> QED BY <4>1
    <3>2. PhotoInit => dir \in [Names -> Photos \cup {None}] /\ told \in [Photos -> Names \cup {None}]
      BY Zenon
    <3>3. PhotoInit => got \in Seq(Photos \cup {None}) /\ Len(got) = 0
      OBVIOUS
    <3>4. PhotoInit => lock \in BOOLEAN /\ failed \in BOOLEAN /\ prompt \in BOOLEAN /\ ~lock
      BY Zenon
    <3>5. PhotoInit => /\ photos \in 0..MaxPhotos /\ num \in 0..TempFiles /\ leaks \in 0..MaxLeaks
                       /\ fds \in 0..MaxFd /\ part \in 1..(Parts + 1) /\ 0 <= Parts
      OBVIOUS
    <3>6. PhotoInit => faulty \subseteq Photos
      BY Zenon
    <3> QED BY <3>1, <3>2, <3>3, <3>4, <3>5, <3>6 DEF PhotoTypeOK
  <2>2. PhotoInit => NumInv /\ FdInv /\ WriteInv
    BY DEF NumInv, FdInv, WriteInv
  <2>3. PhotoInit => OwnParts
    BY DEF OwnParts, Blank
  <2>4. PhotoInit => KeptInv /\ ReadInv
    BY DEF KeptInv, ReadInv
  <2> QED BY <2>1, <2>2, <2>3, <2>4 DEF PhotoInv
<1> QED BY <1>1, PhotoInductive, PTL DEF PhotoSpec

\* PhotoTypeOK: types, and the mutex is held exactly while a photo is at hand.
THEOREM PhotoTypeCorrect == PhotoSpec => []PhotoTypeOK
  BY PhotosInOrder, PTL

\* ReaderSeesOnePhoto: another process never reads parts of two photos, and reads
\* the announced photo, whole, if it opened the file in time.
THEOREM ReadersSeeOnePhoto == PhotoSpec => []ReaderSeesOnePhoto
<1>1. PhotoTypeOK /\ PhotoInv => ReaderSeesOnePhoto
  BY DEF PhotoTypeOK, PhotoInv, ReadInv, ReaderSeesOnePhoto
<1> QED BY <1>1, PhotosInOrder, PTL

\* PhotoStays: a photo that met no fault is announced and stays under its name
\* until the name comes up again.
THEOREM PhotosStay == PhotoSpec => []PhotoStays
<1>1. PhotoTypeOK /\ PhotoInv => PhotoStays
  BY DEF PhotoTypeOK, PhotoInv, KeptInv, Finished, PhotoStays, Photos, None
<1> QED BY <1>1, PhotosInOrder, PTL
=============================================================================
