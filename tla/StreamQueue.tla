----------------------------- MODULE StreamQueue -----------------------------
(***************************************************************************)
(* The asynchronous release mode (ipcu_param.sw = 2) of sample_library.c:  *)
(* the IPCU callback copies each command into a node of a fixed pool and   *)
(* queues it, the stream thread hands it to the application's callback,    *)
(* application threads give it back with Stream_release_with_queue, and    *)
(* the main thread opens and closes the channel around them.               *)
(*                                                                         *)
(* A step is one critical section.  The sections under recv_stream_mutex   *)
(* and most of those under release_stream_mutex are single steps;          *)
(* remove_release_command is two, because finalize_stream_pool reads the   *)
(* lists without that mutex and can see the state between them.            *)
(* Nodes stand for the stream_queue structs malloc can return.  The LIFO   *)
(* order of the pool decides nothing here, so the pool is a set.           *)
(*                                                                         *)
(* A definition X_Y, just above X, is X with a bug: the runs' properties   *)
(* fail when it takes the place of X.                                      *)
(***************************************************************************)
EXTENDS Naturals, Sequences, FiniteSets

CONSTANTS
    Nodes,        \* struct stream_queue objects
    PoolSize,     \* STREAM_QUEUE_SIZE
    Buffers,      \* sample areas the RTOS lends
    Releasers,    \* application threads that call Stream_release_with_queue
    MaxCount,     \* bound: largest count given to Stream_release_set_count
    MaxOpens,     \* bound: calls of Stream_ipcu_ch_init
    Faults,       \* which external calls may fail; "reopen": the application may
                  \* call Stream_ipcu_ch_init again while the channel is open
    NoNode, NoBuf, NoOne

ASSUME NodesAssumption == IsFiniteSet(Nodes)
ASSUME PoolAssumption == PoolSize \in Nat \ {0}
ASSUME CountAssumption == MaxCount \in Nat \ {0} /\ MaxOpens \in Nat
ASSUME NoneAssumption == NoNode \notin Nodes /\ NoBuf \notin Buffers /\ NoOne \notin Releasers
ASSUME FaultAssumption ==
    Faults \subseteq {"open", "malloc", "thread", "register", "unregister", "send", "oversize",
                      "reopen"}

VARIABLES
    pool,         \* stream_pool
    recvQueue,    \* recv_queue
    releaseList,  \* release_list
    buf,          \* buf[n]: the frame whose command node n holds
    counter,      \* counter[n]: release_counter
    owed,         \* owed[n]: releases the application has still to call for n
    kind,         \* kind[b]: what the command of the current loan of b says
    loan,         \* loan[b]: does Linux hold b, or has its release been lost
    stopFlag,     \* stop_stream_thread_flag
    cbOn,         \* a receiver callback is registered
    cb, cbBuf,    \* the IPCU callback thread and its frame
    thr, cur,     \* the stream thread and its local "queue"
    rel, relNode, \* the application threads and their local "queue"
    releaseLock,  \* the releaser inside remove_release_command
    main,         \* the thread that opens and closes the channel
    filled,       \* the local "i" of initialize_stream_pool
    opens,        \* calls of Stream_ipcu_ch_init so far
    unclean       \* history: an init failed half-way or was called on an open
                  \* channel, or a drain timed out

lists  == <<pool, recvQueue, releaseList>>
frames == <<buf, counter, owed, kind, loan>>
cbVars == <<cb, cbBuf>>
thrVars == <<thr, cur>>
relVars == <<rel, relNode, releaseLock>>
mainVars == <<main, filled, opens, cbOn>>
vars == <<lists, frames, stopFlag, cbVars, thrVars, relVars, mainVars, unclean>>

Kinds == {"frame",       \* one of the six streams, with a callback of its own
          "unhandled",   \* good magic, but dummy_callback or no case takes it
          "corrupt"}     \* MagicCode is not 0x9999EEEE

Queued == {recvQueue[i] : i \in DOMAIN recvQueue}

Init == /\ pool = {} /\ recvQueue = <<>> /\ releaseList = {}
        /\ buf = [n \in Nodes |-> NoBuf]
        /\ counter = [n \in Nodes |-> 0]
        /\ owed = [n \in Nodes |-> 0]
        /\ kind = [b \in Buffers |-> "frame"]
        /\ loan = [b \in Buffers |-> "rtos"]
        /\ stopFlag = FALSE
        /\ cbOn = FALSE
        /\ cb = "idle" /\ cbBuf = NoBuf
        /\ thr = "none" /\ cur = NoNode
        /\ rel = [r \in Releasers |-> "idle"]
        /\ relNode = [r \in Releasers |-> NoNode]
        /\ releaseLock = NoOne
        /\ main = "closed" /\ filled = 0 /\ opens = 0
        /\ unclean = FALSE
-----------------------------------------------------------------------------
(* The IPCU callback: callback_camif_async.                                *)

\* The RTOS fills a free area and sends its command.
RtosSend(b) ==
    /\ cbOn /\ cb = "idle"
    /\ loan[b] = "rtos"
    /\ loan' = [loan EXCEPT ![b] = "lent"]
    /\ \E k \in Kinds : kind' = [kind EXCEPT ![b] = k]
    /\ cb' = "enqueue" /\ cbBuf' = b
    /\ UNCHANGED <<lists, buf, counter, owed, stopFlag, thrVars, relVars, mainVars, unclean>>

SignalRecv_Forgotten == UNCHANGED thr
\* pthread_cond_signal(&recv_stream_cond): only the stream thread waits on it.
SignalRecv == thr' = IF thr = "waiting" THEN "dequeue" ELSE thr

PushRecvQueue_AtHead(n) == <<n>> \o recvQueue
\* push_recv_queue: at the end.
PushRecvQueue(n) == Append(recvQueue, n)

Accepting_WhileStopping == pool # {}
Accepting == ~stopFlag /\ pool # {}

ReturnQueued_NonZero == cb' = "refuse" /\ UNCHANGED cbBuf
\* The command is queued: the callback has nothing more to do with the frame.
ReturnQueued == cb' = "idle" /\ cbBuf' = NoBuf

\* enqueue_recv_command finds a node: copy, queue, signal.
Enqueue ==
    /\ cb = "enqueue"
    /\ Accepting
    /\ \E n \in pool :
         /\ pool' = pool \ {n}
         /\ recvQueue' = PushRecvQueue(n)
         /\ buf' = [buf EXCEPT ![n] = cbBuf]
    /\ SignalRecv
    /\ ReturnQueued
    /\ UNCHANGED <<releaseList, counter, owed, kind, loan, stopFlag, cur, relVars,
                   mainVars, unclean>>

\* ... or does not: the engine is stopping, has no node, or the command is
\* longer than a node (STREAM_COMMAND_MAX).
NoRoom ==
    /\ cb = "enqueue"
    /\ ~Accepting \/ "oversize" \in Faults
    /\ cb' = "refuse"
    /\ UNCHANGED <<lists, frames, stopFlag, cbBuf, thrVars, relVars, mainVars, unclean>>

\* release_stream: no message for a corrupt command; a message may be lost.
ReleaseStream(b) ==
    \E l \in {"rtos", "lost"} :
      /\ l = "rtos" => kind[b] # "corrupt"
      /\ l = "lost" => kind[b] = "corrupt" \/ "send" \in Faults
      /\ loan' = [loan EXCEPT ![b] = l]
      /\ kind' = [kind EXCEPT ![b] = "frame"]

RefuseFrame_Dropped ==
    /\ cb = "refuse"
    /\ cb' = "idle" /\ cbBuf' = NoBuf
    /\ UNCHANGED <<lists, frames, stopFlag, thrVars, relVars, mainVars, unclean>>

\* callback_camif_async gives the refused frame straight back.
RefuseFrame ==
    /\ cb = "refuse"
    /\ ReleaseStream(cbBuf)
    /\ cb' = "idle" /\ cbBuf' = NoBuf
    /\ UNCHANGED <<lists, buf, counter, owed, stopFlag, thrVars, relVars, mainVars, unclean>>
-----------------------------------------------------------------------------
(* The stream thread: stream_thread_proc.                                  *)

Dequeue_NoRecheck ==
    /\ thr = "dequeue"
    /\ IF recvQueue # <<>>
       THEN cur' = Head(recvQueue) /\ recvQueue' = Tail(recvQueue) /\ thr' = "store"
       ELSE UNCHANGED <<recvQueue, cur>> /\ thr' \in {"waiting", "store"}
    /\ UNCHANGED <<pool, releaseList, frames, stopFlag, cbVars, relVars, mainVars, unclean>>

Dequeue_StopFirst ==
    /\ thr = "dequeue"
    /\ IF stopFlag \/ recvQueue = <<>>
       THEN thr' = (IF stopFlag THEN "drain" ELSE "waiting") /\ UNCHANGED <<recvQueue, cur>>
       ELSE cur' = Head(recvQueue) /\ recvQueue' = Tail(recvQueue) /\ thr' = "store"
    /\ UNCHANGED <<pool, releaseList, frames, stopFlag, cbVars, relVars, mainVars, unclean>>

\* dequeue_recv_command: take the head, or park, or leave the loop.
Dequeue ==
    /\ thr = "dequeue"
    /\ \/ /\ recvQueue # <<>>
          /\ cur' = Head(recvQueue)
          /\ recvQueue' = Tail(recvQueue)
          /\ thr' = "store"
       \/ /\ recvQueue = <<>>
          /\ thr' = IF stopFlag THEN "drain" ELSE "waiting"
          /\ UNCHANGED <<recvQueue, cur>>
    /\ UNCHANGED <<pool, releaseList, frames, stopFlag, cbVars, relVars, mainVars, unclean>>

\* POSIX lets both condition waits return without a signal.
SpuriousWakeup ==
    /\ \/ thr = "waiting" /\ thr' = "dequeue"
       \/ thr = "draining" /\ thr' = "drain"
    /\ UNCHANGED <<lists, frames, stopFlag, cbVars, cur, relVars, mainVars, unclean>>

DefaultCount_Unset == 0
\* One release, unless the callback announces more.
DefaultCount == 1

\* store_release_command.
Store ==
    /\ thr = "store"
    /\ releaseLock = NoOne
    /\ counter' = [counter EXCEPT ![cur] = DefaultCount]
    /\ releaseList' = releaseList \cup {cur}
    /\ thr' = "dispatch"
    /\ UNCHANGED <<pool, recvQueue, buf, owed, kind, loan, stopFlag, cbVars, cur, relVars,
                   mainVars, unclean>>

\* set_release_count: nothing happens when the command is not in the list.
SetReleaseCount(node, n) ==
    counter' = IF node \in releaseList THEN [counter EXCEPT ![node] = n] ELSE counter

\* recv_stream.  The application's callback announces n releases with
\* Stream_release_set_count and keeps the pointer; it has not given the
\* pointer to another thread before, so the two are one step.  Nobody
\* releases a command that no callback took.
Dispatch ==
    /\ thr = "dispatch"
    /\ releaseLock = NoOne
    /\ IF kind[buf[cur]] = "frame"
       THEN \E n \in 1..MaxCount :
              /\ SetReleaseCount(cur, n)
              /\ owed' = [owed EXCEPT ![cur] = n]
       ELSE UNCHANGED <<counter, owed>>
    /\ thr' = "dequeue" /\ cur' = NoNode
    /\ UNCHANGED <<lists, buf, kind, loan, stopFlag, cbVars, relVars, mainVars, unclean>>

DrainDone == releaseList = {}

\* wait_release_list_empty: leave with 0 when the list is empty, else park.
Drain ==
    /\ thr = "drain"
    /\ releaseLock = NoOne
    /\ thr' = IF DrainDone THEN "force" ELSE "draining"
    /\ UNCHANGED <<lists, frames, stopFlag, cbVars, cur, relVars, mainVars, unclean>>

\* RELEASE_STREAM_WAIT_TIMEOUT passes; the thread must still get the mutex.
TimeoutFires ==
    /\ thr = "draining"
    /\ thr' = "expired"
    /\ UNCHANGED <<lists, frames, stopFlag, cbVars, cur, relVars, mainVars, unclean>>

AfterTimeout_Forced == "force"
AfterTimeout_Retried == "drain"
AfterTimeout == "exited"

\* pthread_cond_timedwait returns ETIMEDOUT: no forced removal follows.
TimeoutReturns ==
    /\ thr = "expired"
    /\ releaseLock = NoOne
    /\ thr' = AfterTimeout
    /\ unclean' = TRUE
    /\ UNCHANGED <<lists, frames, stopFlag, cbVars, cur, relVars, mainVars>>

\* force_remove_release_command.
ForceRemove ==
    /\ thr = "force"
    /\ releaseLock = NoOne
    /\ pool' = pool \cup releaseList
    /\ buf' = [n \in Nodes |-> IF n \in releaseList THEN NoBuf ELSE buf[n]]
    /\ counter' = [n \in Nodes |-> IF n \in releaseList THEN 0 ELSE counter[n]]
    /\ releaseList' = {}
    /\ thr' = "exited"
    /\ UNCHANGED <<recvQueue, owed, kind, loan, stopFlag, cbVars, cur, relVars, mainVars,
                   unclean>>
-----------------------------------------------------------------------------
(* An application thread: Stream_release_with_queue.                       *)

MoreReleases_CountIgnored(n) == FALSE
MoreReleases(n) == counter[n] > 1

\* check_release_counter on a frame r still owes a release for.
CheckCounter(r, n) ==
    /\ rel[r] = "idle"
    /\ releaseLock = NoOne
    /\ owed[n] > 0
    /\ owed' = [owed EXCEPT ![n] = @ - 1]
    /\ IF n \in releaseList
       THEN /\ counter' = [counter EXCEPT ![n] = @ - 1]
            /\ IF MoreReleases(n)
               THEN UNCHANGED <<rel, relNode>>
               ELSE /\ rel' = [rel EXCEPT ![r] = "send"]
                    /\ relNode' = [relNode EXCEPT ![r] = n]
       ELSE UNCHANGED <<counter, rel, relNode>>
    /\ UNCHANGED <<lists, buf, kind, loan, stopFlag, cbVars, thrVars, releaseLock, mainVars,
                   unclean>>

\* The last release sends the message, outside release_stream_mutex.
SendRelease(r) ==
    /\ rel[r] = "send"
    /\ ReleaseStream(buf[relNode[r]])
    /\ rel' = [rel EXCEPT ![r] = "remove"]
    /\ UNCHANGED <<lists, buf, counter, owed, stopFlag, cbVars, thrVars, relNode, releaseLock,
                   mainVars, unclean>>

\* remove_release_command, first half: remove_release_list.
RemoveList(r) ==
    /\ rel[r] = "remove"
    /\ releaseLock = NoOne
    /\ releaseLock' = r
    /\ releaseList' = releaseList \ {relNode[r]}
    /\ rel' = [rel EXCEPT ![r] = "push"]
    /\ UNCHANGED <<pool, recvQueue, frames, stopFlag, cbVars, thrVars, relNode, mainVars,
                   unclean>>

\* Second half: push_stream_pool (which zeroes the node), signal, unlock.
PushPool(r) ==
    /\ rel[r] = "push"
    /\ pool' = pool \cup {relNode[r]}
    /\ buf' = [buf EXCEPT ![relNode[r]] = NoBuf]
    /\ counter' = [counter EXCEPT ![relNode[r]] = 0]
    /\ thr' = IF thr = "draining" THEN "drain" ELSE thr
    /\ rel' = [rel EXCEPT ![r] = "idle"]
    /\ relNode' = [relNode EXCEPT ![r] = NoNode]
    /\ releaseLock' = NoOne
    /\ UNCHANGED <<recvQueue, releaseList, owed, kind, loan, stopFlag, cbVars, cur, mainVars,
                   unclean>>
-----------------------------------------------------------------------------
(* The main thread: Stream_ipcu_ch_init and Stream_ipcu_ch_close.          *)

\* The nodes malloc can still return.
Unallocated == Nodes \ (pool \cup Queued \cup releaseList \cup {cur} \cup
                        {relNode[r] : r \in Releasers})

\* Stream_ipcu_ch_init up to initialize_stream_pool.  When only the second
\* mailbox cannot be opened, the first is closed again.
BeginInit ==
    /\ \/ main = "closed"
       \/ main = "open" /\ "reopen" \in Faults
    /\ opens < MaxOpens
    /\ opens' = opens + 1
    /\ unclean' = IF main = "open" THEN TRUE ELSE unclean
    /\ \/ main' = "checkPool"
       \/ "open" \in Faults /\ main' = "abort"
    /\ UNCHANGED <<lists, frames, stopFlag, cbVars, thrVars, relVars, filled, cbOn>>

\* initialize_stream_pool looks at the three list heads one after the other
\* and without their mutexes; a list in use makes it fail.
CheckLists ==
    /\ \/ main = "checkPool" /\ main' = IF pool # {} THEN "abort" ELSE "checkQueue"
       \/ main = "checkQueue" /\ main' = IF recvQueue # <<>> THEN "abort" ELSE "checkList"
       \/ main = "checkList" /\ main' = IF releaseList # {} THEN "abort" ELSE "fill"
    /\ UNCHANGED <<lists, frames, stopFlag, cbVars, thrVars, relVars, filled, opens, cbOn, unclean>>

\* One turn of its loop.  When malloc gives out, what was pushed stays.
FillPool ==
    /\ main = "fill"
    /\ \/ /\ filled < PoolSize
          /\ \E n \in Unallocated : pool' = pool \cup {n}
          /\ filled' = filled + 1
          /\ UNCHANGED <<main, unclean>>
       \/ /\ filled < PoolSize
          /\ "malloc" \in Faults \/ Unallocated = {}
          /\ main' = "abort" /\ unclean' = TRUE /\ filled' = 0
          /\ UNCHANGED pool
       \/ /\ filled = PoolSize
          /\ main' = "reset" /\ filled' = 0
          /\ UNCHANGED <<pool, unclean>>
    /\ UNCHANGED <<recvQueue, releaseList, frames, stopFlag, cbVars, thrVars, relVars, opens, cbOn>>

\* start_stream_thread, its critical section.  From here on frames are accepted
\* if a callback is still registered.
ResetFlag ==
    /\ main = "reset"
    /\ stopFlag' = FALSE
    /\ main' = "create"
    /\ UNCHANGED <<lists, frames, cbVars, thrVars, relVars, filled, opens, cbOn, unclean>>

\* ... and its pthread_create.  The model has one stream thread: where an
\* earlier one still runs, and a second would now be made beside it or its
\* handle be lost, the main thread goes no further.
CreateThread ==
    /\ main = "create"
    /\ thr = "none"
    /\ \/ thr' = "dequeue" /\ main' = "register" /\ UNCHANGED unclean
       \/ "thread" \in Faults /\ main' = "abort" /\ unclean' = TRUE /\ UNCHANGED thr
    /\ UNCHANGED <<lists, frames, stopFlag, cbVars, cur, relVars, filled, opens, cbOn>>

\* FJ_IPCU_SetReceiverCB(ts_id, callback_camif_async).
Register ==
    /\ main = "register"
    /\ \/ cbOn' = TRUE /\ main' = "open" /\ UNCHANGED unclean
       \/ "register" \in Faults /\ main' = "abort" /\ unclean' = TRUE /\ UNCHANGED cbOn
    /\ UNCHANGED <<lists, frames, stopFlag, cbVars, thrVars, relVars, filled, opens>>

\* The error exit closes both channels and undoes nothing else.
Abort ==
    /\ main = "abort"
    /\ cbOn' = FALSE
    /\ main' = "closed"
    /\ UNCHANGED <<lists, frames, stopFlag, cbVars, thrVars, relVars, filled, opens, unclean>>

\* stop_stream_thread up to the join.  The application may also close a
\* channel whose init failed.
StopThread ==
    /\ main \in {"open", "closed"}
    /\ IF thr # "none"
       THEN stopFlag' = TRUE /\ SignalRecv /\ main' = "join"
       ELSE main' = "finalize" /\ UNCHANGED <<stopFlag, thr>>
    /\ UNCHANGED <<lists, frames, cbVars, cur, relVars, filled, opens, cbOn, unclean>>

Join_NoWait ==
    /\ main = "join"
    /\ main' = "finalize"
    /\ UNCHANGED <<lists, frames, stopFlag, cbVars, thrVars, relVars, filled, opens, cbOn, unclean>>

\* pthread_join.
Join ==
    /\ main = "join"
    /\ thr = "exited"
    /\ thr' = "none"
    /\ main' = "finalize"
    /\ UNCHANGED <<lists, frames, stopFlag, cbVars, cur, relVars, filled, opens, cbOn, unclean>>

\* finalize_stream_pool looks at two list heads, one after the other and
\* without their mutexes.
FinalizeCheck ==
    /\ \/ main = "finalize" /\ main' = IF recvQueue # <<>> THEN "unregister" ELSE "finalizeList"
       \/ main = "finalizeList" /\ main' = IF releaseList # {} THEN "unregister" ELSE "free"
    /\ UNCHANGED <<lists, frames, stopFlag, cbVars, thrVars, relVars, filled, opens, cbOn, unclean>>

MoreToFree_StopsAtLast == Cardinality(pool) > 1
MoreToFree == pool # {}

\* One turn of its loop: pop and free a node, or stop at an empty pool.
FreeNode ==
    /\ main = "free"
    /\ \/ /\ MoreToFree
          /\ \E n \in pool : pool' = pool \ {n}
          /\ UNCHANGED main
       \/ ~MoreToFree /\ main' = "unregister" /\ UNCHANGED pool
    /\ UNCHANGED <<recvQueue, releaseList, frames, stopFlag, cbVars, thrVars, relVars, filled, opens,
                   cbOn, unclean>>

\* FJ_IPCU_SetReceiverCB(ts_id, NULL); if it fails the channels stay open.
Unregister ==
    /\ main = "unregister"
    /\ main' = "closed"
    /\ \/ cbOn' = FALSE
       \/ "unregister" \in Faults /\ UNCHANGED cbOn
    /\ UNCHANGED <<lists, frames, stopFlag, cbVars, thrVars, relVars, filled, opens, unclean>>
-----------------------------------------------------------------------------
CallbackStep == Enqueue \/ NoRoom \/ RefuseFrame
ThreadStep == Dequeue \/ Store \/ Dispatch \/ Drain \/ TimeoutFires \/ TimeoutReturns \/ ForceRemove
ReleaseStep(r) == SendRelease(r) \/ RemoveList(r) \/ PushPool(r)
InitStep == CheckLists \/ FillPool \/ ResetFlag \/ CreateThread \/ Register \/ Abort
CloseStep == Join \/ FinalizeCheck \/ FreeNode \/ Unregister
MainStep == InitStep \/ CloseStep

Next == \/ \E b \in Buffers : RtosSend(b)
        \/ CallbackStep
        \/ SpuriousWakeup
        \/ ThreadStep
        \/ \E r \in Releasers, n \in Nodes : CheckCounter(r, n)
        \/ \E r \in Releasers : ReleaseStep(r)
        \/ BeginInit \/ StopThread
        \/ MainStep

Spec == Init /\ [][Next]_vars

\* Every thread keeps running; the RTOS, the opening and the closing do not
\* have to happen.  The mutexes are not fair, but a thread that wants one
\* competes with finitely many sections, so weak fairness is enough.  The
\* deadline of the drain is absolute, computed once before the loop: it passes
\* even if spurious wakeups keep interrupting the wait, hence the strong one.
ThreadFairness ==
    /\ WF_vars(CallbackStep)
    /\ WF_vars(ThreadStep)
    /\ SF_vars(TimeoutFires)
    /\ WF_vars(MainStep)
    /\ \A r \in Releasers : WF_vars(ReleaseStep(r))

\* The application calls every release it owes: a frame is not passed over for
\* ever in favour of later ones, and the mutex is granted to who waits for it.
AppFairness == \A n \in Nodes : SF_vars(\E r \in Releasers : CheckCounter(r, n))

\* The application owes nothing here.
FairSpec == Spec /\ ThreadFairness
-----------------------------------------------------------------------------
(* Types.                                                                  *)

ThrStates == {"none", "dequeue", "waiting", "store", "dispatch", "drain", "draining",
              "expired", "force", "exited"}
MainStates == {"closed", "checkPool", "checkQueue", "checkList", "fill", "reset", "create",
               "register", "open", "join", "finalize", "finalizeList", "free", "unregister",
               "abort"}

\* Every variable keeps the type the C declarations give it.
TypeOK ==
    /\ pool \subseteq Nodes /\ releaseList \subseteq Nodes
    /\ recvQueue \in Seq(Nodes)
    /\ buf \in [Nodes -> Buffers \cup {NoBuf}]
    /\ counter \in [Nodes -> Nat] /\ owed \in [Nodes -> Nat]
    /\ kind \in [Buffers -> Kinds]
    /\ loan \in [Buffers -> {"rtos", "lent", "lost"}]
    /\ stopFlag \in BOOLEAN /\ cbOn \in BOOLEAN /\ unclean \in BOOLEAN
    /\ cb \in {"idle", "enqueue", "refuse"} /\ cbBuf \in Buffers \cup {NoBuf}
    /\ thr \in ThrStates /\ cur \in Nodes \cup {NoNode}
    /\ rel \in [Releasers -> {"idle", "send", "remove", "push"}]
    /\ relNode \in [Releasers -> Nodes \cup {NoNode}]
    /\ releaseLock \in Releasers \cup {NoOne}
    /\ main \in MainStates /\ opens \in Nat /\ filled \in 0..PoolSize
-----------------------------------------------------------------------------
(* Safety.                                                                 *)

\* The releasers that have finished with the frame but not yet with the node.
Done(r) == rel[r] \in {"remove", "push"}

\* The nodes that hold a frame Linux has not given back.
Live == {n \in Queued \cup releaseList \cup (IF thr = "store" THEN {cur} ELSE {}) :
           ~\E r \in Releasers : Done(r) /\ relNode[r] = n}

\* A node is in one place: a list, the stream thread's hand or one
\* releaser's hand (push_*/pop_*/remove_* move it, never copy it).
NodesApart ==
    /\ \A i, j \in DOMAIN recvQueue : recvQueue[i] = recvQueue[j] => i = j
    /\ pool \cap Queued = {} /\ pool \cap releaseList = {} /\ Queued \cap releaseList = {}
    /\ thr = "store" => cur \notin pool \cup Queued \cup releaseList
    /\ thr = "dispatch" => cur \in releaseList
    /\ \A r \in Releasers :
         /\ rel[r] \in {"send", "remove"} => relNode[r] \in releaseList
         /\ rel[r] = "push" => relNode[r] \notin pool \cup Queued \cup releaseList
         /\ rel[r] # "idle" => /\ relNode[r] # cur
                               /\ owed[relNode[r]] = 0
                               /\ \A s \in Releasers \ {r} : relNode[s] # relNode[r]

\* A frame the application may still touch, or whose release message is about
\* to be read from its node, keeps both its node and its buffer: neither a
\* forced removal at close nor another thread's release takes them away.
HeldFramesPinned ==
    /\ \A n \in Nodes : owed[n] > 0 => n \in releaseList /\ buf[n] \in Buffers
                                       /\ loan[buf[n]] = "lent"
    /\ \A r \in Releasers : rel[r] = "send" => loan[buf[relNode[r]]] = "lent"

\* Two live nodes, or a live node and the callback, never hold the same
\* buffer, and what they hold is lent: a release message, sent from one of
\* them, is sent at most once per loan and never for a buffer the RTOS has.
LoansDistinct ==
    /\ \A n \in Live : buf[n] \in Buffers /\ loan[buf[n]] = "lent" /\ buf[n] # cbBuf
    /\ \A m, n \in Live : buf[m] = buf[n] => m = n

\* Conversely every lent buffer is in the callback's hand or in a live node:
\* no error path drops one.
NoLoanForgotten ==
    \A b \in Buffers : loan[b] = "lent" => b = cbBuf \/ \E n \in Live : buf[n] = b

\* release_counter is the number of releases the application still owes.  The
\* exceptions are a node just stored, one being given back, and the orphans:
\* commands no callback took keep their node in release_list for good.
CountExact ==
    \A n \in releaseList :
       \/ n = cur
       \/ \E r \in Releasers : relNode[r] = n /\ counter[n] = 0
       \/ kind[buf[n]] = "frame" /\ counter[n] = owed[n] /\ owed[n] > 0
       \/ kind[buf[n]] # "frame" /\ counter[n] = 1 /\ owed[n] = 0

\* Once the stream thread has left its loop no frame is queued behind it.
NothingQueuedAfterStop ==
    thr \in {"drain", "draining", "expired", "force", "exited"} =>
        stopFlag /\ recvQueue = <<>>

\* A close frees every node, even though finalize_stream_pool reads the lists
\* without their mutexes while other threads release; only an init that failed
\* half-way or came while the channel was open, or a drain that timed out,
\* leaves nodes in the way of the next init.
CleanClose == main = "closed" /\ ~unclean => Unallocated = Nodes

\* With the same exception the queue has one reader.  A command is queued only
\* while a thread is there that will take it off, or between the reset of the
\* stop flag and the creation of the thread, where a callback left over from an
\* earlier life may queue one; and an init that has passed its three checks
\* finds no thread running, so it never makes a second one.
QueueHasOneReader ==
    ~unclean =>
      /\ recvQueue # <<>> => thr \notin {"none", "exited"} \/ main = "create"
      /\ main \in {"fill", "reset", "create"} => thr = "none"
-----------------------------------------------------------------------------
(* The engine implements the ownership contract.                           *)

InLine == (IF thr \in {"store", "dispatch"} THEN <<cur>> ELSE <<>>) \o recvQueue

whereBar ==
    [b \in Buffers |->
       IF loan[b] # "lent" THEN loan[b]
       ELSE IF b = cbBuf THEN "offered"
       ELSE IF \E i \in DOMAIN InLine : buf[InLine[i]] = b THEN "waiting" ELSE "held"]
lineBar == [i \in DOMAIN InLine |-> buf[InLine[i]]]
usesBar ==
    [b \in Buffers |->
       IF \E n \in Nodes : buf[n] = b /\ owed[n] > 0
       THEN owed[CHOOSE n \in Nodes : buf[n] = b /\ owed[n] > 0] ELSE 0]

Contract == INSTANCE FrameLoan WITH where <- whereBar, line <- lineBar, uses <- usesBar

\* Seen through the mapping, every step is a step of FrameLoan: frames are
\* delivered in the order they came, a buffer goes back only after the last
\* announced release, and only once.
ImplementsContract == Contract!Spec
-----------------------------------------------------------------------------
(* Liveness.                                                               *)

\* A close returns whatever the application does with its frames: the drain
\* gives up after its time-out.
CloseReturns == main = "join" ~> main = "closed"

\* If the application releases what it takes, every well-formed frame leaves
\* Linux again, accepted or refused.
FramesComeBack ==
    AppFairness =>
        \A b \in Buffers : loan[b] = "lent" /\ kind[b] = "frame" ~> loan[b] # "lent"
=============================================================================
