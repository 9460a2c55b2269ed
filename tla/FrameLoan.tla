------------------------------ MODULE FrameLoan ------------------------------
(***************************************************************************)
(* What the asynchronous stream engine of sample_library.c promises about  *)
(* the frame buffers the RTOS lends to Linux, without any list, node,      *)
(* counter or lock.  A buffer is offered by the IPCU callback; it is       *)
(* either refused on the spot or put at the end of the line; the head of   *)
(* the line is delivered to the application, which uses it a number of     *)
(* times; it goes back only after the last use, and goes back once.        *)
(***************************************************************************)
EXTENDS Naturals, Sequences

CONSTANTS
    Buffers,      \* sample areas of the RTOS, lent one frame at a time
    MaxCount      \* largest number of uses the application announces

VARIABLES
    where,        \* where[b]: who has the buffer
    line,         \* accepted buffers, in order of arrival, not yet delivered
    uses          \* uses[b]: releases the application still owes for b

vars == <<where, line, uses>>

Places == {"rtos", "offered", "waiting", "held", "lost"}

Init == /\ where = [b \in Buffers |-> "rtos"]
        /\ line = <<>>
        /\ uses = [b \in Buffers |-> 0]

Offer(b) == /\ where[b] = "rtos"
            /\ where' = [where EXCEPT ![b] = "offered"]
            /\ UNCHANGED <<line, uses>>

Accept(b) == /\ where[b] = "offered"
             /\ where' = [where EXCEPT ![b] = "waiting"]
             /\ line' = Append(line, b)
             /\ UNCHANGED uses

\* The release message of a refused buffer arrives, or is lost.
Refuse(b) == /\ where[b] = "offered"
             /\ \E w \in {"rtos", "lost"} : where' = [where EXCEPT ![b] = w]
             /\ UNCHANGED <<line, uses>>

\* k = 0: nobody took the frame (no callback is registered for its type).
Deliver(k) == /\ line # <<>>
              /\ where' = [where EXCEPT ![Head(line)] = "held"]
              /\ uses' = [uses EXCEPT ![Head(line)] = k]
              /\ line' = Tail(line)

Use(b) == /\ where[b] = "held"
          /\ uses[b] > 0
          /\ uses' = [uses EXCEPT ![b] = @ - 1]
          /\ UNCHANGED <<where, line>>

Return(b) == /\ where[b] = "held"
             /\ uses[b] = 0
             /\ \E w \in {"rtos", "lost"} : where' = [where EXCEPT ![b] = w]
             /\ UNCHANGED <<line, uses>>

Next == \/ \E b \in Buffers : Offer(b) \/ Accept(b) \/ Refuse(b) \/ Use(b) \/ Return(b)
        \/ \E k \in 0..MaxCount : Deliver(k)

Spec == Init /\ [][Next]_vars
=============================================================================
