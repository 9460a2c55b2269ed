----------------------------- MODULE StreamList -----------------------------
(***************************************************************************)
(* The three linked lists of sample_library.c as their pointers: a command *)
(* node is in stream_pool (a stack), recv_queue (a queue), release_list    *)
(* (a queue with removal anywhere) or in a thread's hand.  The lists share *)
(* the nodes' next and prev fields and each has a mutex of its own, so the *)
(* walk to the end of one list runs while other threads relink the others. *)
(*                                                                         *)
(* A step is a locked section, or one turn of a walk inside of one.        *)
(* StreamQueue uses the lists as the sequence and the sets that order says *)
(* they are; its NodesApart is the discipline assumed of the threads here. *)
(*                                                                         *)
(* A definition X_Y, just above X, is X with a bug: the runs' properties   *)
(* fail when it takes the place of X.                                      *)
(***************************************************************************)
EXTENDS Naturals, Sequences

CONSTANTS
    Nodes,     \* struct stream_queue objects
    Null,      \* the null pointer
    Junk       \* what the pointers of a node fresh from malloc may be

ASSUME NullAssumption == Null \notin Nodes /\ Junk \subseteq Nodes \cup {Null}

Lists == {"pool", "recv", "release"}

VARIABLES
    head,      \* head[l]: stream_pool, recv_queue, release_list
    next, prev,
    adding,    \* adding[l]: the node push_recv_queue or push_release_list has
    cursor,    \* cursor[l]: its local "queue" or "list"
    target,    \* the node whose command search_release_list looks for
    seek,      \* its local "list"
    found,     \* nodes it returned to the release that will remove them
    hand,      \* nodes some thread has taken out of a list
    fresh,     \* nodes from malloc, not in a list yet, or freed
    order      \* history: the order in which each list ought to be

pushVars == <<adding, cursor>>
searchVars == <<target, seek, found>>
vars == <<head, next, prev, pushVars, searchVars, hand, fresh, order>>

Init == /\ head = [l \in Lists |-> Null]
        /\ next \in [Nodes -> Junk] /\ prev \in [Nodes -> Junk]
        /\ adding = [l \in Lists |-> Null] /\ cursor = [l \in Lists |-> Null]
        /\ target = Null /\ seek = Null /\ found = {}
        /\ hand = {} /\ fresh = Nodes
        /\ order = [l \in Lists |-> <<>>]

Elements(s) == {s[i] : i \in DOMAIN s}

\* s without its element n, if it has it.
Without(s, n) ==
    IF n \notin Elements(s) THEN s
    ELSE LET k == CHOOSE i \in DOMAIN s : s[i] = n
         IN [i \in 1..(Len(s) - 1) |-> IF i < k THEN s[i] ELSE s[i + 1]]

\* The mutex of l is held between two turns of a walk.
Busy(l) == adding[l] # Null \/ (l = "release" /\ target # Null)

\* *p = v unless p is NULL.
Assign(field, p, v) == IF p = Null THEN field ELSE [field EXCEPT ![p] = v]
-----------------------------------------------------------------------------
(* push_stream_pool: in front.  The node is cleared first.                 *)

PushPool(n) ==
    /\ n \in hand \cup fresh
    /\ next' = [next EXCEPT ![n] = head["pool"]]
    /\ prev' = [Assign(prev, head["pool"], n) EXCEPT ![n] = Null]
    /\ head' = [head EXCEPT !["pool"] = n]
    /\ hand' = hand \ {n} /\ fresh' = fresh \ {n}
    /\ order' = [order EXCEPT !["pool"] = <<n>> \o @]
    /\ UNCHANGED <<pushVars, searchVars>>
-----------------------------------------------------------------------------
(* push_recv_queue and push_release_list: at the end.                      *)

StartPush(l, n) ==
    /\ l \in {"recv", "release"} /\ ~Busy(l)
    /\ n \in hand
    /\ hand' = hand \ {n}
    /\ adding' = [adding EXCEPT ![l] = n]
    /\ cursor' = [cursor EXCEPT ![l] = head[l]]
    /\ UNCHANGED <<head, next, prev, searchVars, fresh, order>>

\* while (queue->next)
AtEnd(l) == ~(cursor[l] # Null /\ next[cursor[l]] # Null)

Walk(l) ==
    /\ adding[l] # Null /\ ~AtEnd(l)
    /\ cursor' = [cursor EXCEPT ![l] = next[@]]
    /\ UNCHANGED <<head, next, prev, adding, searchVars, hand, fresh, order>>

NextAfterLink_Circle(l) == [Assign(next, cursor[l], adding[l]) EXCEPT ![adding[l]] = head[l]]
NextAfterLink(l) == [Assign(next, cursor[l], adding[l]) EXCEPT ![adding[l]] = Null]

Link(l) ==
    /\ adding[l] # Null /\ AtEnd(l)
    /\ head' = IF cursor[l] = Null THEN [head EXCEPT ![l] = adding[l]] ELSE head
    /\ next' = NextAfterLink(l)
    /\ prev' = [prev EXCEPT ![adding[l]] = cursor[l]]
    /\ order' = [order EXCEPT ![l] = Append(@, adding[l])]
    /\ adding' = [adding EXCEPT ![l] = Null]
    /\ cursor' = [cursor EXCEPT ![l] = Null]
    /\ UNCHANGED <<searchVars, hand, fresh>>
-----------------------------------------------------------------------------
(* pop_stream_pool, pop_recv_queue and pop_release_list: the first node.   *)

PrevAfterPop_Kept(l) == [prev EXCEPT ![head[l]] = Null]
PrevAfterPop(l) == Assign([prev EXCEPT ![head[l]] = Null], next[head[l]], Null)

\* An empty list gives NULL and stays as it is.  force_remove_release_command
\* empties release_list only when no release is on its way.
Pop(l) ==
    /\ ~Busy(l)
    /\ head[l] # Null
    /\ l = "release" => found = {}
    /\ prev' = PrevAfterPop(l)
    /\ next' = [next EXCEPT ![head[l]] = Null]
    /\ head' = [head EXCEPT ![l] = next[head[l]]]
    /\ hand' = hand \cup {head[l]}
    /\ order' = [order EXCEPT ![l] = Without(@, head[l])]
    /\ UNCHANGED <<pushVars, searchVars, fresh>>

\* finalize_stream_pool frees what it popped; a later malloc may find anything
\* in the block.
Free(n) ==
    /\ n \in hand
    /\ hand' = hand \ {n} /\ fresh' = fresh \cup {n}
    /\ \E v, w \in Junk : next' = [next EXCEPT ![n] = v] /\ prev' = [prev EXCEPT ![n] = w]
    /\ UNCHANGED <<head, pushVars, searchVars, order>>
-----------------------------------------------------------------------------
(* search_release_list and remove_release_list.                            *)

\* A release looks its command up.  Releases are counted: the node that the
\* last one is about to remove is not looked for again.
StartSearch(n) ==
    /\ ~Busy("release")
    /\ n \in Nodes \ found
    /\ target' = n
    /\ seek' = head["release"]
    /\ UNCHANGED <<head, next, prev, pushVars, found, hand, fresh, order>>

SearchOver == ~(seek # Null /\ seek # target)

SearchNext ==
    /\ target # Null /\ ~SearchOver
    /\ seek' = next[seek]
    /\ UNCHANGED <<head, next, prev, pushVars, target, found, hand, fresh, order>>

\* Not found, one release of several, or the last one.
SearchEnd ==
    /\ target # Null /\ SearchOver
    /\ found' \in {found} \cup (IF seek = target THEN {found \cup {seek}} ELSE {})
    /\ target' = Null /\ seek' = Null
    /\ UNCHANGED <<head, next, prev, pushVars, hand, fresh, order>>

PrevAfterRemove_Kept(n) == [prev EXCEPT ![n] = Null]
PrevAfterRemove(n) == Assign([prev EXCEPT ![n] = Null], next[n], prev[n])

Remove(n) ==
    /\ n \in found /\ ~Busy("release")
    /\ prev' = PrevAfterRemove(n)
    /\ next' = Assign([next EXCEPT ![n] = Null], prev[n], next[n])
    /\ head' = IF prev[n] = Null THEN [head EXCEPT !["release"] = next[n]] ELSE head
    /\ found' = found \ {n}
    /\ hand' = hand \cup {n}
    /\ order' = [order EXCEPT !["release"] = Without(@, n)]
    /\ UNCHANGED <<pushVars, target, seek, fresh>>
-----------------------------------------------------------------------------
WalkStep == \/ \E l \in Lists : Walk(l) \/ Link(l)
            \/ SearchNext \/ SearchEnd

Next == \/ \E n \in Nodes : PushPool(n) \/ Free(n) \/ StartSearch(n) \/ Remove(n)
        \/ \E l \in Lists, n \in Nodes : StartPush(l, n)
        \/ \E l \in Lists : Pop(l)
        \/ WalkStep

Spec == Init /\ [][Next]_vars
-----------------------------------------------------------------------------
\* What a walk from the head of l sees is the order in which its nodes were
\* pushed, latest first for the pool, without those removed: the comments "LIFO"
\* and "FIFO" at the lists' heads.  Nothing is lost, repeated or shared, though
\* the three lists are relinked at the same time.
ListsKeepOrder ==
    \A l \in Lists :
        LET s == order[l] IN
        /\ head[l] = IF s = <<>> THEN Null ELSE s[1]
        /\ \A i \in 1..Len(s) : next[s[i]] = IF i = Len(s) THEN Null ELSE s[i + 1]

\* A search that ends has found its node exactly if it is in release_list: no
\* release is refused for a frame the application still owes.
SearchRight ==
    target # Null /\ SearchOver => (seek = target <=> target \in Elements(order["release"]))
=============================================================================
