-------------------------------- MODULE MCNetq --------------------------------
(***************************************************************************)
(* Model checking of Netq: a pool of four blocks and three time stamps, so *)
(* that equal times, out-of-order inserts, removal from the head, middle   *)
(* and tail, and a full pool all occur.                                    *)
(***************************************************************************)
EXTENDS Netq

\* The pointer list read as the sequence NetqQueue speaks of.
MCNodes == 1 .. 4
MCTimes == {1, 2, 3}

Abs == INSTANCE NetqQueue WITH q <- List, used <- allocated

\* The list hanging from *queue is a proper list of live blocks: it ends in
\* NULL without a cycle, holds no node twice, and every node on it is still
\* allocated, after any sequence of inserts, pops, removals, frees and
\* netq_delete_all (a freed block on the list would be reused by the next
\* netq_node_new while still linked).
WellFormed ==
    /\ Len(List) <= Cardinality(Nodes)
    /\ \A i, j \in 1 .. Len(List) : i # j => List[i] # List[j]
    /\ ToSet(List) \subseteq allocated

\* The pointer manipulations of netq_insert_node, netq_pop_first,
\* netq_remove and netq_delete_all implement the time-ordered FIFO queue
\* of NetqQueue.
Implements == Abs!Spec

====
