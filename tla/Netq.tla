-------------------------------- MODULE Netq --------------------------------
(***************************************************************************)
(* The tinyDTLS packet queue (os/net/security/tinydtls/netq.c): a singly   *)
(* linked list of netq_t nodes, kept sorted by the time stamp t, whose     *)
(* nodes come from a MEMB pool of NETQ_MAXCNT blocks.                      *)
(*                                                                         *)
(* `queue' is the list head *queue, `next' and `t' the fields of every     *)
(* block of the pool, `allocated' the blocks memb_alloc handed out.  The   *)
(* pool's blocks are numbered; NULL is a value that is not one of them.    *)
(*                                                                         *)
(* The queue's user (the DTLS retransmission code, not part of the         *)
(* repository) is modelled by the calls it makes: it takes a node from     *)
(* the pool, sets its time stamp and inserts it; pops the head; removes a  *)
(* queued node; frees a node it holds; or deletes the whole queue.  It     *)
(* inserts only nodes it holds and frees only nodes that are not queued.   *)
(* Contiki's processes are not preempted, so each call is one step.       *)
(***************************************************************************)
EXTENDS Naturals, Sequences, SequencesExt, FiniteSets

CONSTANTS Nodes,   \* the MEMB blocks, by index (NETQ_MAXCNT of them)
          Times,   \* the time stamps the user gives a node
          NULL     \* the null pointer

ASSUME Nodes \subseteq Nat /\ NULL \notin Nodes

VARIABLES queue,      \* *queue: the first node, or NULL
          next,       \* node->next of every block
          t,          \* node->t of every block
          allocated   \* the blocks memb_alloc handed out

vars == <<queue, next, t, allocated>>

\* The nodes reached from p by following next, at most k of them.  With k
\* one more than the pool, a cycle shows as a list longer than the pool.
RECURSIVE Follow(_, _)
Follow(p, k) == IF p = NULL \/ k = 0 THEN <<>> ELSE <<p>> \o Follow(next[p], k - 1)

List == Follow(queue, Cardinality(Nodes) + 1)

-----------------------------------------------------------------------------

\* netq_init: memb_init marks every block free.
Init ==
    /\ queue = NULL
    /\ next = [n \in Nodes |-> NULL]
    /\ t = [n \in Nodes |-> 0]
    /\ allocated = {}

\* netq_node_new: memb_alloc returns the first free block (NULL when every
\* block is taken, which changes nothing), and the node is zeroed.
netq_node_new ==
    /\ allocated # Nodes
    /\ LET n == Min(Nodes \ allocated)
       IN  /\ allocated' = allocated \cup {n}
           /\ next' = [next EXCEPT ![n] = NULL]
           /\ t' = [t EXCEPT ![n] = 0]
    /\ UNCHANGED queue

\* Mutant of NotLater: `p->t < node->t'.
Earlier(a, b) == a < b

\* The walk goes on past p while `p->t <= node->t'.
NotLater(a, b) == a <= b

\* The number of nodes at the head of the list that
\* `while(p && p->t <= node->t)' walks past.
WalkPast(time) ==
    CHOOSE k \in 0 .. Len(List) :
        /\ \A i \in 1 .. k : NotLater(t[List[i]], time)
        /\ k = Len(List) \/ ~NotLater(t[List[k + 1]], time)

\* The pointer updates of netq_insert_node once the walk stopped after k
\* nodes: node->next = p; op->next = node, or *queue = node when op is NULL.
Link(n, k) ==
    LET p == IF k < Len(List) THEN List[k + 1] ELSE NULL
    IN  IF k = 0
        THEN /\ next' = [next EXCEPT ![n] = p]
             /\ queue' = n
        ELSE /\ next' = [next EXCEPT ![n] = p, ![List[k]] = n]
             /\ UNCHANGED queue

\* The user sets node->t = time on a node it holds and calls
\* netq_insert_node(&queue, node).
netq_insert_node(n, time) ==
    /\ n \in allocated \ ToSet(List)
    /\ t' = [t EXCEPT ![n] = time]
    /\ Link(n, WalkPast(time))
    /\ UNCHANGED allocated

\* netq_pop_first: *queue = p->next and p->next = NULL (NULL for an empty
\* queue, which changes nothing).
netq_pop_first ==
    /\ queue # NULL
    /\ queue' = next[queue]
    /\ next' = [next EXCEPT ![queue] = NULL]
    /\ UNCHANGED <<t, allocated>>

\* netq_remove of a queued node: its predecessor (or *queue) skips it and
\* curr->next = NULL.  A node not on the list is left alone.
netq_remove(n) ==
    /\ n \in ToSet(List)
    /\ LET i == CHOOSE i \in 1 .. Len(List) : List[i] = n
       IN  IF i = 1
           THEN /\ queue' = next[n]
                /\ next' = [next EXCEPT ![n] = NULL]
           ELSE /\ next' = [next EXCEPT ![List[i - 1]] = next[n], ![n] = NULL]
                /\ UNCHANGED queue
    /\ UNCHANGED <<t, allocated>>

\* netq_node_free of a node the user holds: memb_free.
netq_node_free(n) ==
    /\ n \in allocated \ ToSet(List)
    /\ allocated' = allocated \ {n}
    /\ UNCHANGED <<queue, next, t>>

\* Mutant of netq_delete_all: *queue = NULL is left out.
DeleteAllKeepHead ==
    /\ next' = [n \in Nodes |-> IF n \in ToSet(List) THEN NULL ELSE next[n]]
    /\ allocated' = allocated \ ToSet(List)
    /\ UNCHANGED <<queue, t>>

\* netq_delete_all: every node of the list gets next = NULL and is freed,
\* then *queue = NULL.
netq_delete_all ==
    /\ next' = [n \in Nodes |-> IF n \in ToSet(List) THEN NULL ELSE next[n]]
    /\ allocated' = allocated \ ToSet(List)
    /\ queue' = NULL
    /\ UNCHANGED t

Next ==
    \/ netq_node_new
    \/ \E n \in Nodes, time \in Times : netq_insert_node(n, time)
    \/ netq_pop_first
    \/ \E n \in Nodes : netq_remove(n) \/ netq_node_free(n)
    \/ netq_delete_all

Spec == Init /\ [][Next]_vars

====
