------------------------------ MODULE NetqQueue ------------------------------
(***************************************************************************)
(* What the tinyDTLS packet queue (os/net/security/tinydtls/netq.c)        *)
(* promises its users, stated without pointers: a sequence of nodes kept   *)
(* in order of their time stamp t, where a node inserted goes after every  *)
(* queued node whose time is not later (first in, first out among equal    *)
(* times), together with the set of nodes taken from the node pool.        *)
(* Netq implements this specification; MCNetq checks it.                  *)
(***************************************************************************)
EXTENDS Naturals, Sequences, SequencesExt

CONSTANTS Nodes,   \* the node pool
          Times    \* the time stamps a user gives a node

VARIABLES q,       \* the queued nodes, head first
          t,       \* the time stamp of every node
          used     \* the nodes taken from the pool and not yet given back

vars == <<q, t, used>>

Queued == ToSet(q)

\* The queue is ordered by time stamp.
InOrder(s) == IsSorted([i \in 1..Len(s) |-> t[s[i]]], <=)

Init ==
    /\ q = <<>>
    /\ t = [n \in Nodes |-> 0]
    /\ used = {}

\* A node is taken from the pool, with a zero time stamp.
New(n) ==
    /\ n \notin used
    /\ used' = used \cup {n}
    /\ t' = [t EXCEPT ![n] = 0]
    /\ UNCHANGED q

\* A held node is given time stamp `time' and queued after every node whose
\* time is not later than `time' and before every node whose time is.
Insert(n, time) ==
    /\ n \in used \ Queued
    /\ t' = [t EXCEPT ![n] = time]
    /\ \E i \in 1 .. Len(q) + 1 :
          /\ \A j \in 1 .. i - 1 : t[q[j]] <= time
          /\ \A j \in i .. Len(q) : t[q[j]] > time
          /\ q' = InsertAt(q, i, n)
    /\ UNCHANGED used

\* The head of the queue is taken off it; the user holds it.
PopFirst ==
    /\ q # <<>>
    /\ q' = Tail(q)
    /\ UNCHANGED <<t, used>>

\* A queued node is taken off the queue, wherever it is.
RemoveNode(n) ==
    /\ n \in Queued
    /\ q' = Remove(q, n)
    /\ UNCHANGED <<t, used>>

\* Every queued node goes back to the pool and the queue is empty.
DeleteAll ==
    /\ q' = <<>>
    /\ used' = used \ Queued
    /\ UNCHANGED t

\* A held node, not queued, goes back to the pool.
Free(n) ==
    /\ n \in used \ Queued
    /\ used' = used \ {n}
    /\ UNCHANGED <<q, t>>

Next ==
    \/ \E n \in Nodes : New(n) \/ RemoveNode(n) \/ Free(n)
    \/ \E n \in Nodes, time \in Times : Insert(n, time)
    \/ PopFirst
    \/ DeleteAll

Spec == Init /\ [][Next]_vars

====
