------------------------------ MODULE LinkedList ------------------------------
(***************************************************************************)
(* The doubly linked lists of uthash/utlist.h, on which the sets of a      *)
(* cache and the access histories are kept.                                *)
(*                                                                         *)
(* A list is a head and the nodes that memory holds, here those of other   *)
(* lists too: a function from the allocated nodes to what they hold, so    *)
(* that a deleted node cannot be followed.  The next of the last node is   *)
(* NULL, and the prev of the first one is the last one.                    *)
(***************************************************************************)
EXTENDS Naturals, SequencesExt

CONSTANTS Nodes,  \* where a node can be in memory
          NULL

ASSUME NodesAssumption == IsFiniteSet(Nodes) /\ NULL \notin Nodes

\* What new leaves at node, until DL_APPEND sets its pointers.
NewNode(nodes, node, value) ==
    [n \in DOMAIN nodes \cup {node} |->
        IF n = node THEN [prev |-> NULL, next |-> NULL, value |-> value]
                    ELSE nodes[n]]

\* Mutant: the head does not learn of the new last node.
MutDL_APPEND(list, add) ==
    LET last == list.nodes[list.head].prev
    IN  IF list.head = NULL
        THEN [list EXCEPT !.head = add,
                          !.nodes[add].prev = add, !.nodes[add].next = NULL]
        ELSE [list EXCEPT !.nodes[add].prev = last, !.nodes[add].next = NULL,
                          !.nodes[last].next = add]

\* The assignments of the macro, in its order.
DL_APPEND(list, add) ==
    LET last == list.nodes[list.head].prev
    IN  IF list.head = NULL
        THEN [list EXCEPT !.head = add,
                          !.nodes[add].prev = add, !.nodes[add].next = NULL]
        ELSE [list EXCEPT !.nodes[add].prev = last,
                          !.nodes[last].next = add,
                          !.nodes[list.head].prev = add,
                          !.nodes[add].next = NULL]

\* Mutant: when the last node goes, the head still takes it for the last one.
MutDL_DELETE(list, del) ==
    LET prev == list.nodes[del].prev
        next == list.nodes[del].next
    IN  CASE prev = del -> [list EXCEPT !.head = NULL]
          [] prev # del /\ del = list.head ->
                [list EXCEPT !.nodes[next].prev = prev, !.head = next]
          [] prev # del /\ del # list.head ->
                [list EXCEPT !.nodes[prev].next = next]

\* The only node, the first of several, the last one, and one in the middle.
DL_DELETE(list, del) ==
    LET prev == list.nodes[del].prev
        next == list.nodes[del].next
    IN  CASE prev = del -> [list EXCEPT !.head = NULL]
          [] prev # del /\ del = list.head ->
                [list EXCEPT !.nodes[next].prev = prev, !.head = next]
          [] prev # del /\ del # list.head /\ next = NULL ->
                [list EXCEPT !.nodes[prev].next = next,
                             !.nodes[list.head].prev = prev]
          [] prev # del /\ del # list.head /\ next # NULL ->
                [list EXCEPT !.nodes[prev].next = next,
                             !.nodes[next].prev = prev]

\* DL_DELETE and delete of a node.
Without(list, node) ==
    LET rest == DL_DELETE(list, node)
    IN  [rest EXCEPT !.nodes = Restrict(@, DOMAIN @ \ {node})]

\* new and DL_APPEND of a node.
With(list, node, value) ==
    DL_APPEND([list EXCEPT !.nodes = NewNode(@, node, value)], node)

\* Where following next from the head leads, in so many steps.
Forward(list) ==
    LET Next(node) == IF node = NULL THEN NULL ELSE list.nodes[node].next
        at[k \in 0..Cardinality(Nodes)] ==
            IF k = 0 THEN list.head ELSE Next(at[k - 1])
    IN  at

\* The nodes that DL_FOREACH visits (as many as memory can hold).
Chain(list) ==
    LET at == Forward(list)
        visits == {k \in 1..Cardinality(Nodes) : at[k - 1] # NULL}
    IN  [k \in 1..Cardinality(visits) |-> at[k - 1]]

\* What those nodes hold.
Values(list) ==
    LET chain == Chain(list)
    IN  [i \in DOMAIN chain |-> list.nodes[chain[i]].value]

------------------------------------------------------------------------------
\* A list as utlist keeps it: following next ends, meets no node twice, and
\* prev leads the same way back, from the first node to the last one.
IsList(list) ==
    LET chain == Chain(list)
    IN  /\ Forward(list)[Cardinality(Nodes)] = NULL
        /\ IsInjective(chain)
        /\ \A i \in DOMAIN chain :
            list.nodes[chain[i]].prev =
                IF i = 1 THEN Last(chain) ELSE chain[i - 1]

==============================================================================
