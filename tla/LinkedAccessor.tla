---------------------------- MODULE LinkedAccessor ----------------------------
(***************************************************************************)
(* SetAccessor::read and write as they are written: each set is a linked   *)
(* list whose nodes are moved, allocated and deleted, and a size that is   *)
(* counted apart from it.                                                  *)
(*                                                                         *)
(* The table of LruAccessor is no variable of the program here.  It is     *)
(* what the lists hold, so that the definitions of LruAccessor apply to    *)
(* it; its specification is what this one implements.                      *)
(***************************************************************************)
EXTENDS LruAccessor, LinkedList

VARIABLES nodes,  \* the CacheLineList nodes in memory
          head,   \* CacheLineSet::set, of each set
          size    \* CacheLineSet::size

linkedVars == <<vars, nodes, head, size>>

LocTags == 0..(Config.numberOfSets - 1)

\* cls->set, with the memory its pointers lead to.
Set(ltag) == [head |-> head[ltag], nodes |-> nodes]

LinkedInit ==
    /\ Init
    /\ nodes = [node \in {} |-> NULL]
    /\ head = [ltag \in LocTags |-> NULL]
    /\ size = [ltag \in LocTags |-> 0]

\* The loop over the set: where the nodes are whose line has the tag of adr.
Found(adr) ==
    LET chain == Chain(Set(LocTag(Config, adr)))
    IN  {i \in DOMAIN chain : nodes[chain[i]].value.tag = DataTag(Config, adr)}

\* The node at which the loop ends.
Entry(adr) == Chain(Set(LocTag(Config, adr)))[Min(Found(adr))]

\* The set of adr becomes list.
Becomes(adr, list) ==
    /\ nodes' = list.nodes
    /\ head' = [head EXCEPT ![LocTag(Config, adr)] = list.head]
    /\ table' = [ltag \in LocTags |->
                    Values([head |-> head'[ltag], nodes |-> nodes'])]

\* Mutant: a hit leaves its node where it is.
MutMoved(list, entry) == list

\* DL_DELETE and DL_APPEND of the node of a hit.
Moved(list, entry) == DL_APPEND(DL_DELETE(list, entry), entry)

\* read finds the line.
LinkedReadHit(adr) ==
    /\ Found(adr) # {}
    /\ Becomes(adr, Moved(Set(LocTag(Config, adr)), Entry(adr)))
    /\ returned' = {nodes[Entry(adr)].value}
    /\ Use(adr)
    /\ UNCHANGED size

\* read finds nothing.
LinkedReadMiss(adr) ==
    /\ Found(adr) = {}
    /\ returned' = {}
    /\ UNCHANGED <<table, clock, lastUse, nodes, head, size>>

\* write finds the line.
LinkedWriteHit(adr) ==
    /\ Found(adr) # {}
    /\ LET entry == Entry(adr)
           line  == SetEntryInvalid(nodes[entry].value)
           set   == Set(LocTag(Config, adr))
       IN  /\ Becomes(adr, Moved([set EXCEPT !.nodes[entry].value = line], entry))
           /\ returned' = {line}
    /\ Use(adr)
    /\ UNCHANGED size

\* Mutant: the size counts one line too few.
MutIsSetFull(adr) == size[LocTag(Config, adr)] > Config.setSize

IsSetFull(adr) == size[LocTag(Config, adr)] >= Config.setSize

\* Mutant: the last node, which is the prev of the first one.
MutToDelete(list) == list.nodes[list.head].prev

\* The node a full set gives up.
ToDelete(list) == list.head

\* write appends a new node for adr, of a line that is not dirty.
Allocate(adr, list) ==
    \E node \in Nodes \ DOMAIN list.nodes :
        Becomes(adr, With(list, node, NewCacheLine(DataTag(Config, adr), 0)))

\* write finds nothing, and room for one more line.
LinkedAdd(adr) ==
    /\ Found(adr) = {}
    /\ ~IsSetFull(adr)
    /\ Allocate(adr, Set(LocTag(Config, adr)))
    /\ returned' = {}
    /\ size' = [size EXCEPT ![LocTag(Config, adr)] = @ + 1]
    /\ Use(adr)

\* write finds nothing and a full set: the size is taken back, then counted.
LinkedReplace(adr) ==
    /\ Found(adr) = {}
    /\ IsSetFull(adr)
    /\ LET set      == Set(LocTag(Config, adr))
           toDelete == ToDelete(set)
       IN  /\ Allocate(adr, Without(set, toDelete))
           /\ returned' = {SetEvacuated(nodes[toDelete].value)}
    /\ size' = [size EXCEPT ![LocTag(Config, adr)] = (@ - 1) + 1]
    /\ Use(adr)

LinkedNext ==
    \E adr \in Addresses :
        \/ LinkedReadHit(adr)
        \/ LinkedReadMiss(adr)
        \/ LinkedWriteHit(adr)
        \/ LinkedAdd(adr)
        \/ LinkedReplace(adr)

LinkedSpec == LinkedInit /\ [][LinkedNext]_linkedVars

------------------------------------------------------------------------------
\* Every set is a list as utlist keeps it, as long as its size says; every
\* node in memory is on one of the lists, and on one only.  Whichever nodes
\* read and write moved or replaced before, the only, the first, a middle or
\* the last one, no pointer dangles, no node leaks and the size is right.
ListsAreSound ==
    LET chains == [ltag \in LocTags |-> Chain(Set(ltag))]
    IN  /\ \A ltag \in LocTags :
            IsList(Set(ltag)) /\ size[ltag] = Len(chains[ltag])
        /\ \A node \in DOMAIN nodes :
            \E ltag \in LocTags : Contains(chains[ltag], node)
        /\ \A ltag, other \in LocTags :
            ltag # other => ToSet(chains[ltag]) \cap ToSet(chains[other]) = {}

\* The lists behave as the sequences of SetAccessor do, call by call: moving
\* a node to the end, replacing the head and appending a node are what Read
\* and Write say (set_accessor.cpp:45, :77).
ImplementsLru == Spec

==============================================================================
