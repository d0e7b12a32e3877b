--------------------------- MODULE StreamPrefetcher ---------------------------
(***************************************************************************)
(* class StreamPrefetcher over an AccessList, a linked list of the last    *)
(* accesses to a cache, and the methods with which L1DCache and L2Cache    *)
(* run it.  The methods have no caller at present.                         *)
(*                                                                         *)
(* The prefetcher walks the list backwards, by prev, from the last access. *)
(* Since the prev of the first one is the last one, only a test against    *)
(* the head and the comparison of size with the threshold keep the walk    *)
(* from going round.                                                       *)
(***************************************************************************)
EXTENDS LinkedList, CacheDefs

CONSTANTS Accessed,      \* the addresses that are accessed
          AddressSpace,  \* the number of values of an Address
          LineSize,      \* cacheLineSize
          PageSize,      \* sysconf(_SC_PAGESIZE)
          MaxSize,       \* AccessList::maxSize
          SeqThreshold   \* seqThreshold

ASSUME StreamAssumption ==
    /\ LineSize \in Nat \ {0}
    /\ PageSize \in Nat \ {0}
    /\ AddressSpace \in Nat \ {0}
    /\ AddressSpace % PageSize = 0
    /\ Accessed \subseteq 0..(AddressSpace - 1)
    /\ MaxSize \in Nat \ {0}
    /\ SeqThreshold \in Nat \ {0, 1}

\* Addresses are 64 bits wide: a stream, the line after it and one more page
\* take less than all of them.
ASSUME SpaceAssumption ==
    PageSize + LineSize + (SeqThreshold - 1) * (2 * LineSize - 1) <= AddressSpace

VARIABLES list,     \* AccessList::list, with the nodes its pointers lead to
          listSize, \* AccessList::size
          ran,      \* the cache that has run the prefetcher since the last access
          loads,    \* what it then loaded
          history   \* auxiliary: the last MaxSize accesses, oldest first

streamVars == <<list, listSize, ran, loads, history>>

Orders == {"ascending", "descending"}

StreamInit ==
    /\ list = [head |-> NULL, nodes |-> [node \in {} |-> NULL]]
    /\ listSize = 0
    /\ ran = "none"
    /\ loads = {}
    /\ history = << >>

\* Mutant: one access too many.
MutIsListFull == listSize > MaxSize

IsListFull == listSize >= MaxSize

\* AccessList::add: the new node is there before the first one is deleted.
Add(adr) ==
    /\ \E node \in Nodes \ DOMAIN list.nodes :
        list' = With(IF IsListFull THEN Without(list, list.head) ELSE list,
                     node, adr)
    /\ listSize' = (IF IsListFull THEN listSize - 1 ELSE listSize) + 1
    /\ ran' = "none"
    /\ loads' = {}
    /\ history' = AddAccess(history, MaxSize, adr)

IsAscending(a1, a2) == a1 >= a2 /\ a1 - a2 < 2 * LineSize

IsDescending(a1, a2) == a1 <= a2 /\ a2 - a1 < 2 * LineSize

InOrder(order, a1, a2) ==
    IF order = "ascending" THEN IsAscending(a1, a2) ELSE IsDescending(a1, a2)

\* Mutant: pages are not looked at.
MutInSamePage(a1, a2) == TRUE

InSamePage(a1, a2) == a1 \div PageSize = a2 \div PageSize

\* getLast, and the nodes to which prev leads from there.
Back(steps) ==
    LET at[k \in 0..steps] ==
            list.nodes[IF k = 0 THEN list.head ELSE at[k - 1]].prev
    IN  at

\* Mutant: the walk ends one access early.
MutLastStep == SeqThreshold - 2

\* The step of the walk that reaches the access it is to start at.
LastStep == SeqThreshold - 1

\* streamPrefetch: {} for false, else what it sets toFetch and seqStart to.
StreamPrefetch(order) ==
    LET node    == Back(LastStep)
        adr(k)  == list.nodes[node[k]].value
        toFetch == (adr(0) + LineSize) % AddressSpace
    IN  IF /\ listSize >= SeqThreshold
           /\ \A k \in 1..LastStep : InOrder(order, adr(k - 1), adr(k))
           /\ \A k \in 1..(LastStep - 1) : node[k] # list.head
           /\ InSamePage(adr(LastStep), toFetch)
        THEN {[order |-> order, toFetch |-> toFetch, seqStart |-> adr(LastStep)]}
        ELSE {}

\* L1DCache::runPrefetcher
RunL1DPrefetcher(writePolicy) ==
    /\ writePolicy = WRITE_BACK
    /\ ran' = "L1D"
    /\ loads' = StreamPrefetch("ascending")
    /\ UNCHANGED <<list, listSize, history>>

\* L2Cache::runStreamPrefetcher
RunL2Prefetcher ==
    /\ ran' = "L2"
    /\ loads' =
        {prefetch \in StreamPrefetch("ascending") \cup StreamPrefetch("descending") :
            InSamePage(prefetch.toFetch, prefetch.seqStart)}
    /\ UNCHANGED <<list, listSize, history>>

StreamNext ==
    \/ \E adr \in Accessed : Add(adr)
    \/ \E writePolicy \in WritePolicy : RunL1DPrefetcher(writePolicy)
    \/ RunL2Prefetcher

StreamSpec == StreamInit /\ [][StreamNext]_streamVars

------------------------------------------------------------------------------
\* Types, and how many nodes there can be.
StreamTypeOK ==
    /\ list.head \in Nodes \cup {NULL}
    /\ DOMAIN list.nodes \subseteq Nodes
    /\ \A node \in DOMAIN list.nodes : list.nodes[node].value \in Accessed
    /\ listSize \in 0..MaxSize
    /\ ran \in {"none", "L1D", "L2"}
    /\ loads \subseteq [order : Orders, toFetch : 0..(AddressSpace - 1),
                        seqStart : Accessed]
    /\ history \in Seq(Accessed)

\* The list holds the last accesses, in order, as far as it is allowed to
\* grow: no node that add has deleted is still linked, none leaks, size is
\* right, and the way back, which the prefetcher goes, is as good as the way
\* forward.
HoldsLastAccesses ==
    /\ IsList(list)
    /\ Values(list) = history
    /\ ToSet(Chain(list)) = DOMAIN list.nodes
    /\ listSize = Len(history)

\* The accesses at the end of the history that a stream consists of.
Recent == SubSeq(history, Len(history) - SeqThreshold + 1, Len(history))

\* Do the last accesses, each by less than two lines from the one before it,
\* go one way only?
IsStream(order) ==
    /\ Len(history) >= SeqThreshold
    /\ \A i \in 2..SeqThreshold : InOrder(order, Recent[i], Recent[i - 1])

\* The prefetcher finds a stream just when the last SeqThreshold accesses
\* are one and the line it proposes is in the page it began in, however long
\* the list is and wherever its nodes are: the walk reads no access too few,
\* none too many and none from the other end.
FollowsStreams ==
    \A order \in Orders :
        (\E prefetch \in loads : prefetch.order = order)
        <=> /\ ran = "L2" \/ (ran = "L1D" /\ order = "ascending")
            /\ IsStream(order)
            /\ InSamePage(Recent[1], (Last(history) + LineSize) % AddressSpace)

\* An ascending prefetch brings something new from where the program already
\* is: a line that is none of the stream's, in the page of all its accesses.
\* The code looks at the page of the first access only.  (What a descending
\* stream makes it load is the line above the last access.)
AscendsWithinPage ==
    \A prefetch \in loads :
        prefetch.order = "ascending" =>
            \A i \in DOMAIN Recent :
                /\ prefetch.toFetch \div LineSize > Recent[i] \div LineSize
                /\ prefetch.toFetch \div PageSize = Recent[i] \div PageSize

==============================================================================
