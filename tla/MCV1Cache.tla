------------------------------ MODULE MCV1Cache ------------------------------
(***************************************************************************)
(* Single caches: set-associative ones of two sets of two lines and fully  *)
(* associative ones of two lines of two bytes, with and without            *)
(* prefetching, in a page of six lines.  Lines 0, 4 and 8 compete for a    *)
(* set.                                                                    *)
(*                                                                         *)
(* Two levels: one line over a set of one or two, so that the first level  *)
(* evicts at every miss.  The ones that prefetch write back, as those of   *)
(* memtrace.cpp do.                                                        *)
(***************************************************************************)
EXTENDS V1Cache

Assoc == {"SET_ASSOC", "FULL_ASSOC"}

LevelConfig(assoc, numberOfSets, setSize, writePolicy) ==
    [assoc |-> assoc, numberOfSets |-> numberOfSets, setSize |-> setSize,
     writePolicy |-> writePolicy]

OneLevel(assoc, writePolicy, trigger) ==
    [levels |-> <<LevelConfig(assoc, IF assoc = "SET_ASSOC" THEN 2 ELSE 1, 2,
                              writePolicy)>>,
     prefetchTrigger |-> trigger]

\* One line over a set of lines.
TwoLevels(assoc, policyAbove, policyBelow, lines, trigger) ==
    [levels |-> <<LevelConfig(assoc, 1, 1, policyAbove),
                  LevelConfig(assoc, 1, lines, policyBelow)>>,
     prefetchTrigger |-> trigger]

SingleCaches ==
    {OneLevel(assoc, writePolicy, trigger) :
        assoc \in Assoc, writePolicy \in WritePolicy, trigger \in BOOLEAN}

Hierarchies ==
    {TwoLevels(assoc, policyAbove, WRITE_BACK, 2, FALSE) :
        assoc \in Assoc, policyAbove \in WritePolicy}
    \cup {TwoLevels(assoc, WRITE_BACK, WRITE_THROUGH, 1, FALSE) : assoc \in Assoc}
    \cup {TwoLevels(assoc, WRITE_BACK, WRITE_BACK, 1, TRUE) : assoc \in Assoc}

AllConfigs == SingleCaches \cup Hierarchies

\* Here only the order list can go wrong by itself.
WithoutPrefetching == {c \in SingleCaches : ~c.prefetchTrigger}

FourLines == {0, 2, 4, 8}

==============================================================================
