--------------------------- MODULE MCLinkedAccessor ---------------------------
(***************************************************************************)
(* Two sets of three lines of two bytes, so that a node can be the only    *)
(* one, the first, in the middle or the last of its list.  Four lines      *)
(* compete for set 0, two addresses share the line of tag 0, and set 1     *)
(* sees one address.                                                       *)
(***************************************************************************)
EXTENDS LinkedAccessor

\* Accessor(CacheConfig(12, WRITE_BACK, 1, 2, 3)), worked out.
MCConfig ==
    [numberOfSets |-> 2, setSize |-> 3, writePolicy |-> WRITE_BACK,
     cacheLevel |-> 1, cacheLineSize |-> 2, locTagRange |-> 2]

ASSUME MCConfigAssumption ==
    MCConfig = Accessor(CacheConfig(12, WRITE_BACK, 1, 2, 3))

MCAddresses == {0, 1, 4, 8, 12, 2}

\* The code never compares two nodes otherwise than for being the same.
NodeSymmetry == Permutations(Nodes)

==============================================================================
