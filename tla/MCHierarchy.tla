----------------------------- MODULE MCHierarchy -----------------------------
(***************************************************************************)
(* Small hierarchies of lines of two bytes.                                *)
(*                                                                         *)
(* One-line caches: three lines compete for each of them, so every request *)
(* that misses evicts, and all reachable states are explored.              *)
(*                                                                         *)
(* Two-line caches: L1D has two sets, L1I one line, and L2 one set of two  *)
(* lines.  Lines 0 and 4 compete for a set of L1D, and all the lines for   *)
(* L2; address 5 is in line 4.  All requests up to a bound are explored.   *)
(***************************************************************************)
EXTENDS CacheHierarchy

L1DWriteBack == Accessor(CacheConfig(2, WRITE_BACK, 1, 2, 1))
L1DWriteThrough == Accessor(CacheConfig(2, WRITE_THROUGH, 1, 2, 1))
L1IWriteBack == Accessor(CacheConfig(2, WRITE_BACK, 1, 2, 1))
L2WriteBack == Accessor(CacheConfig(2, WRITE_BACK, 2, 2, 1))
L2WriteThrough == Accessor(CacheConfig(2, WRITE_THROUGH, 2, 2, 1))

L1DTwoSets == Accessor(CacheConfig(4, WRITE_BACK, 1, 2, 1))
L2TwoWays == Accessor(CacheConfig(4, WRITE_BACK, 2, 2, 2))

Of(l1dConfig, l2Config) ==
    [l1d |-> l1dConfig, l1i |-> L1IWriteBack, l2 |-> l2Config]

OneLineCaches ==
    {Of(L1DWriteBack, L2WriteBack),
     Of(L1DWriteThrough, L2WriteThrough)}
WriteBackCaches == {Of(L1DWriteBack, L2WriteBack)}
TwoLineCaches == {Of(L1DTwoSets, L2TwoWays)}

TwoLines == {0, 2}
ThreeLines == {0, 2, 4}
FourAddresses == {0, 2, 4, 5}
TwoValues == {0, 1}

==============================================================================
