------------------------- MODULE MCHierarchyBounded --------------------------
(***************************************************************************)
(* The hierarchies of MCHierarchy, for at most MaxCalls requests: the runs *)
(* in which the counters count.                                            *)
(***************************************************************************)
EXTENDS MCHierarchy

\* The bound on the number of requests in the runs that count them.
CONSTANT MaxCalls

VARIABLE calls

BoundedInit == Init /\ calls = 0

BoundedNext ==
    \/ calls < MaxCalls /\ calls' = calls + 1 /\ Next
    \/ calls = MaxCalls /\ UNCHANGED <<vars, calls>>

BoundedSpec == BoundedInit /\ [][BoundedNext]_<<vars, calls>>

==============================================================================
