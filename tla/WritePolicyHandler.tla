-------------------------- MODULE WritePolicyHandler --------------------------
(***************************************************************************)
(* The decisions of handleWritePolicy, the method that L1DCache, L1ICache  *)
(* and L2Cache each have with the same body: which line goes to the next   *)
(* level, and what becomes of its dirty flag.  out is what                 *)
(* SetAccessor::write returned: no line, a line of the table, or a line    *)
(* that was evacuated and that handleWritePolicy deletes.                  *)
(***************************************************************************)
EXTENDS SetAccessor

\* Mutant: an evicted dirty line is not stored.
MutFlushedNow(c, out) ==
    {line \in out : /\ line.invalid
                    /\ c.writePolicy = WRITE_THROUGH
                    /\ ~line.evacuated}

\* Mutant: only an evicted line is stored, whatever the policy.
MutFlushedOnEviction(c, out) == {line \in out : line.invalid /\ line.evacuated}

\* The line of out, if any, that nextLevel->store is called with.
Flushed(c, out) ==
    {line \in out :
        /\ line.invalid
        /\ c.writePolicy = WRITE_THROUGH \/ line.evacuated}

\* The only element of out.
TheLine(out) == CHOOSE line \in out : TRUE

\* The last line of a set, where write left the line it returned.
ValidateLast(set) == [set EXCEPT ![Len(set)] = SetEntryValid(@)]

\* SET_ENTRY_VALID on a written-through line that is still in the table.
Settled(c, table, out) ==
    IF \E line \in Flushed(c, out) : ~line.evacuated
    THEN [table EXCEPT ![LocTag(c, TheLine(out).tag)] = ValidateLast(@)]
    ELSE table

==============================================================================
