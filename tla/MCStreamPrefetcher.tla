-------------------------- MODULE MCStreamPrefetcher --------------------------
(***************************************************************************)
(* A history of four accesses, of which three make a stream, in an address *)
(* space of two pages of four lines of two bytes.  The addresses lie on    *)
(* both sides of the end of the first page and at the end of the second.   *)
(***************************************************************************)
EXTENDS StreamPrefetcher

MCAddresses == {4, 5, 6, 8, 10, 13, 15}

\* The code never compares two nodes otherwise than for being the same.
NodeSymmetry == Permutations(Nodes)

==============================================================================
