-------------------------- MODULE MCStridePrefetcher --------------------------
(***************************************************************************)
(* A few instructions that move between a few lines, forwards and back and *)
(* sometimes too far, and compete for a table of one or two entries.       *)
(***************************************************************************)
EXTENDS StridePrefetcher, TLC

\* With lines of 2 bytes, and ints of 12 values: distances of 2, of 4, which is
\* too long, of 6, which is INT_MIN, of 10, which is -2 as an int, and of 12,
\* which is 0.  One line is accessed at two addresses.
SixLines == {0, 1, 2, 4, 6, 8, 12}

\* Distances that fit an int of 16 values.
FourLines == {8, 9, 10, 12, 14}

\* The instructions are interchangeable: no definition names one.
InstructionSymmetry == Permutations(Ips)

==============================================================================
