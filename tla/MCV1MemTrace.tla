----------------------------- MODULE MCV1MemTrace -----------------------------
(***************************************************************************)
(* Two threads that run the same instruction, which is already             *)
(* instrumented, and then one of their own.  The first has two operands,   *)
(* so that each thread can be in RecordMemRef while the other one is, or   *)
(* is in Instruction.                                                      *)
(***************************************************************************)
EXTENDS V1MemTrace, TLC

CONSTANTS t1, t2, i1, i2, i3

TwoOperands == i1 :> 2 @@ i2 :> 1 @@ i3 :> 1
Categories == i1 :> "DATAXFER" @@ i2 :> "POP" @@ i3 :> "POP"
TwoThreads == t1 :> <<i1, i2>> @@ t2 :> <<i1, i3>>
FirstRan == i1 :> t1 @@ i2 :> NoThread @@ i3 :> NoThread

==============================================================================
