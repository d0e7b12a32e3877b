------------------------------ MODULE MCMemTrace ------------------------------
(***************************************************************************)
(* Programs of a few instructions: a main thread next to a worker, which   *)
(* run one instruction both.  The file instr_cost is missing, or has up to *)
(* two lines, or complete lines and then up to two more.                   *)
(***************************************************************************)
EXTENDS MemTrace, TLC

CONSTANTS main, worker, i1, i2, i3

TwoOperands == i1 :> 2 @@ i2 :> 1 @@ i3 :> 1
Categories == i1 :> "LOGICAL" @@ i2 :> "INVALID" @@ i3 :> "NOP"

TwoThreads == main :> <<i1, i2>> @@ worker :> <<i3, i2>>

NoneYet == i1 :> NoThread @@ i2 :> NoThread @@ i3 :> NoThread

Line(name, cost) == [name |-> name, cost |-> cost]

CompleteFile == << Line("INVALID", 8), Line("LOGICAL", 9), Comment,
                   Line("CACHE_HIT", 2), Line("CACHE_MISS", 3) >>

Lines == {Line(name, cost) : name \in {"CACHE_HIT", "CACHE_MISS", "LOGICAL", "unknown"},
                             cost \in {1, NoNumber, NotANumber}}

ShortFiles == SeqOf(Lines, 2)

AllFiles ==
    {NoFile} \cup ShortFiles \cup {CompleteFile \o file : file \in ShortFiles}

==============================================================================
