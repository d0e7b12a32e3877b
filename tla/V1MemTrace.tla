------------------------------ MODULE V1MemTrace ------------------------------
(***************************************************************************)
(* v1/memtrace.cpp: one set of caches for all threads.  RecordMemRef holds *)
(* a mutex from its first statement to its last; Instruction does not.     *)
(* l1cache prefetches, and may throw an exception on an access (see        *)
(* V1Cache); nothing unlocks the mutex then.                               *)
(***************************************************************************)
EXTENDS TraceCycles

VARIABLE mutex  \* the thread that holds it, or NoThread

vars == <<traceVars, mutex>>

\* v1/instr_cost.hpp has a copy of the table, which differs in a message only.
V1DefaultTable == DefaultTable
V1TableFromFile(file, junk) == TableFromFile(file, junk)
V1NewTable(file, junk) ==
    IF file = NoFile THEN V1DefaultTable ELSE V1TableFromFile(file, junk)

Init ==
    /\ TraceInit
    /\ \E junk \in Junk : costTable = V1NewTable(costFile, junk)
    /\ mutex = NoThread

Instrument(t) ==
    /\ BeginInstruction(t) \/ EndInstruction(t)
    /\ UNCHANGED mutex

\* Nothing was inserted before an instruction but the calls for its operands.
Execute(t) == Run(t, "operands") /\ UNCHANGED mutex

\* Mutant: the mutex does not exclude.
MutCanLock == TRUE

CanLock == mutex = NoThread

\* PIN_MutexLock
Lock(t) ==
    /\ pc[t] = "operands"
    /\ HasOperand(t)
    /\ CanLock
    /\ mutex' = t
    /\ Goto(t, "locked")
    /\ UNCHANGED <<program, operands, res, old, cycles, tid, sent, charged>>

\* Mutant: a hit returns without releasing the mutex.
MutLeaveAfterHit == "operands"

\* Where a hit goes on.
LeaveAfterHit == "unlock"

\* InvalidEvacuationReqException leaves l1cache.load and RecordMemRef, and
\* nobody catches it: the thread has run its last step, and holds the mutex.
Throw(t) ==
    /\ pc[t] = "locked"
    /\ Goto(t, "thrown")
    /\ UNCHANGED <<program, operands, res, old, cycles, tid, sent, charged>>

\* RecordMemRef between lock and unlock
RecordMemRef(t) ==
    /\ \/ pc[t] = "locked" /\ Reference(t)
       \/ Throw(t)
       \/ AddCycles(t, LeaveAfterHit)
       \/ SendComp(t)
       \/ ResetCycles(t)
       \/ SendRW(t, "unlock")
    /\ UNCHANGED mutex

\* PIN_MutexUnlock
Unlock(t) ==
    /\ pc[t] = "unlock"
    /\ mutex' = NoThread
    /\ Goto(t, "operands")
    /\ UNCHANGED <<program, operands, res, old, cycles, tid, sent, charged>>

Return(t) == Finish(t) /\ UNCHANGED mutex

Step(t) ==
    /\ \/ Instrument(t)
       \/ Execute(t)
       \/ Lock(t)
       \/ RecordMemRef(t)
       \/ Unlock(t)
       \/ Return(t)
    /\ UNCHANGED costVars

\* When no thread has a step left, the program has ended.
Next == \E t \in Threads : Step(t)

\* The system runs every thread that is not waiting for the mutex.
Fairness == \A t \in Threads : WF_vars(Step(t))

Spec == Init /\ [][Next]_vars /\ Fairness

------------------------------------------------------------------------------
\* Types, where a thread can be, and which thread holds the mutex there.
TypeOK ==
    /\ TraceTypeOK
    /\ \A t \in Threads :
        /\ pc[t] \in {"next", "charging", "operands", "locked", "adding", "miss",
                      "sent", "reset", "unlock", "thrown"}
        /\ pc[t] \in {"locked", "adding", "miss", "sent", "reset", "unlock", "thrown"}
           <=> mutex = t
    /\ mutex \in Threads \cup {NoThread}

\* While Pin has no new instruction to call Instruction for, the mutex is all
\* it takes: whichever threads refer to memory, no cycle is lost or sent twice.
MutexKeepsCycles == tid = Translated => CyclesConserved

\* Every thread gets through its program, unless the cache throws in one of
\* them: on every other way through RecordMemRef the mutex is given back.
ThreadsFinish ==
    \A t \in Threads :
        <>(program[t] = << >> \/ \E u \in Threads : pc[u] = "thrown")

==============================================================================
