------------------------------- MODULE MemTrace -------------------------------
(***************************************************************************)
(* src/memtrace.cpp: recordInstruction and recordMemRef take no lock; each *)
(* thread has its own pointers to the caches, and only the main thread     *)
(* sets them (initializeThreadLocals).  Another thread dereferences null   *)
(* in the first routine it runs, and the process ends.                     *)
(***************************************************************************)
EXTENDS TraceCycles

CONSTANT MainThread

ASSUME MainThreadAssumption == MainThread \in Threads

VARIABLES defined,  \* FALSE once a null pointer was dereferenced
          raced     \* auxiliary: have two threads been updating cycles at once?

vars == <<traceVars, defined, raced>>

Init ==
    /\ TraceInit
    /\ \E junk \in Junk : costTable = NewTable(costFile, junk)
    /\ defined = TRUE
    /\ raced = FALSE

\* Mutant: all threads use the pointers of the main thread.
MutHasCaches(t) == TRUE

\* The thread-local pointers a thread finds.
HasCaches(t) == t = MainThread

Instrument(t) ==
    /\ BeginInstruction(t) \/ EndInstruction(t)
    /\ UNCHANGED defined

\* recordInstruction; its miss is not reported.
RecordInstruction(t) ==
    /\ HasCaches(t)
    /\ Run(t, "operands")
    /\ UNCHANGED defined

RecordWithoutCaches(t) ==
    /\ ~HasCaches(t)
    /\ AtInstruction(t)
    /\ IsInstrumented(t)
    /\ defined' = FALSE
    /\ UNCHANGED <<pc, program, operands, res, old, cycles, tid, sent, charged>>

\* recordMemRef, from the call of the cache to its return
RecordMemRef(t) ==
    /\ \/ pc[t] = "operands" /\ HasOperand(t) /\ Reference(t)
       \/ AddCycles(t, "operands")
       \/ SendComp(t)
       \/ ResetCycles(t)
       \/ SendRW(t, "operands")
    /\ UNCHANGED defined

Return(t) == Finish(t) /\ UNCHANGED defined

Step(t) ==
    /\ \/ Instrument(t)
       \/ RecordInstruction(t)
       \/ RecordWithoutCaches(t)
       \/ RecordMemRef(t)
       \/ Return(t)
    /\ UNCHANGED costVars

\* A thread in Instruction has read cycles and not written it yet, while
\* another has read it in recordMemRef, to add to it or to send it.
Racing ==
    \E t, u \in Threads : pc[t] = "charging" /\ pc[u] \in {"adding", "sent"}

Done == \A t \in Threads : program[t] = << >>

Next ==
    \/ /\ defined
       /\ \E t \in Threads : Step(t)
       /\ raced' = (raced \/ Racing')
    \/ (Done \/ ~defined) /\ UNCHANGED vars

Spec == Init /\ [][Next]_vars

------------------------------------------------------------------------------
\* Types, and where a thread can be.
TypeOK ==
    /\ TraceTypeOK
    /\ \A t \in Threads :
        pc[t] \in {"next", "charging", "operands", "adding", "miss", "sent", "reset"}
    /\ defined \in BOOLEAN
    /\ raced \in BOOLEAN

\* What recordMemRef does with cycles, without a lock, is undone by no other
\* recordMemRef: no cycle is lost or sent twice as long as no thread is in
\* Instruction (memtrace.cpp:168) between the read of cycles and the write of
\* recordMemRef (memtrace.cpp:110, :117-118).
OnlyRacesLoseCycles == ~raced => CyclesConserved

==============================================================================
