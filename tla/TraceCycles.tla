----------------------------- MODULE TraceCycles -----------------------------
(***************************************************************************)
(* What memtrace.cpp and v1/memtrace.cpp have in common: how the threads   *)
(* of an analysed program, run under Pin, share the variable cycles and    *)
(* the MissHandler.                                                        *)
(*                                                                         *)
(* Pin calls Instruction once for an instruction, before the first thread  *)
(* runs it, and the routines inserted there each time a thread runs it.    *)
(* It lets one thread at a time into Instruction, and any number of them   *)
(* into the inserted routines.  cycles is a plain size_t, so reading it    *)
(* and writing it back are two steps.                                      *)
(*                                                                         *)
(* A cache answers with any result here (see CacheHierarchy for which).    *)
(***************************************************************************)
EXTENDS InstrCostTable

CONSTANTS Threads,
          Instructions,  \* of the analysed program
          Programs,      \* the instructions each thread runs
          Operands,      \* how many memory references each of them makes
          Category,      \* the category of each of them
          NoThread,
          Translated,    \* the threads Pin had called Instruction in for each
                         \* of them before we look, or NoThread
          CostFiles,     \* what the file instr_cost may be
          Junk           \* what an uninitialized size_t may hold

ASSUME TraceAssumption ==
    /\ Programs \in [Threads -> Seq(Instructions)]
    /\ Operands \in [Instructions -> Nat]
    /\ Category \in [Instructions -> UNION Range(DefaultCategories)]
    /\ CostFiles \subseteq {NoFile} \cup
            Seq({Comment} \cup
                [name : STRING, cost : Nat \cup {NoNumber, NotANumber}])
    /\ NoThread \notin Threads
    /\ Translated \in [Instructions -> Threads \cup {NoThread}]
    /\ Junk \subseteq Nat

VARIABLES pc,            \* where each thread is
          program,       \* what each thread has left to run
          operands,      \* how many operands of its instruction are left
          res,           \* what the cache last answered each thread
          old,           \* the value of cycles each thread last read
          cycles,
          tid,           \* the thread Pin called Instruction in, for each
                         \* instruction, or NoThread when it has not yet
          sent,          \* what the MissHandler was called with
          charged,       \* auxiliary: the sum of all costs looked up
          costFile,      \* what the file instr_cost is
          costTable

costVars == <<costFile, costTable>>

traceVars ==
    <<pc, program, operands, res, old, cycles, tid, sent, charged, costVars>>

\* The results a data load or store can have, PREFETCH_MISS excluded.
Results == {L1HIT, L2HIT, MISS}

TraceInit ==
    /\ pc = [t \in Threads |-> "next"]
    /\ program = Programs
    /\ operands = [t \in Threads |-> 0]
    /\ res = [t \in Threads |-> MISS]
    /\ old = [t \in Threads |-> 0]
    /\ cycles = 0
    /\ tid = Translated
    /\ sent = << >>
    /\ charged = 0
    /\ costFile \in CostFiles

Goto(t, label) == pc' = [pc EXCEPT ![t] = label]

\* Is t about to run an instruction, and is it one Pin knows?
AtInstruction(t) == pc[t] = "next" /\ program[t] # << >>

IsInstrumented(t) == tid[Head(program[t])] # NoThread

\* cycles += cost, by a thread that has read cycles before.
Charge(t, cost) ==
    /\ cycles' = old[t] + cost
    /\ charged' = charged + cost

ReadCycles(t) == old' = [old EXCEPT ![t] = cycles]

\* Instruction reads cycles ...
BeginInstruction(t) ==
    /\ AtInstruction(t)
    /\ ~IsInstrumented(t)
    /\ \A u \in Threads : pc[u] # "charging"
    /\ ReadCycles(t)
    /\ Goto(t, "charging")
    /\ UNCHANGED <<program, operands, res, cycles, tid, sent, charged>>

\* Mutant: the thread is kept in one variable for all instructions.
MutCapturedTid(t) ==
    [i \in Instructions |->
        IF i = Head(program[t]) \/ tid[i] # NoThread THEN t ELSE NoThread]

\* The calls inserted for an instruction pass the thread that runs Instruction.
CapturedTid(t) == [tid EXCEPT ![Head(program[t])] = t]

\* ... and writes it.
EndInstruction(t) ==
    /\ pc[t] = "charging"
    /\ Charge(t, LookupCategory(costTable, Category[Head(program[t])]))
    /\ tid' = CapturedTid(t)
    /\ Goto(t, "next")
    /\ UNCHANGED <<program, operands, res, old, sent>>

\* Mutant: one operand too many.
MutHasOperand(t) == operands[t] >= 0

\* Is there a call left for an operand of the instruction?
HasOperand(t) == operands[t] > 0

\* The instruction of t begins to run.
Run(t, label) ==
    /\ AtInstruction(t)
    /\ IsInstrumented(t)
    /\ operands' = [operands EXCEPT ![t] = Operands[Head(program[t])]]
    /\ Goto(t, label)
    /\ UNCHANGED <<program, res, old, cycles, tid, sent, charged>>

\* All operands of the instruction are done.
Finish(t) ==
    /\ pc[t] = "operands"
    /\ ~HasOperand(t)
    /\ program' = [program EXCEPT ![t] = Tail(@)]
    /\ Goto(t, "next")
    /\ UNCHANGED <<operands, res, old, cycles, tid, sent, charged>>

\* The cache answers; then cycles is read ...
Reference(t) ==
    /\ res' \in {[res EXCEPT ![t] = r] : r \in Results}
    /\ operands' = [operands EXCEPT ![t] = @ - 1]
    /\ ReadCycles(t)
    /\ Goto(t, "adding")
    /\ UNCHANGED <<program, cycles, tid, sent, charged>>

\* ... and written.  A hit ends the call, which leaves by done.
AddCycles(t, done) ==
    /\ pc[t] = "adding"
    /\ Charge(t, LookupResult(costTable, res[t]))
    /\ Goto(t, IF res[t] = MISS THEN "miss" ELSE done)
    /\ UNCHANGED <<program, operands, res, old, tid, sent>>

\* mh.sendComp(cycles)
SendComp(t) ==
    /\ pc[t] = "miss"
    /\ sent' = Append(sent, [call |-> "sendComp", thread |-> t, cycles |-> cycles])
    /\ Goto(t, "sent")
    /\ UNCHANGED <<program, operands, res, old, cycles, tid, charged>>

\* Mutant: cycles is not reset.
MutResetCycles(t) ==
    /\ pc[t] = "sent"
    /\ Goto(t, "reset")
    /\ UNCHANGED <<program, operands, res, old, cycles, tid, sent, charged>>

\* cycles = 0
ResetCycles(t) ==
    /\ pc[t] = "sent"
    /\ cycles' = 0
    /\ Goto(t, "reset")
    /\ UNCHANGED <<program, operands, res, old, tid, sent, charged>>

\* mh.sendRW(...), the last thing the call does before it leaves by done.
SendRW(t, done) ==
    /\ pc[t] = "reset"
    /\ sent' = Append(sent, [call |-> "sendRW", thread |-> t, cycles |-> 0,
                             ins |-> Head(program[t]), tid |-> tid[Head(program[t])]])
    /\ Goto(t, done)
    /\ UNCHANGED <<program, operands, res, old, cycles, tid, charged>>

------------------------------------------------------------------------------
\* The sum of the cycles the MissHandler was sent.
SentCycles ==
    FoldSeq(LAMBDA message, sum : message.cycles + sum, 0, sent)

\* No thread is between a read of cycles and what it does with the value.
Quiescent == \A t \in Threads : pc[t] \notin {"charging", "adding", "sent"}

\* No cycle is lost or sent twice: what was charged has been sent, or is in
\* cycles.  The MissHandler receives the "computation cycles in between" the
\* misses (memtrace.cpp:30).
CyclesConserved == Quiescent => SentCycles + cycles = charged

\* The MissHandler receives, for each miss, the computation before it and then
\* the reference, from the same thread, with nothing in between.
MissesArePaired ==
    \A i \in DOMAIN sent :
        IF i % 2 = 1
        THEN sent[i].call = "sendComp"
        ELSE sent[i].call = "sendRW" /\ sent[i].thread = sent[i - 1].thread

\* sendRW names the thread that refers to memory (its parameter tid, "thread id
\* in which memory reference occured", memtrace.cpp:68), as long as no other
\* thread runs the same instruction.  It is the thread Pin called Instruction
\* in, and for a shared instruction need not be the one that runs it.
UnsharedMissesNameTheirThread ==
    \A i \in DOMAIN sent :
        LET message == sent[i]
        IN /\ message.call = "sendRW"
           /\ Translated[message.ins] = NoThread
           /\ \A t \in Threads \ {message.thread} :
                message.ins \notin Range(Programs[t])
           => message.tid = message.thread

\* When every line of the file has a number, the costs looked up are those
\* of the last line that names the category, CACHE_HIT or CACHE_MISS, and 0
\* where no line does; a line that names no category speaks of INVALID.
CostsAreTheLastListed ==
    LET lines == IF costFile = NoFile THEN {}
                 ELSE {n \in DOMAIN costFile : costFile[n] # Comment}
        Key(n) == IF costFile[n].name \in {"CACHE_HIT", "CACHE_MISS"}
                  THEN costFile[n].name ELSE CategoryOf(costFile[n].name)
        Listed(name) == {n \in lines : Key(n) = name}
        LastCost(name) ==
            IF Listed(name) = {} THEN 0 ELSE costFile[Max(Listed(name))].cost
    IN costFile # NoFile /\ (\A n \in lines : costFile[n].cost \in Nat) =>
        /\ LookupResult(costTable, MISS) = LastCost("CACHE_MISS")
        /\ \A r \in {L1HIT, L2HIT} :
            LookupResult(costTable, r) = LastCost("CACHE_HIT")
        /\ \A i \in Instructions :
            LookupCategory(costTable, Category[i]) = LastCost(Category[i])

\* Types of the common state.
TraceTypeOK ==
    /\ DOMAIN pc = Threads
    /\ \A t \in Threads : program[t] \in Seq(Instructions)
    /\ operands \in [Threads -> Nat]
    /\ res \in [Threads -> Results]
    /\ old \in [Threads -> 0..charged]
    /\ cycles \in Nat
    /\ charged \in Nat
    /\ tid \in [Instructions -> Threads \cup {NoThread}]
    /\ {costTable.hit, costTable.miss} \cup Range(costTable.costs) \subseteq Nat

==============================================================================
