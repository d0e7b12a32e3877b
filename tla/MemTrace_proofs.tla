--------------------------- MODULE MemTrace_proofs ---------------------------
(***************************************************************************)
(* src/memtrace.cpp, for any threads, programs and cost files: what a      *)
(* thread that is not the main one can still do, and what the MissHandler  *)
(* receives.                                                               *)
(***************************************************************************)
EXTENDS MemTrace, TraceCycles_proofs

\* Only the main thread gets past the first routine of an instruction; the
\* others call Instruction, at most.
MainRefers ==
    /\ \A t \in Threads : pc[t] \notin {"next", "charging"} => t = MainThread
    /\ \A t \in Threads : pc[t] \notin {"locked", "unlock", "thrown"}
    /\ \A t \in Threads \ {MainThread} : program[t] = Programs[t]

IInv ==
    /\ WellTyped
    /\ MainRefers
    /\ Paired
    /\ CostsAreTheLastListed
    /\ defined \in BOOLEAN
    /\ raced \in BOOLEAN

\* What a step of a thread is: one that both versions make, and in the cache
\* routines only by the main thread, or the end of the process.
LEMMA StepProperties ==
    ASSUME NEW t \in Threads, Step(t)
    PROVE  /\ UNCHANGED costVars
           /\ \/ /\ TraceStep(t, "operands", "operands")
                 /\ UNCHANGED defined
                 /\ Run(t, "operands") => t = MainThread
              \/ /\ UNCHANGED <<pc, program, operands, res, old, cycles, tid, sent, charged>>
                 /\ defined' = FALSE
<1>1. UNCHANGED costVars
  BY DEF Step
<1>2. CASE Instrument(t)
  <2>1. ~Run(t, "operands")
    <3>1. BeginInstruction(t) => ~IsInstrumented(t)
      BY DEF BeginInstruction
    <3>2. EndInstruction(t) => pc[t] = "charging"
      BY DEF EndInstruction
    <3> QED
      BY <1>2, <3>1, <3>2 DEF Instrument, Run, AtInstruction
  <2> QED
    BY <1>1, <1>2, <2>1 DEF Instrument, TraceStep
<1>3. CASE RecordInstruction(t)
  BY <1>1, <1>3 DEF RecordInstruction, HasCaches, TraceStep
<1>4. CASE RecordWithoutCaches(t)
  BY <1>1, <1>4 DEF RecordWithoutCaches
<1>5. CASE RecordMemRef(t)
  <2>1. pc[t] # "next"
    BY <1>5 DEF RecordMemRef, AddCycles, SendComp, ResetCycles, SendRW
  <2> QED
    BY <1>1, <1>5, <2>1 DEF RecordMemRef, TraceStep, Run, AtInstruction
<1>6. CASE Return(t)
  <2>1. pc[t] # "next"
    BY <1>6 DEF Return, Finish
  <2> QED
    BY <1>1, <1>6, <2>1 DEF Return, TraceStep, Run, AtInstruction
<1> QED
  BY <1>2, <1>3, <1>4, <1>5, <1>6 DEF Step

LEMMA InitIInv == Init => IInv
<1> SUFFICES ASSUME Init PROVE IInv
  OBVIOUS
<1>1. TraceInit /\ defined = TRUE /\ raced = FALSE
  BY DEF Init
<1>2. costTable \in CostTables /\ CostsAreTheLastListed
  <2>1. PICK junk \in Junk : costTable = NewTable(costFile, junk)
    BY DEF Init
  <2>2. costFile \in CostFiles
    BY <1>1 DEF TraceInit
  <2> QED
    BY <2>1, <2>2, InitialCosts
<1>3. WellTyped /\ Paired
  BY <1>1, <1>2, InitialTypes, InitialPairs
<1>4. MainRefers
  BY <1>1 DEF TraceInit, MainRefers
<1> QED
  BY <1>1, <1>2, <1>3, <1>4 DEF IInv

\* A thread that refers to memory is alone in what it does there.
LEMMA MainIsAlone ==
    ASSUME MainRefers, NEW t \in Threads, pc[t] \notin {"next", "charging"}
    PROVE  Alone(t, Labels \ {"next", "charging"})
BY DEF MainRefers, Alone

LEMMA TraceStepKeepsMain ==
    ASSUME WellTyped, MainRefers, NEW t \in Threads,
           TraceStep(t, "operands", "operands"), Run(t, "operands") => t = MainThread
    PROVE  MainRefers'
<1>1. /\ pc \in [Threads -> Labels]
      /\ program \in [Threads -> Seq(Instructions)]
  BY DEF WellTyped, Types
<1>2. ASSUME NEW label \in Labels \ {"locked", "unlock", "thrown"}, pc' = [pc EXCEPT ![t] = label],
             label \in {"next", "charging"} \/ t = MainThread,
             \/ program' = program
             \/ t = MainThread /\ program' = [program EXCEPT ![t] = Tail(@)]
      PROVE  MainRefers'
  BY <1>1, <1>2 DEF MainRefers
<1>3. pc[t] \notin {"next", "charging"} => t = MainThread
  BY DEF MainRefers
<1>4. CASE BeginInstruction(t)
  <2>1. pc' = [pc EXCEPT ![t] = "charging"] /\ program' = program
    BY <1>4 DEF BeginInstruction, Goto
  <2> QED
    BY <1>2, <2>1 DEF Labels
<1>5. CASE EndInstruction(t)
  <2>1. pc' = [pc EXCEPT ![t] = "next"] /\ program' = program
    BY <1>5 DEF EndInstruction, Goto
  <2> QED
    BY <1>2, <2>1 DEF Labels
<1>6. CASE Run(t, "operands")
  <2>1. pc' = [pc EXCEPT ![t] = "operands"] /\ program' = program
    BY <1>6 DEF Run, Goto
  <2> QED
    BY <1>2, <1>6, <2>1 DEF Labels
<1>7. CASE pc[t] \in {"operands", "locked"} /\ Reference(t)
  <2>1. pc' = [pc EXCEPT ![t] = "adding"] /\ program' = program
    BY <1>7 DEF Reference, Goto
  <2> QED
    BY <1>2, <1>3, <1>7, <2>1 DEF Labels
<1>8. CASE AddCycles(t, "operands")
  <2> DEFINE label == IF res[t] = MISS THEN "miss" ELSE "operands"
  <2>1. pc' = [pc EXCEPT ![t] = label] /\ program' = program /\ pc[t] = "adding"
    BY <1>8 DEF AddCycles, Goto
  <2>2. label \in Labels \ {"locked", "unlock", "thrown"}
    BY DEF Labels
  <2> HIDE DEF label
  <2> QED
    BY <1>2, <1>3, <2>1, <2>2
<1>9. CASE SendComp(t) \/ ResetCycles(t) \/ SendRW(t, "operands")
  <2>1. /\ pc[t] \in {"miss", "sent", "reset"}
        /\ program' = program
        /\ \E label \in {"sent", "reset", "operands"} : pc' = [pc EXCEPT ![t] = label]
    BY <1>9 DEF SendComp, ResetCycles, SendRW, Goto
  <2> QED
    BY <1>2, <1>3, <2>1 DEF Labels
<1>10. CASE Finish(t)
  <2>1. /\ pc' = [pc EXCEPT ![t] = "next"]
        /\ program' = [program EXCEPT ![t] = Tail(@)]
        /\ pc[t] = "operands"
    BY <1>10 DEF Finish, Goto
  <2> QED
    BY <1>2, <1>3, <2>1 DEF Labels
<1> QED
  BY <1>4, <1>5, <1>6, <1>7, <1>8, <1>9, <1>10 DEF TraceStep

LEMMA Stutter ==
    ASSUME UNCHANGED <<pc, program, operands, res, old, cycles, tid, sent, charged>>,
           UNCHANGED costVars, WellTyped, MainRefers, Paired
    PROVE  WellTyped' /\ MainRefers' /\ Paired'
<1>1. WellTyped'
  BY DEF WellTyped, Types, Bounded, HaveInstructions, costVars
<1>2. MainRefers'
  BY DEF MainRefers
<1>3. Paired'
  BY DEF Paired, MissesArePaired, InMiss
<1> QED
  BY <1>1, <1>2, <1>3

LEMMA CostsStay ==
    ASSUME CostsAreTheLastListed, UNCHANGED costVars
    PROVE  CostsAreTheLastListed'
<1>1. costFile' = costFile /\ costTable' = costTable
  BY DEF costVars
<1> QED
  BY <1>1 DEF CostsAreTheLastListed

LEMMA NextIInv == IInv /\ [Next]_vars => IInv'
<1> SUFFICES ASSUME IInv, [Next]_vars PROVE IInv'
  OBVIOUS
<1> USE DEF IInv
<1>1. ASSUME NEW t \in Threads, Step(t), raced' \in BOOLEAN
      PROVE  IInv'
  <2>1. CostsAreTheLastListed'
    BY <1>1, StepProperties, CostsStay
  <2>2. ASSUME TraceStep(t, "operands", "operands"), UNCHANGED defined,
               Run(t, "operands") => t = MainThread
        PROVE  IInv'
    <3>1. "operands" \in Labels
      BY DEF Labels
    <3>2. WellTyped'
      BY <1>1, <2>2, <3>1, StepProperties, StepKeepsTypes
    <3>3. MainRefers'
      BY <2>2, TraceStepKeepsMain
    <3>4. pc[t] \in {"miss", "reset"} => Alone(t, {"sent", "reset"})
      BY MainIsAlone DEF Alone, Labels
    <3>5. Paired'
      BY <2>2, <3>1, <3>4, StepKeepsPairs
    <3> QED
      BY <1>1, <2>1, <2>2, <3>2, <3>3, <3>5
  <2>3. ASSUME UNCHANGED <<pc, program, operands, res, old, cycles, tid, sent, charged>>,
               defined' = FALSE
        PROVE  IInv'
    BY <1>1, <2>1, <2>3, StepProperties, Stutter
  <2> QED
    BY <1>1, <2>2, <2>3, StepProperties
<1>2. CASE UNCHANGED vars
  <2>1. /\ UNCHANGED <<pc, program, operands, res, old, cycles, tid, sent, charged>>
        /\ UNCHANGED costVars
        /\ UNCHANGED <<defined, raced>>
    BY <1>2 DEF vars, traceVars
  <2> QED
    BY <2>1, Stutter, CostsStay
<1> QED
  BY <1>1, <1>2 DEF Next, Racing

LEMMA SpecIInv == Spec => []IInv
<1> QED
  BY InitIInv, NextIInv, PTL DEF Spec

------------------------------------------------------------------------------
(* The cycles: other threads than the main one spoil them when they race.  *)

\* Pin lets one thread at a time into Instruction.
OneCharging ==
    \A t, u \in Threads : pc[t] = "charging" /\ pc[u] = "charging" => t = u

\* As long as no thread has raced another, the cycles are all there.
RaceInv == ~raced => ~Racing /\ Balanced({"adding", "charging"})

CyclesInv == OneCharging /\ RaceInv

LEMMA InitCycles == Init => CyclesInv
<1> SUFFICES ASSUME Init PROVE CyclesInv
  OBVIOUS
<1>1. TraceInit
  BY DEF Init
<1>2. Balanced({"adding", "charging"})
  BY <1>1, InitialBalance
<1>3. \A t \in Threads : pc[t] = "next"
  BY <1>1 DEF TraceInit
<1> QED
  BY <1>2, <1>3 DEF CyclesInv, OneCharging, RaceInv, Racing

LEMMA StepKeepsOneCharging ==
    ASSUME WellTyped, OneCharging, NEW t \in Threads,
           TraceStep(t, "operands", "operands")
    PROVE  /\ OneCharging'
           /\ \A u \in Threads \ {t} : pc'[u] = pc[u]
<1>1. pc \in [Threads -> Labels]
  BY DEF WellTyped, Types
<1>2. CASE BeginInstruction(t)
  <2>1. pc' = [pc EXCEPT ![t] = "charging"] /\ \A u \in Threads : pc[u] # "charging"
    BY <1>2 DEF BeginInstruction, Goto
  <2> QED
    BY <1>1, <2>1 DEF OneCharging
<1>3. CASE ~BeginInstruction(t)
  <2>1. \E label : label # "charging" /\ pc' = [pc EXCEPT ![t] = label]
    BY <1>3 DEF TraceStep, EndInstruction, Run, Reference, AddCycles, SendComp,
                ResetCycles, SendRW, Finish, Goto
  <2> QED
    BY <1>1, <2>1 DEF OneCharging
<1> QED
  BY <1>2, <1>3

\* What a thread in recordMemRef or in Instruction has read of cycles, no
\* other thread changes, unless they race.
LEMMA StepKeepsCycles ==
    ASSUME IInv, OneCharging, ~Racing, ~Racing', Balanced({"adding", "charging"}),
           NEW t \in Threads, TraceStep(t, "operands", "operands")
    PROVE  Balanced({"adding", "charging"})'
<1> DEFINE labels == {"adding", "charging"}
<1>1. \A u \in Threads : pc[u] \in {"adding", "miss", "sent"} => u = MainThread
  BY DEF IInv, MainRefers
<1>2. pc[t] \in {"adding", "sent"} => Alone(t, labels \cup {"sent"})
  BY <1>1 DEF Racing, Alone
<1>3. pc[t] = "miss" => Alone(t, labels \cup {"sent"})
  <2>1. SUFFICES ASSUME pc[t] = "miss" PROVE Alone(t, labels \cup {"sent"})
    OBVIOUS
  <2>2. SendComp(t)
    BY <2>1 DEF TraceStep, BeginInstruction, EndInstruction, Run, AtInstruction,
                AddCycles, ResetCycles, SendRW, Finish
  <2>3. pc'[t] = "sent"
    BY <2>2 DEF SendComp, Goto, IInv, WellTyped, Types
  <2>4. \A u \in Threads \ {t} : pc'[u] = pc[u]
    BY StepKeepsOneCharging DEF IInv
  <2>5. \A u \in Threads \ {t} : pc[u] # "charging"
    BY <2>3, <2>4 DEF Racing
  <2> QED
    BY <1>1, <2>1, <2>5 DEF Alone
<1>4. pc[t] = "charging" => "charging" \in labels /\ Alone(t, labels \cup {"sent"})
  BY DEF OneCharging, Racing, Alone
<1>5. labels \in ReadLabels /\ Balanced(labels)
  BY DEF ReadLabels
<1> HIDE DEF labels
<1>6. Balanced(labels)'
  BY <1>2, <1>3, <1>4, <1>5, StepKeepsBalance DEF IInv
<1> QED
  BY <1>6 DEF labels

LEMMA NextCycles == IInv /\ CyclesInv /\ [Next]_vars => CyclesInv'
<1> SUFFICES ASSUME IInv, CyclesInv, [Next]_vars PROVE CyclesInv'
  OBVIOUS
<1> USE DEF CyclesInv
<1>1. ASSUME UNCHANGED <<pc, old, cycles, sent, charged>>, raced' \in {raced, raced \/ Racing'}
      PROVE  CyclesInv'
  <2>1. OneCharging'
    BY <1>1 DEF OneCharging
  <2>2. (Racing' <=> Racing) /\ (raced' => raced \/ Racing)
    BY <1>1 DEF Racing
  <2>3. ~raced' => Balanced({"adding", "charging"})'
    BY <1>1 DEF RaceInv, Balanced, Accounted, Resetting, Fresh, IInv
  <2> QED
    BY <1>1, <2>1, <2>2, <2>3 DEF RaceInv, IInv
<1>2. ASSUME NEW t \in Threads, Step(t), raced' = (raced \/ Racing')
      PROVE  CyclesInv'
  <2>1. CASE TraceStep(t, "operands", "operands")
    <3>1. OneCharging'
      BY <2>1, StepKeepsOneCharging DEF IInv
    <3>2. ~raced' => ~raced /\ ~Racing'
      BY <1>2
    <3>3. ~raced' => Balanced({"adding", "charging"})'
      BY <2>1, <3>2, StepKeepsCycles DEF RaceInv
    <3> QED
      BY <3>1, <3>2, <3>3 DEF RaceInv
  <2>2. CASE UNCHANGED <<pc, program, operands, res, old, cycles, tid, sent, charged>>
    BY <1>1, <1>2, <2>2
  <2> QED
    BY <1>2, <2>1, <2>2, StepProperties
<1>3. CASE UNCHANGED vars
  BY <1>1, <1>3 DEF vars, traceVars
<1> QED
  BY <1>2, <1>3 DEF Next

------------------------------------------------------------------------------
\* For any threads, programs and cost files, the state of the tracing has its
\* types: no thread holds more cycles than were charged, an operand is only
\* looked up while some are left, and every cost is a number (memtrace.cpp,
\* recordMemRef, and instr_cost.hpp).
THEOREM TypeCorrect == Spec => []TypeOK
<1>1. IInv => TypeOK
  <2> SUFFICES ASSUME IInv PROVE TypeOK
    OBVIOUS
  <2>1. TraceTypeOK
    BY WellTypedImpliesTypes DEF IInv
  <2>2. \A t \in Threads : pc[t] \in Labels \ {"locked", "unlock", "thrown"}
    BY DEF IInv, WellTyped, Types, MainRefers
  <2> QED
    BY <2>1, <2>2 DEF TypeOK, IInv, Labels
<1> QED
  BY <1>1, SpecIInv, PTL

\* For any threads and programs, the MissHandler receives the cycles before a
\* miss and then the reference from the same thread: no lock protects the two
\* calls of recordMemRef, but only the main thread ever gets there.
THEOREM PairsAreKept == Spec => []MissesArePaired
<1>1. IInv => MissesArePaired
  BY DEF IInv, Paired
<1> QED
  BY <1>1, SpecIInv, PTL

\* For any file in which every line has a number, of whatever length, what the
\* table answers for a category, a hit or a miss is the cost on the last line
\* that names it, and 0 when none does (fillTableFromFile and lookup).
THEOREM LastLineCounts == Spec => []CostsAreTheLastListed
<1>1. IInv => CostsAreTheLastListed
  BY DEF IInv
<1> QED
  BY <1>1, SpecIInv, PTL

\* For any threads, programs and cost files, recordMemRef needs no lock against
\* itself: no cycle is lost or sent twice while no thread has been in
\* Instruction between the read of cycles and the write of recordMemRef
\* (memtrace.cpp:168, :110, :117-118).  It does need one against Instruction.
THEOREM OnlyRacesLose == Spec => []OnlyRacesLoseCycles
<1>1. CyclesInv => OnlyRacesLoseCycles
  BY BalanceConservesCycles DEF CyclesInv, RaceInv, OnlyRacesLoseCycles, Balanced
<1>2. IInv /\ CyclesInv /\ [Next]_vars => CyclesInv'
  BY NextCycles
<1> QED
  BY <1>1, <1>2, InitCycles, SpecIInv, PTL DEF Spec

=============================================================================
