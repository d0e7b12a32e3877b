-------------------------- MODULE V1MemTrace_proofs --------------------------
(***************************************************************************)
(* v1/memtrace.cpp, for any threads and programs: what the mutex of        *)
(* RecordMemRef protects, and which thread a miss is reported for.         *)
(***************************************************************************)
EXTENDS V1MemTrace, TraceCycles_proofs

\* Where RecordMemRef holds the mutex.
Inside == {"locked", "adding", "miss", "sent", "reset", "unlock", "thrown"}

\* The thread inside RecordMemRef is the one that holds the mutex.
MutexInv ==
    /\ mutex \in Threads \cup {NoThread}
    /\ \A t \in Threads : pc[t] \in Inside <=> mutex = t
    /\ \A t \in Threads : pc[t] = "locked" => HasOperand(t)

\* Instruction is called once for an instruction, by one thread at a time,
\* and before the instruction runs.
InstrumentationInv ==
    /\ \A t, u \in Threads : pc[t] = "charging" /\ pc[u] = "charging" => t = u
    /\ \A t \in Threads :
        pc[t] = "charging" => tid[Head(program[t])] = NoThread
    /\ \A t \in Threads :
        pc[t] \notin {"next", "charging"} => tid[Head(program[t])] # NoThread
    /\ \A i \in Instructions :
        Translated[i] # NoThread => tid[i] = Translated[i]

\* A thread that Instruction was called in runs the instruction: it is in its
\* program, of which a rest is left.
OwnInstructions ==
    /\ \A t \in Threads : Range(program[t]) \subseteq Range(Programs[t])
    /\ \A i \in Instructions :
        Translated[i] = NoThread /\ tid[i] # NoThread
        => i \in Range(Programs[tid[i]])

\* So does the thread that a miss was reported for.
NamedInv ==
    \A i \in DOMAIN sent :
        sent[i].call = "sendRW" /\ Translated[sent[i].ins] = NoThread
        => /\ sent[i].tid \in Threads
           /\ sent[i].ins \in Range(Programs[sent[i].tid])

\* Once Instruction was called for a new instruction, nothing is said of cycles.
BalanceInv == tid = Translated => Balanced({"adding"})

IInv ==
    /\ WellTyped
    /\ MutexInv
    /\ InstrumentationInv
    /\ Paired
    /\ BalanceInv
    /\ OwnInstructions
    /\ NamedInv

\* What a step of a thread is: one that both versions make, one of the mutex,
\* or the exception of the cache.
LEMMA StepProperties ==
    ASSUME IInv, NEW t \in Threads, Step(t)
    PROVE  /\ UNCHANGED costVars
           /\ \/ TraceStep(t, "unlock", "unlock") /\ UNCHANGED mutex
              \/ Lock(t)
              \/ Unlock(t)
              \/ Throw(t) /\ UNCHANGED mutex
BY DEF IInv, MutexInv, Step, Instrument, Execute, RecordMemRef, Return,
       TraceStep, LeaveAfterHit

\* The thread in RecordMemRef is alone there.
LEMMA MutualExclusion ==
    ASSUME MutexInv, NEW t \in Threads, pc[t] \in Inside
    PROVE  Alone(t, Inside)
<1>1. mutex = t
  BY DEF MutexInv
<1>2. \A u \in Threads \ {t} : pc[u] \notin Inside
  BY <1>1 DEF MutexInv
<1> QED
  BY <1>2 DEF Alone

LEMMA InitIInv == Init => IInv
<1> SUFFICES ASSUME Init PROVE IInv
  OBVIOUS
<1>1. TraceInit /\ mutex = NoThread
  BY DEF Init
<1>2. costTable \in CostTables
  <2>1. PICK junk \in Junk : costTable = NewTable(costFile, junk)
    BY DEF Init, V1NewTable, V1DefaultTable, V1TableFromFile, NewTable
  <2>2. costFile \in CostFiles
    BY <1>1 DEF TraceInit
  <2> QED
    BY <2>1, <2>2, InitialCosts
<1>3. WellTyped
  BY <1>1, <1>2, InitialTypes
<1>4. \A t \in Threads : pc[t] = "next" /\ program[t] = Programs[t]
  BY <1>1 DEF TraceInit
<1>5. MutexInv
  BY <1>1, <1>4, TraceAssumption DEF MutexInv, Inside
<1>6. tid = Translated /\ sent = << >>
  BY <1>1 DEF TraceInit
<1>7. InstrumentationInv
  BY <1>4, <1>6 DEF InstrumentationInv
<1>8. Paired
  BY <1>1, InitialPairs
<1>9. BalanceInv
  BY <1>1, InitialBalance DEF BalanceInv
<1>10. OwnInstructions
  BY <1>4, <1>6 DEF OwnInstructions
<1>11. NamedInv
  BY <1>6, EmptySeq DEF NamedInv
<1> QED
  BY <1>3, <1>5, <1>7, <1>8, <1>9, <1>10, <1>11 DEF IInv

LEMMA MutexSteps ==
    ASSUME IInv, NEW t \in Threads, Step(t)
    PROVE  WellTyped' /\ MutexInv'
<1>1. /\ pc \in [Threads -> Labels]
      /\ operands \in [Threads -> Nat]
  BY DEF IInv, WellTyped, Types
<1>2. /\ mutex \in Threads \cup {NoThread}
      /\ \A u \in Threads : pc[u] \in Inside <=> mutex = u
      /\ \A u \in Threads : pc[u] = "locked" => operands[u] > 0
      /\ NoThread \notin Threads
  BY TraceAssumption DEF IInv, MutexInv, HasOperand
<1>3. CASE TraceStep(t, "unlock", "unlock") /\ UNCHANGED mutex
  <2>1. WellTyped'
    <3>1. "unlock" \in Labels
      BY DEF Labels
    <3> QED
      BY <1>3, <3>1, StepProperties, StepKeepsTypes DEF IInv
  <2>2. ASSUME NEW label \in Labels, pc' = [pc EXCEPT ![t] = label],
               label \in Inside <=> pc[t] \in Inside, label # "locked",
               \A u \in Threads \ {t} : operands'[u] = operands[u]
        PROVE  MutexInv'
    BY <1>1, <1>2, <1>3, <2>2 DEF MutexInv, HasOperand
  <2>3. CASE BeginInstruction(t)
    <3>1. pc' = [pc EXCEPT ![t] = "charging"] /\ pc[t] = "next" /\ operands' = operands
      BY <2>3 DEF BeginInstruction, AtInstruction, Goto
    <3> QED
      BY <2>1, <2>2, <3>1 DEF Labels, Inside
  <2>4. CASE EndInstruction(t)
    <3>1. pc' = [pc EXCEPT ![t] = "next"] /\ pc[t] = "charging" /\ operands' = operands
      BY <2>4 DEF EndInstruction, Goto
    <3> QED
      BY <2>1, <2>2, <3>1 DEF Labels, Inside
  <2>5. CASE Run(t, "operands")
    <3>1. /\ pc' = [pc EXCEPT ![t] = "operands"]
          /\ pc[t] = "next"
          /\ \A u \in Threads \ {t} : operands'[u] = operands[u]
      BY <1>1, <2>5 DEF Run, AtInstruction, Goto
    <3> QED
      BY <2>1, <2>2, <3>1 DEF Labels, Inside
  <2>6. CASE pc[t] = "locked" /\ Reference(t)
    <3>1. /\ pc' = [pc EXCEPT ![t] = "adding"]
          /\ \A u \in Threads \ {t} : operands'[u] = operands[u]
      BY <1>1, <2>6 DEF Reference, Goto
    <3> QED
      BY <2>1, <2>2, <2>6, <3>1 DEF Labels, Inside
  <2>7. CASE AddCycles(t, "unlock")
    <3> DEFINE label == IF res[t] = MISS THEN "miss" ELSE "unlock"
    <3>1. pc' = [pc EXCEPT ![t] = label] /\ pc[t] = "adding" /\ operands' = operands
      BY <2>7 DEF AddCycles, Goto
    <3>2. label \in Labels /\ label \in Inside /\ label # "locked"
      BY DEF Labels, Inside
    <3> HIDE DEF label
    <3> QED
      BY <2>1, <2>2, <3>1, <3>2 DEF Inside
  <2>8. CASE SendComp(t)
    <3>1. pc' = [pc EXCEPT ![t] = "sent"] /\ pc[t] = "miss" /\ operands' = operands
      BY <2>8 DEF SendComp, Goto
    <3> QED
      BY <2>1, <2>2, <3>1 DEF Labels, Inside
  <2>9. CASE ResetCycles(t)
    <3>1. pc' = [pc EXCEPT ![t] = "reset"] /\ pc[t] = "sent" /\ operands' = operands
      BY <2>9 DEF ResetCycles, Goto
    <3> QED
      BY <2>1, <2>2, <3>1 DEF Labels, Inside
  <2>10. CASE SendRW(t, "unlock")
    <3>1. pc' = [pc EXCEPT ![t] = "unlock"] /\ pc[t] = "reset" /\ operands' = operands
      BY <2>10 DEF SendRW, Goto
    <3> QED
      BY <2>1, <2>2, <3>1 DEF Labels, Inside
  <2>11. CASE Finish(t)
    <3>1. pc' = [pc EXCEPT ![t] = "next"] /\ pc[t] = "operands" /\ operands' = operands
      BY <2>11 DEF Finish, Goto
    <3> QED
      BY <2>1, <2>2, <3>1 DEF Labels, Inside
  <2>12. \/ BeginInstruction(t)
         \/ EndInstruction(t)
         \/ Run(t, "operands")
         \/ pc[t] = "locked" /\ Reference(t)
         \/ AddCycles(t, "unlock")
         \/ SendComp(t)
         \/ ResetCycles(t)
         \/ SendRW(t, "unlock")
         \/ Finish(t)
         \/ Lock(t)
         \/ Unlock(t)
         \/ Throw(t)
    BY DEF Step, Instrument, Execute, RecordMemRef, Return, LeaveAfterHit
  <2>13. ~Lock(t) /\ ~Unlock(t)
    BY <1>2, <1>3 DEF Lock, Unlock, CanLock, Inside
  <2>14. CASE Throw(t)
    <3>1. pc' = [pc EXCEPT ![t] = "thrown"] /\ pc[t] = "locked" /\ operands' = operands
      BY <2>14 DEF Throw, Goto
    <3> QED
      BY <2>1, <2>2, <3>1 DEF Labels, Inside
  <2> QED
    BY <2>1, <2>3, <2>4, <2>5, <2>6, <2>7, <2>8, <2>9, <2>10, <2>11, <2>12, <2>13, <2>14
<1>4. CASE Lock(t)
  <2>1. /\ pc[t] = "operands"
        /\ operands[t] > 0
        /\ mutex = NoThread
        /\ mutex' = t
        /\ pc' = [pc EXCEPT ![t] = "locked"]
        /\ UNCHANGED <<program, operands, res, old, cycles, tid, sent, charged>>
        /\ UNCHANGED costVars
    BY <1>4, StepProperties DEF Lock, CanLock, HasOperand, Goto
  <2>2. WellTyped'
    <3>1. Types'
      BY <2>1 DEF IInv, WellTyped, Types, Labels, costVars
    <3>2. Bounded'
      BY <2>1 DEF IInv, WellTyped, Bounded
    <3>3. HaveInstructions'
      BY <1>1, <2>1 DEF IInv, WellTyped, HaveInstructions
    <3> QED
      BY <3>1, <3>2, <3>3 DEF WellTyped
  <2>3. MutexInv'
    BY <1>1, <1>2, <2>1 DEF MutexInv, HasOperand, Inside
  <2> QED
    BY <2>2, <2>3
<1>5. CASE Unlock(t)
  <2>1. /\ pc[t] = "unlock"
        /\ mutex' = NoThread
        /\ pc' = [pc EXCEPT ![t] = "operands"]
        /\ UNCHANGED <<program, operands, res, old, cycles, tid, sent, charged>>
        /\ UNCHANGED costVars
    BY <1>5, StepProperties DEF Unlock, Goto
  <2>2. WellTyped'
    <3>1. Types'
      BY <2>1 DEF IInv, WellTyped, Types, Labels, costVars
    <3>2. Bounded'
      BY <2>1 DEF IInv, WellTyped, Bounded
    <3>3. HaveInstructions'
      BY <1>1, <2>1 DEF IInv, WellTyped, HaveInstructions
    <3> QED
      BY <3>1, <3>2, <3>3 DEF WellTyped
  <2>3. mutex = t
    BY <1>2, <2>1 DEF Inside
  <2>4. MutexInv'
    BY <1>1, <1>2, <2>1, <2>3 DEF MutexInv, HasOperand, Inside
  <2> QED
    BY <2>2, <2>4
<1>6. CASE Throw(t) /\ UNCHANGED mutex
  <2>1. /\ pc[t] = "locked"
        /\ pc' = [pc EXCEPT ![t] = "thrown"]
        /\ UNCHANGED <<program, operands, res, old, cycles, tid, sent, charged>>
        /\ UNCHANGED costVars
    BY <1>6, StepProperties DEF Throw, Goto
  <2>2. WellTyped'
    <3>1. Types'
      BY <2>1 DEF IInv, WellTyped, Types, Labels, costVars
    <3>2. Bounded'
      BY <2>1 DEF IInv, WellTyped, Bounded
    <3>3. HaveInstructions'
      BY <1>1, <2>1 DEF IInv, WellTyped, HaveInstructions
    <3> QED
      BY <3>1, <3>2, <3>3 DEF WellTyped
  <2>3. MutexInv'
    BY <1>1, <1>2, <1>6, <2>1 DEF MutexInv, HasOperand, Inside
  <2> QED
    BY <2>2, <2>3
<1> QED
  BY <1>3, <1>4, <1>5, <1>6, StepProperties

LEMMA InstrumentationSteps ==
    ASSUME IInv, NEW t \in Threads, Step(t)
    PROVE  InstrumentationInv'
<1>1. /\ pc \in [Threads -> Labels]
      /\ program \in [Threads -> Seq(Instructions)]
      /\ tid \in [Instructions -> Threads \cup {NoThread}]
      /\ NoThread \notin Threads
  BY TraceAssumption DEF IInv, WellTyped, Types
<1>2. /\ \A u, v \in Threads : pc[u] = "charging" /\ pc[v] = "charging" => u = v
      /\ \A u \in Threads :
            pc[u] = "charging" => tid[Head(program[u])] = NoThread
      /\ \A u \in Threads :
            pc[u] \notin {"next", "charging"} => tid[Head(program[u])] # NoThread
      /\ \A i \in Instructions :
            Translated[i] # NoThread => tid[i] = Translated[i]
  BY DEF IInv, InstrumentationInv
<1>3. \A u \in Threads : pc[u] # "next" => Head(program[u]) \in Instructions
  BY InstructionProperties DEF IInv, WellTyped, HaveInstructions
<1>4. CASE BeginInstruction(t)
  <2>1. /\ \A u \in Threads : pc[u] # "charging"
        /\ tid[Head(program[t])] = NoThread
        /\ pc' = [pc EXCEPT ![t] = "charging"]
        /\ UNCHANGED <<program, tid>>
    BY <1>4 DEF BeginInstruction, IsInstrumented, Goto
  <2> QED
    BY <1>1, <1>2, <2>1 DEF InstrumentationInv
<1>5. CASE EndInstruction(t)
  <2> DEFINE h == Head(program[t])
  <2>1. /\ pc[t] = "charging"
        /\ pc' = [pc EXCEPT ![t] = "next"]
        /\ tid' = [tid EXCEPT ![h] = t]
        /\ program' = program
    BY <1>5 DEF EndInstruction, CapturedTid, Goto
  <2>2. h \in Instructions /\ tid[h] = NoThread
    BY <1>2, <1>3, <2>1
  <2> HIDE DEF h
  <2>3. \A i \in Instructions : tid'[i] = IF i = h THEN t ELSE tid[i]
    BY <1>1, <2>1
  <2>4. \A u \in Threads : pc'[u] = IF u = t THEN "next" ELSE pc[u]
    BY <1>1, <2>1
  <2>5. \A i \in Instructions : Translated[i] # NoThread => tid'[i] = Translated[i]
    BY <1>2, <2>2, <2>3
  <2>6. \A u \in Threads : pc'[u] # "charging"
    BY <1>2, <2>1, <2>4
  <2>7. ASSUME NEW u \in Threads, pc'[u] \notin {"next", "charging"}
        PROVE  tid'[Head(program'[u])] # NoThread
    <3>1. u # t /\ pc[u] \notin {"next", "charging"}
      BY <2>4, <2>7
    <3>2. Head(program[u]) \in Instructions /\ tid[Head(program[u])] # NoThread
      BY <1>2, <1>3, <3>1
    <3> QED
      BY <1>1, <2>1, <2>3, <3>2
  <2> QED
    BY <2>5, <2>6, <2>7 DEF InstrumentationInv
<1>6. CASE Run(t, "operands")
  <2>1. /\ tid[Head(program[t])] # NoThread
        /\ pc' = [pc EXCEPT ![t] = "operands"]
        /\ UNCHANGED <<program, tid>>
    BY <1>6 DEF Run, IsInstrumented, Goto
  <2> QED
    BY <1>1, <1>2, <2>1 DEF InstrumentationInv
<1>7. CASE Finish(t)
  <2>1. /\ pc' = [pc EXCEPT ![t] = "next"]
        /\ program' = [program EXCEPT ![t] = Tail(@)]
        /\ tid' = tid
    BY <1>7 DEF Finish, Goto
  <2>2. \A u \in Threads :
            pc'[u] # "next" => pc'[u] = pc[u] /\ program'[u] = program[u]
    BY <1>1, <2>1
  <2>3. \A u, v \in Threads : pc'[u] = "charging" /\ pc'[v] = "charging" => u = v
    BY <1>2, <2>2
  <2>4. \A u \in Threads :
            pc'[u] = "charging" => tid'[Head(program'[u])] = NoThread
    BY <1>2, <2>1, <2>2
  <2>5. \A u \in Threads :
            pc'[u] \notin {"next", "charging"} => tid'[Head(program'[u])] # NoThread
    BY <1>2, <2>1, <2>2
  <2> QED
    BY <1>2, <2>1, <2>3, <2>4, <2>5 DEF InstrumentationInv
<1>8. CASE \E label \in Labels \ {"next", "charging"} :
              /\ pc' = [pc EXCEPT ![t] = label]
              /\ pc[t] \notin {"next", "charging"}
              /\ UNCHANGED <<program, tid>>
  BY <1>1, <1>2, <1>8 DEF InstrumentationInv
<1>9. ASSUME pc[t] = "locked" /\ Reference(t)
      PROVE  InstrumentationInv'
  <2>1. pc' = [pc EXCEPT ![t] = "adding"] /\ UNCHANGED <<program, tid>>
    BY <1>9 DEF Reference, Goto
  <2> QED
    BY <1>8, <1>9, <2>1 DEF Labels
<1>10. ASSUME AddCycles(t, "unlock")
       PROVE  InstrumentationInv'
  <2>1. /\ pc' = [pc EXCEPT ![t] = IF res[t] = MISS THEN "miss" ELSE "unlock"]
        /\ pc[t] = "adding"
        /\ UNCHANGED <<program, tid>>
    BY <1>10 DEF AddCycles, Goto
  <2>2. \E label \in {"miss", "unlock"} : pc' = [pc EXCEPT ![t] = label]
    BY <2>1
  <2> QED
    BY <1>8, <2>1, <2>2 DEF Labels
<1>11. ASSUME SendComp(t) \/ SendRW(t, "unlock") \/ ResetCycles(t)
       PROVE  InstrumentationInv'
  <2>1. /\ pc[t] \in {"miss", "reset", "sent"}
        /\ UNCHANGED <<program, tid>>
        /\ \E label \in {"sent", "unlock", "reset"} : pc' = [pc EXCEPT ![t] = label]
    BY <1>11 DEF SendComp, SendRW, ResetCycles, Goto
  <2> QED
    BY <1>8, <2>1 DEF Labels
<1>12. ASSUME Lock(t) \/ Unlock(t) \/ Throw(t)
       PROVE  InstrumentationInv'
  <2>1. /\ pc[t] \in {"operands", "unlock", "locked"}
        /\ UNCHANGED <<program, tid>>
        /\ \E label \in {"locked", "operands", "thrown"} : pc' = [pc EXCEPT ![t] = label]
    BY <1>12 DEF Lock, Unlock, Throw, Goto
  <2> QED
    BY <1>8, <2>1 DEF Labels
<1> QED
  BY <1>4, <1>5, <1>6, <1>7, <1>9, <1>10, <1>11, <1>12
  DEF Step, Instrument, Execute, RecordMemRef, Return, LeaveAfterHit

LEMMA OwnInstructionsSteps ==
    ASSUME IInv, NEW t \in Threads, Step(t)
    PROVE  OwnInstructions'
<1>1. /\ program \in [Threads -> Seq(Instructions)]
      /\ tid \in [Instructions -> Threads \cup {NoThread}]
  BY DEF IInv, WellTyped, Types
<1>2. /\ \A u \in Threads : Range(program[u]) \subseteq Range(Programs[u])
      /\ \A i \in Instructions :
            Translated[i] = NoThread /\ tid[i] # NoThread
            => i \in Range(Programs[tid[i]])
  BY DEF IInv, OwnInstructions
<1>3. CASE EndInstruction(t)
  <2> DEFINE h == Head(program[t])
  <2>1. tid' = [tid EXCEPT ![h] = t] /\ program' = program
    BY <1>3 DEF EndInstruction, CapturedTid
  <2>2. h \in Instructions /\ h \in Range(program[t])
    BY <1>3, InstructionProperties DEF EndInstruction, IInv, WellTyped, HaveInstructions
  <2>3. h \in Range(Programs[t])
    BY <1>2, <2>2
  <2> HIDE DEF h
  <2> QED
    BY <1>1, <1>2, <2>1, <2>2, <2>3 DEF OwnInstructions
<1>4. CASE Finish(t)
  <2>1. program' = [program EXCEPT ![t] = Tail(@)] /\ tid' = tid
    BY <1>4 DEF Finish
  <2>2. Range(Tail(program[t])) \subseteq Range(program[t])
    BY <1>4, InstructionProperties DEF Finish, IInv, WellTyped, HaveInstructions
  <2>3. \A u \in Threads : program'[u] = IF u = t THEN Tail(program[u]) ELSE program[u]
    BY <1>1, <2>1
  <2>4. \A u \in Threads : Range(program'[u]) \subseteq Range(Programs[u])
    BY <1>2, <2>2, <2>3
  <2> QED
    BY <1>2, <2>1, <2>4 DEF OwnInstructions
<1>5. CASE ~EndInstruction(t) /\ ~Finish(t)
  <2>1. program' = program /\ tid' = tid
    BY <1>5 DEF Step, Instrument, Execute, Lock, RecordMemRef, Throw, Unlock, Return,
                BeginInstruction, Run, Reference, AddCycles, SendComp,
                ResetCycles, SendRW
  <2> QED
    BY <1>2, <2>1 DEF OwnInstructions
<1> QED
  BY <1>3, <1>4, <1>5

LEMMA NamedSteps ==
    ASSUME IInv, NEW t \in Threads, Step(t)
    PROVE  NamedInv'
<1>1. /\ sent \in Seq(Messages)
      /\ tid \in [Instructions -> Threads \cup {NoThread}]
      /\ cycles \in Nat
  BY DEF IInv, WellTyped, Types
<1>2. Len(sent) \in Nat /\ DOMAIN sent = 1..Len(sent)
  BY <1>1, LenProperties
<1>3. NamedInv
  BY DEF IInv
<1>4. ASSUME NEW message \in Messages, sent' = Append(sent, message),
             message.call = "sendRW" /\ Translated[message.ins] = NoThread
             => /\ message.tid \in Threads
                /\ message.ins \in Range(Programs[message.tid])
      PROVE  NamedInv'
  <2>1. /\ DOMAIN sent' = 1..(Len(sent) + 1)
        /\ \A i \in 1..Len(sent) : sent'[i] = sent[i]
        /\ sent'[Len(sent) + 1] = message
    BY <1>1, <1>4, AppendProperties
  <2>2. \A i \in DOMAIN sent' : i \in DOMAIN sent \/ i = Len(sent) + 1
    BY <1>2, <2>1
  <2> QED
    BY <1>2, <1>3, <1>4, <2>1, <2>2 DEF NamedInv
<1>5. CASE SendComp(t)
  <2> DEFINE message == [call |-> "sendComp", thread |-> t, cycles |-> cycles]
  <2>1. message \in Messages /\ message.call # "sendRW"
    BY <1>1 DEF Messages
  <2>2. sent' = Append(sent, message)
    BY <1>5 DEF SendComp
  <2> HIDE DEF message
  <2> QED
    BY <1>4, <2>1, <2>2
<1>6. CASE SendRW(t, "unlock")
  <2> DEFINE h == Head(program[t])
             message == [call |-> "sendRW", thread |-> t, cycles |-> 0,
                         ins |-> h, tid |-> tid[h]]
  <2>1. sent' = Append(sent, message) /\ pc[t] = "reset"
    BY <1>6 DEF SendRW
  <2>2. h \in Instructions
    BY <2>1, InstructionProperties DEF IInv, WellTyped, HaveInstructions
  <2>3. tid[h] # NoThread
    BY <2>1 DEF IInv, InstrumentationInv
  <2> HIDE DEF h
  <2>4. message \in Messages /\ message.ins = h /\ message.tid = tid[h]
    BY <1>1, <2>2 DEF Messages
  <2>5. Translated[h] = NoThread => tid[h] \in Threads /\ h \in Range(Programs[tid[h]])
    BY <1>1, <2>2, <2>3 DEF IInv, OwnInstructions
  <2> HIDE DEF message
  <2> QED
    BY <1>4, <2>1, <2>4, <2>5
<1>7. CASE ~SendComp(t) /\ ~SendRW(t, "unlock")
  <2>1. sent' = sent
    BY <1>7 DEF Step, Instrument, Execute, Lock, RecordMemRef, Throw, Unlock, Return,
                BeginInstruction, EndInstruction, Run, Reference, AddCycles,
                ResetCycles, Finish
  <2> QED
    BY <1>3, <2>1 DEF NamedInv
<1> QED
  BY <1>5, <1>6, <1>7

LEMMA PairSteps ==
    ASSUME IInv, NEW t \in Threads, Step(t)
    PROVE  Paired'
<1>1. pc[t] \in {"miss", "reset"} => Alone(t, {"sent", "reset"})
  <2>1. SUFFICES ASSUME pc[t] \in {"miss", "reset"}
                 PROVE  Alone(t, {"sent", "reset"})
    OBVIOUS
  <2>2. Alone(t, Inside)
    BY <2>1, MutualExclusion DEF IInv, Inside
  <2> QED
    BY <2>2 DEF Alone, Inside
<1>2. CASE TraceStep(t, "unlock", "unlock")
  <2>1. "unlock" \in Labels \ {"sent", "reset"}
    BY DEF Labels
  <2> QED
    BY <1>1, <1>2, <2>1, StepKeepsPairs DEF IInv
<1>3. CASE Lock(t) \/ Unlock(t) \/ Throw(t)
  <2>1. /\ sent' = sent
        /\ pc[t] \in {"operands", "unlock", "locked"}
        /\ \E label \in {"locked", "operands", "thrown"} : pc' = [pc EXCEPT ![t] = label]
    BY <1>3 DEF Lock, Unlock, Throw, Goto
  <2>2. \A u \in Threads : InMiss(u)' <=> InMiss(u)
    BY <2>1 DEF InMiss, IInv, WellTyped, Types
  <2> QED
    BY <2>1, <2>2 DEF IInv, Paired, MissesArePaired
<1> QED
  BY <1>2, <1>3, StepProperties

LEMMA BalanceSteps ==
    ASSUME IInv, NEW t \in Threads, Step(t)
    PROVE  BalanceInv'
<1>1. /\ pc \in [Threads -> Labels]
      /\ tid \in [Instructions -> Threads \cup {NoThread}]
      /\ NoThread \notin Threads
  BY TraceAssumption DEF IInv, WellTyped, Types
<1>2. \A i \in Instructions : Translated[i] # NoThread => tid[i] = Translated[i]
  BY DEF IInv, InstrumentationInv
\* Instruction is called for an instruction that was not translated.
<1>3. CASE EndInstruction(t)
  <2> DEFINE h == Head(program[t])
  <2>1. tid' = [tid EXCEPT ![h] = t] /\ pc[t] = "charging"
    BY <1>3 DEF EndInstruction, CapturedTid
  <2>2. h \in Instructions /\ tid[h] = NoThread
    BY <2>1, InstructionProperties
    DEF IInv, WellTyped, HaveInstructions, InstrumentationInv
  <2> HIDE DEF h
  <2>3. tid'[h] = t
    BY <1>1, <2>1, <2>2
  <2>4. tid' # Translated
    BY <1>1, <1>2, <2>2, <2>3
  <2> QED
    BY <2>4 DEF BalanceInv
<1>4. CASE ~EndInstruction(t)
  <2>1. tid' = tid
    BY <1>4 DEF Step, Instrument, Execute, Lock, RecordMemRef, Throw, Unlock, Return,
                BeginInstruction, Run, Reference, AddCycles, SendComp,
                ResetCycles, SendRW, Finish
  <2>2. SUFFICES ASSUME Balanced({"adding"}) PROVE Balanced({"adding"})'
    BY <2>1 DEF IInv, BalanceInv
  <2>3. CASE Lock(t) \/ Unlock(t) \/ Throw(t)
    <3>1. /\ UNCHANGED <<old, cycles, sent, charged>>
          /\ pc[t] \in {"operands", "unlock", "locked"}
          /\ \E label \in {"locked", "operands", "thrown"} : pc' = [pc EXCEPT ![t] = label]
      BY <2>3 DEF Lock, Unlock, Throw, Goto
    <3>2. Resetting' <=> Resetting
      BY <1>1, <3>1 DEF Resetting
    <3>3. Accounted'
      BY <2>2, <3>1, <3>2 DEF Balanced, Accounted
    <3>4. Fresh({"adding"})'
      BY <1>1, <2>2, <3>1 DEF Balanced, Fresh
    <3> QED
      BY <3>3, <3>4 DEF Balanced
  <2>4. CASE TraceStep(t, "unlock", "unlock")
    <3>1. pc[t] \in {"adding", "miss", "sent"} => Alone(t, {"adding"} \cup {"sent"})
      <4>1. SUFFICES ASSUME pc[t] \in {"adding", "miss", "sent"}
                     PROVE  Alone(t, {"adding"} \cup {"sent"})
        OBVIOUS
      <4>2. Alone(t, Inside)
        BY <4>1, MutualExclusion DEF IInv, Inside
      <4> QED
        BY <4>2 DEF Alone, Inside
    <3>2. pc[t] # "charging"
      BY <1>4, <2>4 DEF TraceStep, BeginInstruction, AtInstruction, Run, AddCycles,
                        SendComp, ResetCycles, SendRW, Finish
    <3> DEFINE labels == {"adding"}
    <3>3. labels \in ReadLabels
      BY DEF ReadLabels
    <3> HIDE DEF labels
    <3>4. Balanced(labels)'
      BY <2>2, <2>4, <3>1, <3>2, <3>3, StepKeepsBalance DEF IInv, labels
    <3> QED
      BY <3>4 DEF labels
  <2> QED
    BY <2>3, <2>4, StepProperties
<1> QED
  BY <1>3, <1>4

LEMMA NextIInv == IInv /\ [Next]_vars => IInv'
<1> SUFFICES ASSUME IInv, [Next]_vars PROVE IInv'
  OBVIOUS
<1>1. ASSUME NEW t \in Threads, Step(t)
      PROVE  IInv'
  BY <1>1, MutexSteps, InstrumentationSteps, OwnInstructionsSteps, NamedSteps,
     PairSteps, BalanceSteps DEF IInv
<1>2. CASE UNCHANGED vars
  <2>1. UNCHANGED <<pc, program, operands, res, old, cycles, tid, sent, charged,
                    costFile, costTable, mutex>>
    BY <1>2 DEF vars, traceVars, costVars
  <2>2. WellTyped'
    BY <2>1 DEF IInv, WellTyped, Types, Bounded, HaveInstructions
  <2>3. MutexInv' /\ InstrumentationInv' /\ OwnInstructions' /\ NamedInv'
    BY <2>1 DEF IInv, MutexInv, HasOperand, InstrumentationInv, OwnInstructions,
                NamedInv
  <2>4. Paired'
    BY <2>1 DEF IInv, Paired, MissesArePaired, InMiss
  <2>5. BalanceInv'
    BY <2>1 DEF IInv, BalanceInv, Balanced, Accounted, Resetting, Fresh
  <2> QED
    BY <2>2, <2>3, <2>4, <2>5 DEF IInv
<1> QED
  BY <1>1, <1>2 DEF Next

LEMMA SpecIInv == Spec => []IInv
<1> QED
  BY InitIInv, NextIInv, PTL DEF Spec

------------------------------------------------------------------------------
\* For any threads and programs, the threads that are in RecordMemRef are at
\* most one, the holder of the mutex, and the numbers have their types: the
\* costs of any file are numbers, and no thread holds more cycles than were
\* charged (v1/memtrace.cpp, RecordMemRef and Instruction).
THEOREM TypeCorrect == Spec => []TypeOK
<1>1. IInv => TypeOK
  <2> SUFFICES ASSUME IInv PROVE TypeOK
    OBVIOUS
  <2>1. TraceTypeOK
    BY WellTypedImpliesTypes DEF IInv
  <2>2. \A t \in Threads : pc[t] \in Labels
    BY DEF IInv, WellTyped, Types
  <2> QED
    BY <2>1, <2>2 DEF TypeOK, IInv, MutexInv, Labels, Inside
<1> QED
  BY <1>1, SpecIInv, PTL

\* For any threads and programs, the MissHandler receives for each miss the
\* cycles before it and then the reference, from the same thread and with
\* nothing in between: the mutex of RecordMemRef is held over both calls.
THEOREM PairsAreKept == Spec => []MissesArePaired
<1>1. IInv => MissesArePaired
  BY DEF IInv, Paired
<1> QED
  BY <1>1, SpecIInv, PTL

\* For any threads, programs and costs, the cycles charged have been sent or
\* are in the variable cycles while Instruction is not called for a new
\* instruction: between RecordMemRef's lock and its unlock nobody else writes
\* the variable.
THEOREM MutexSuffices == Spec => []MutexKeepsCycles
<1>1. IInv => MutexKeepsCycles
  <2> SUFFICES ASSUME IInv, tid = Translated PROVE CyclesConserved
    BY DEF MutexKeepsCycles
  <2>1. Accounted
    BY DEF IInv, BalanceInv, Balanced
  <2> QED
    BY <2>1, BalanceConservesCycles
<1> QED
  BY <1>1, SpecIInv, PTL

\* For any threads and programs, sendRW names the thread that refers to memory
\* when no other thread runs the instruction: the thread that Instruction was
\* called in has the instruction in its program.
THEOREM UnsharedMissesNamed == Spec => []UnsharedMissesNameTheirThread
<1>1. IInv => UnsharedMissesNameTheirThread
  <2> SUFFICES ASSUME IInv PROVE UnsharedMissesNameTheirThread
    OBVIOUS
  <2>1. NamedInv
    BY DEF IInv
  <2> QED
    BY <2>1 DEF NamedInv, UnsharedMissesNameTheirThread
<1> QED
  BY <1>1, SpecIInv, PTL

=============================================================================
