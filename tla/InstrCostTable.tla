---------------------------- MODULE InstrCostTable ----------------------------
(***************************************************************************)
(* instr_cost.hpp: what an instruction of a category, a hit and a miss     *)
(* cost.  The costs come from the file instr_cost, or are the default ones *)
(* when there is no such file.                                             *)
(*                                                                         *)
(* A file is the sequence of its lines.  Blank lines and comments apart, a *)
(* line is [name, cost]: the cost is a number, or NoNumber when nothing    *)
(* follows the name, or NotANumber when what follows is something else.    *)
(*                                                                         *)
(* A table is [costs, hit, miss].  The one object of this class is a       *)
(* global, so that hit and miss are 0 until they are assigned.             *)
(***************************************************************************)
EXTENDS CacheDefs, Integers, SequencesExt

CONSTANTS NoFile,                \* the file is missing
          NoNumber, NotANumber,  \* no cost, or not one, in a line
          Comment                \* a line that is one, or is blank

ASSUME CostAssumption == NoNumber \notin Nat /\ NotANumber \notin Nat

\* The names of the categories, by the cost they have by default.
DefaultCategories == <<
    {"AVX2GATHER", "X87_ALU"},
    {"CONVERT", "XSAVEOPT"},
    {"AES", "BMI1", "CMOV", "MMX", "POP", "SSE", "XSAVE"},
    {"FLAGOP", "LZCNT", "MISC", "PCLMULQDQ", "RDWRFSGS", "WIDENOP"},
    {"3DNOW", "AVX", "CALL", "IOSTRINGOP", "PREFETCH", "SEMAPHORE", "VFMA"},
    {"AVX2", "BMI2", "IO", "RDRAND", "ROTATE", "STTNI", "SYSTEM"},
    {"BROADCAST", "FCMOV", "INTERRUPT", "INVALID", "NOP", "PUSH", "RET",
     "SYSCALL", "SYSRET"},
    {"BINARY", "BITBYTE", "DATAXFER", "DECIMAL", "SEGOP", "STRINGOP", "UNCOND_BR"},
    {"COND_BR", "LOGICAL", "SHIFT", "VTX"} >>

\* fillTableWithDefaultValues
DefaultTable ==
    [costs |-> [c \in UNION Range(DefaultCategories) |->
                    CHOOSE n \in DOMAIN DefaultCategories : c \in DefaultCategories[n]],
     hit |-> 2, miss |-> 3]

\* str2xed_category_enum_t: a name that is none of a category becomes INVALID.
CategoryOf(name) ==
    IF name \in UNION Range(DefaultCategories) THEN name ELSE "INVALID"

\* ss >> cost, when the last line left cost with the value last
CostIn(line, last) ==
    CASE line.cost = NoNumber -> last
      [] line.cost = NotANumber -> 0
      [] OTHER -> line.cost

\* Mutant: insert, which keeps the cost that a category has.
MutAssign(table, name, cost) ==
    CASE name = "CACHE_HIT" -> [table EXCEPT !.hit = cost]
      [] name = "CACHE_MISS" -> [table EXCEPT !.miss = cost]
      [] OTHER -> [table EXCEPT !.costs = @ @@ CategoryOf(name) :> cost]

\* table[category] = cost
AssignCost(costs, category, cost) ==
    [c \in DOMAIN costs \cup {category} |->
        IF c = category THEN cost ELSE costs[c]]

\* What a line assigns to.
Assign(table, name, cost) ==
    CASE name = "CACHE_HIT" -> [table EXCEPT !.hit = cost]
      [] name = "CACHE_MISS" -> [table EXCEPT !.miss = cost]
      [] OTHER -> [table EXCEPT !.costs = AssignCost(@, CategoryOf(name), cost)]

\* One turn of the loop over the lines; the cost is there in the next one.
ReadLine(read, line) ==
    IF line = Comment
    THEN read
    ELSE LET cost == CostIn(line, read.cost)
         IN [table |-> Assign(read.table, line.name, cost), cost |-> cost]

\* fillTableFromFile; junk is what its variable cost holds when it begins.
TableFromFile(file, junk) ==
    FoldLeft(ReadLine,
             [table |-> [costs |-> << >>, hit |-> 0, miss |-> 0], cost |-> junk],
             file).table

\* InstrCostTable(filePath)
NewTable(file, junk) ==
    IF file = NoFile THEN DefaultTable ELSE TableFromFile(file, junk)

\* lookup(ins), for an instruction of this category
LookupCategory(table, category) ==
    IF category \in DOMAIN table.costs THEN table.costs[category] ELSE 0

\* lookup(cacheOp)
LookupResult(table, result) == IF result = MISS THEN table.miss ELSE table.hit

==============================================================================
