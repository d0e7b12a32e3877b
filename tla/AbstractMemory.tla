---------------------------- MODULE AbstractMemory ----------------------------
(***************************************************************************)
(* What a hierarchy of caches promises to the program above it: a memory.  *)
(* Each line holds what was last stored in it, a load observes that, and   *)
(* only a request to store changes it.                                     *)
(***************************************************************************)
CONSTANTS LineTags,  \* the lines of memory
          Data,      \* what a line can hold
          InitData   \* what every line holds at first

VARIABLES mem,      \* the contents of each line
          request,  \* the last request: its kind and its line
          passed    \* the data that passed between the program and memory:
                    \* what a load returned, or what a store was given

Init ==
    /\ mem = [dtag \in LineTags |-> InitData]
    /\ request = {}
    /\ passed = {}

Load(dtag) ==
    /\ request' = {<<"load", dtag>>}
    /\ passed' = {mem[dtag]}
    /\ UNCHANGED mem

Store(dtag, d) ==
    /\ request' = {<<"store", dtag>>}
    /\ passed' = {d}
    /\ mem' = [mem EXCEPT ![dtag] = d]

\* An instruction fetch or a prefetch: nothing the program could observe.
Other(kind, dtag) ==
    /\ request' = {<<kind, dtag>>}
    /\ passed' = {}
    /\ UNCHANGED mem

Next ==
    \E dtag \in LineTags :
        \/ Load(dtag)
        \/ \E d \in Data : Store(dtag, d)
        \/ \E kind \in {"fetch", "prefetch"} : Other(kind, dtag)

Spec == Init /\ [][Next]_<<mem, request, passed>>

==============================================================================
