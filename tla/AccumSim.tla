------------------------------ MODULE AccumSim ------------------------------
(***************************************************************************)
(* comp4300/project1/src/accumSim.cpp: the accumulator machine.  Its       *)
(* accumulator is a word of the data segment.                              *)
(***************************************************************************)
EXTENDS SegmentedMemory

ACCUMULATOR == DATA_SEG_BASE + 5

\* The instruction leaves val at an address.
Leave(address, val) ==
    /\ Writable(mem, address)
    /\ Proceed(write(mem, address, val))

Load(instr) ==
    /\ OpOf(instr) = LOAD
    /\ \E val \in read(mem, AddressOf(instr)) : Leave(ACCUMULATOR, val)

\* Faulty: the accumulator is stored next to where it should be.
Store_Next(instr) ==
    /\ OpOf(instr) = STORE
    /\ \E val1 \in read(mem, ACCUMULATOR) : Leave(AddressOf(instr) + 1, val1)

Store(instr) ==
    /\ OpOf(instr) = STORE
    /\ \E val1 \in read(mem, ACCUMULATOR) : Leave(AddressOf(instr), val1)

\* ADD and MULT.
Operate(instr) ==
    /\ OpOf(instr) \in {ADD, MULT}
    /\ \E val1 \in read(mem, AddressOf(instr)), val2 \in read(mem, ACCUMULATOR) :
          Leave(ACCUMULATOR, Result(OpOf(instr), val2, val1))

EndInstr(instr) ==
    /\ OpOf(instr) = END
    /\ \E val \in read(mem, ACCUMULATOR) : Printout(mem, val)

\* An address that is no cell or may not be written; an op-code of the other
\* machine.
Breaks(instr) ==
    LET op == OpOf(instr)
        address == AddressOf(instr)
    IN  \/ ~IsCell(PC)
        \/ op \in {LOAD, ADD, MULT} /\ ~IsCell(address)
        \/ op = STORE /\ ~Writable(mem, address)
        \/ op \notin {LOAD, STORE, ADD, MULT, END}

Break(instr) == Breaks(instr) /\ Fail

execute ==
    /\ status = "running"
    /\ \E instr \in read(mem, PC) :
          Load(instr) \/ Store(instr) \/ Operate(instr) \/ EndInstr(instr)
            \/ Break(instr)

Next == ReadLine \/ Start \/ execute
=============================================================================
