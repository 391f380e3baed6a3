------------------------------ MODULE StackSim ------------------------------
(***************************************************************************)
(* comp4300/project1/src/stackSim.cpp: the stack machine.  An action is    *)
(* one round of the loop of execute().                                     *)
(***************************************************************************)
EXTENDS SegmentedMemory, FiniteSets

\* The memory after --TOS.
Below(m) == [m EXCEPT !.TOS = @ - 1]

Push(instr) ==
    /\ OpOf(instr) = PUSH
    /\ Writable(mem, mem.TOS)
    /\ \E val \in read(mem, AddressOf(instr)) :
          Proceed(write(mem, mem.TOS, val))

\* Faulty: the value stays where it was taken from.
Pop_Left(instr) ==
    LET below == Below(mem)
    IN  /\ OpOf(instr) = POP
        /\ mem.TOS > STACK_SEG_BASE
        /\ Writable(below, AddressOf(instr))
        /\ \E val1 \in read(mem, below.TOS) :
              Proceed(write(below, AddressOf(instr), val1))

\* The position is reset before the value is written, so a POP to an address
\* of the stack segment puts the value back where it was.
Pop(instr) ==
    LET below == Below(mem)
        reset == [below EXCEPT !.cell[CellOf(below.TOS)] = 0]
    IN  /\ OpOf(instr) = POP
        /\ mem.TOS > STACK_SEG_BASE
        /\ Writable(below, AddressOf(instr))
        /\ \E val1 \in read(mem, below.TOS) :
              Proceed(write(reset, AddressOf(instr), val1))

\* Faulty: the operands are taken in the wrong order.
Operate_Swapped(instr) ==
    LET first == Below(mem)
        second == Below(put(first, first.TOS, 0))
    IN  /\ OpOf(instr) \in Operators
        /\ Writable(first, first.TOS)
        /\ Writable(second, second.TOS)
        /\ \E val2 \in read(mem, first.TOS), val1 \in read(mem, second.TOS) :
              /\ OpOf(instr) = DIV => val1 # 0
              /\ Proceed(write(second, second.TOS,
                               Result(OpOf(instr), val2, val1)))

\* ADD, SUB, MULT and DIV.
Operate(instr) ==
    LET first == Below(mem)
        second == Below(put(first, first.TOS, 0))
    IN  /\ OpOf(instr) \in Operators
        /\ Writable(first, first.TOS)
        /\ Writable(second, second.TOS)
        /\ \E val1 \in read(mem, first.TOS), val2 \in read(mem, second.TOS) :
              /\ OpOf(instr) = DIV => val1 # 0
              /\ Proceed(write(second, second.TOS,
                               Result(OpOf(instr), val2, val1)))

\* END prints the top of the stack, or whatever is below an empty one.
EndInstr(instr) ==
    /\ OpOf(instr) = END
    /\ \E val \in read(mem, mem.TOS - 1) : Printout(Below(mem), val)

\* How deep the stack is.
Depth == mem.TOS - STACK_SEG_BASE

\* An instruction is not carried out: an address that is no cell or may not
\* be written, a stack with too few or too many values, a divisor of zero,
\* an op-code of the other machine.
Breaks(instr) ==
    LET op == OpOf(instr)
        address == AddressOf(instr)
    IN  \/ ~IsCell(PC)
        \/ /\ op = PUSH
           /\ ~IsCell(address) \/ Depth > STACK_SEG_LENGTH
        \/ op = POP /\ (Depth = 0 \/ ~Writable(Below(mem), address))
        \/ op \in Operators /\ Depth < 2
        \/ op = DIV /\ Depth >= 2 /\ mem.cell[CellOf(mem.TOS - 1)] = 0
        \/ op = END /\ Depth = 0
        \/ op \notin {PUSH, POP, END} \cup Operators

Break(instr) == Breaks(instr) /\ Fail

execute ==
    /\ status = "running"
    /\ \E instr \in read(mem, PC) :
          Push(instr) \/ Pop(instr) \/ Operate(instr) \/ EndInstr(instr)
            \/ Break(instr)

Next == ReadLine \/ Start \/ execute

Spec == Init /\ [][Next]_vars
-----------------------------------------------------------------------------
\* The numbers of a calculator are the cells of the data segment.
Name == DATA_SEG_BASE..(DATA_SEG_BASE + DATA_SEG_LENGTH - 1)
Onto == STACK_SEG_BASE..(AddressSize - 1)

IsInstr(l) == l.kind = "instr"

\* Line n belongs to a block that a directive has begun.
Belongs(n, directive) ==
    \E k \in 1..(n - 1) :
        /\ file[k].kind = directive
        /\ \A j \in (k + 1)..(n - 1) : file[j].kind \in {"datum", "instr"}

\* A file that keeps to its segments: numbers are not among the instructions,
\* nor instructions among the numbers, the program fits into the text segment,
\* the numbers are in the data segment and so are all operands, but that a
\* value may be popped to the stack segment.
Tame ==
    /\ Cardinality({n \in DOMAIN file : IsInstr(file[n])}) <= TEXT_SEG_LENGTH
    /\ \A n \in DOMAIN file :
          LET l == file[n]
          IN  /\ l.kind = "datum" => l.address \in Name /\ ~Belongs(n, "text")
              /\ IsInstr(l) => ~Belongs(n, "data")
              /\ IsInstr(l) /\ l.op = PUSH => l.address \in Name
              /\ IsInstr(l) /\ l.op = POP => l.address \in Name \cup Onto

\* "Reset the data at this position" (stackSim.cpp:60-64, 76-80): above its
\* top the stack segment holds nothing but zeros, so that no value is found
\* there which an earlier instruction has taken.
StackIsClean ==
    Tame /\ status \in {"loading", "running"} =>
        \A c \in Cells : c >= FirstOfStack + Depth => mem.cell[c] = 0

\* The machine as a calculator, switched off if the file is not tame.
Of(actual, off) == IF Tame THEN actual ELSE off

Item(instr) == [op |-> OpOf(instr), address |-> AddressOf(instr)]

Program == Of([n \in 1..(mem.TEXT_TOP - TEXT_SEG_BASE) |->
                  Item(mem.cell[n - 1])], <<>>)
Store == Of([d \in Name |-> mem.cell[CellOf(d)]], [d \in Name |-> 0])
Stack == Of([n \in 1..Depth |-> mem.cell[FirstOfStack + n - 1]], <<>>)
Counter == Of(PC - TEXT_SEG_BASE + 1, 1)
Status == Of(status, "loading")
Answer == Of(answer, 0)

C == INSTANCE Calculator WITH
        Capacity <- STACK_SEG_LENGTH + 1, program <- Program, store <- Store,
        stack <- Stack, pc <- Counter, status <- Status, answer <- Answer

\* A file that keeps to its segments makes the simulator a calculator: every
\* instruction takes its operands from the top of the stack and leaves the
\* rest of the stack, the program and the other numbers alone.
ImplementsCalculator == C!Spec
=============================================================================
