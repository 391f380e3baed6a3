-------------------------- MODULE SegmentedMemory --------------------------
(***************************************************************************)
(* comp4300/project1/src/util.h and util.cpp, which stackSim and accumSim  *)
(* share: the op-codes, the three segments of memory and the routine that  *)
(* fills them from a file.                                                 *)
(*                                                                         *)
(* No read is checked against the length of a segment, and a write may go  *)
(* one cell beyond it.  The segments are globals which the compiler lays   *)
(* out one behind another, so the cell behind one is the first of the      *)
(* next; what is behind the last is used by nobody.                        *)
(***************************************************************************)
EXTENDS StackWords

CONSTANTS
    TEXT_SEG_BASE, DATA_SEG_BASE, STACK_SEG_BASE,
    TEXT_SEG_LENGTH, DATA_SEG_LENGTH, STACK_SEG_LENGTH,
    Junk             \* what may be found where the simulator keeps nothing

(***************************************************************************)
(* The lines of a file                                                     *)
(***************************************************************************)
Directive(name) == [kind |-> name]                   \* ".text", ".data"
Blank == [kind |-> "blank"]
Datum(address, word) == [kind |-> "datum", address |-> address, word |-> word]
Instr(op, address) == [kind |-> "instr", op |-> op, address |-> address]

Lines == [kind : {"text", "data", "blank"}]
            \cup [kind : {"datum"}, address : Address, word : Word]
            \cup [kind : {"instr"}, op : OpCodes, address : Address]

\* Segments lie so far apart that an address just below one is not a cell.
ASSUME SegmentedMemoryAssumption ==
    /\ AddressSize \in Nat
    /\ TEXT_SEG_LENGTH \in Nat /\ DATA_SEG_LENGTH \in Nat
    /\ STACK_SEG_LENGTH \in Nat
    /\ TEXT_SEG_BASE \in Nat /\ TEXT_SEG_BASE > 0
    /\ DATA_SEG_BASE \in Nat
    /\ TEXT_SEG_BASE + TEXT_SEG_LENGTH + DATA_SEG_LENGTH + STACK_SEG_LENGTH + 1
           < DATA_SEG_BASE
    /\ STACK_SEG_BASE \in Nat
    /\ DATA_SEG_BASE + DATA_SEG_LENGTH + STACK_SEG_LENGTH + 1 < STACK_SEG_BASE
    /\ STACK_SEG_BASE + STACK_SEG_LENGTH < AddressSize
    /\ Junk \subseteq Word

(***************************************************************************)
(* The globals                                                             *)
(***************************************************************************)
VARIABLES
    file,         \* the lines of the file that was named
    line,         \* the next line to be read
    segment,      \* the segment that the lines belong to, "none" for ""
    mem,          \* the three segments and their tops
    PC,
    status,       \* "loading", "running"; then "answered" by END, "complete"
                  \* after the last instruction, "threw" or "crashed"
    answer        \* what END printed

vars == <<file, line, segment, mem, PC, status, answer>>

\* All cells; the last is the one behind the stack segment.
Cells == 0..(TEXT_SEG_LENGTH + DATA_SEG_LENGTH + STACK_SEG_LENGTH)

FirstOfStack == TEXT_SEG_LENGTH + DATA_SEG_LENGTH

Memory == [cell : [Cells -> Word], TEXT_TOP : Nat, DATA_TOP : Nat, TOS : Nat]

TypeOK ==
    /\ file \in Seq(Lines)
    /\ line \in 1..(Len(file) + 1)
    /\ segment \in {"text", "data", "none"}
    /\ mem \in Memory
    /\ mem.TOS <= STACK_SEG_BASE + STACK_SEG_LENGTH + 1
    /\ mem.TOS < STACK_SEG_BASE => status = "answered"
    /\ PC \in Nat /\ PC >= TEXT_SEG_BASE
    /\ status = "running" => PC < mem.TEXT_TOP
    /\ status \in {"loading", "running", "answered", "complete", "threw",
                   "crashed"}
    /\ answer \in Word

Init ==
    /\ file \in Seq(Lines)
    /\ line = 1
    /\ segment = "none"
    /\ mem = [cell |-> [c \in Cells |-> 0], TEXT_TOP |-> TEXT_SEG_BASE,
              DATA_TOP |-> DATA_SEG_BASE, TOS |-> STACK_SEG_BASE]
    /\ PC = TEXT_SEG_BASE
    /\ status = "loading"
    /\ answer = 0

(***************************************************************************)
(* Memory                                                                  *)
(***************************************************************************)
InTextSeg(address) == TEXT_SEG_BASE <= address /\ address < DATA_SEG_BASE
InDataSeg(address) == DATA_SEG_BASE <= address /\ address < STACK_SEG_BASE
InStackSeg(address) == STACK_SEG_BASE <= address

CellOf(address) ==
    IF InTextSeg(address) THEN address - TEXT_SEG_BASE
    ELSE IF InDataSeg(address) THEN TEXT_SEG_LENGTH + address - DATA_SEG_BASE
    ELSE FirstOfStack + address - STACK_SEG_BASE

IsCell(address) == TEXT_SEG_BASE <= address /\ CellOf(address) \in Cells

\* The words a read may return, none when it throws.  Where nothing is kept
\* the read may crash the simulator, too.
read(m, address) ==
    IF IsCell(address) THEN {m.cell[CellOf(address)]}
    ELSE IF TEXT_SEG_BASE <= address THEN Junk
    ELSE {}

\* Faulty: the top of the stack is not tested.
Writable_Unbounded(m, address) ==
    \/ InTextSeg(address) /\ address - TEXT_SEG_BASE <= TEXT_SEG_LENGTH
    \/ InDataSeg(address) /\ address - DATA_SEG_BASE <= DATA_SEG_LENGTH
    \/ InStackSeg(address)

\* In the stack segment only the top is written, whatever the address is.
Writable(m, address) ==
    \/ InTextSeg(address) /\ address - TEXT_SEG_BASE <= TEXT_SEG_LENGTH
    \/ InDataSeg(address) /\ address - DATA_SEG_BASE <= DATA_SEG_LENGTH
    \/ InStackSeg(address) /\ m.TOS - STACK_SEG_BASE \in 0..STACK_SEG_LENGTH

\* write() without and with its increment_top.
put(m, address, data) ==
    [m EXCEPT !.cell[CellOf(IF InStackSeg(address) THEN m.TOS ELSE address)]
                 = data]

write(m, address, data) ==
    LET done == put(m, address, data)
    IN  IF InTextSeg(address) THEN [done EXCEPT !.TEXT_TOP = @ + 1]
        ELSE IF InDataSeg(address) THEN [done EXCEPT !.DATA_TOP = @ + 1]
        ELSE [done EXCEPT !.TOS = @ + 1]

(***************************************************************************)
(* Reading the file                                                        *)
(***************************************************************************)
encode(l) ==
    l.op * AddressSize + (IF l.op \in {SUB, DIV, END} THEN 0 ELSE l.address)

Throw ==
    /\ status' = "threw"
    /\ UNCHANGED <<file, line, segment, mem, PC, answer>>

\* A line that is written to memory.
Place(address, data) ==
    \/ /\ Writable(mem, address)
       /\ mem' = write(mem, address, data)
       /\ line' = line + 1
       /\ UNCHANGED <<file, segment, PC, status, answer>>
    \/ ~Writable(mem, address) /\ Throw

\* A line that only tells what the following ones are.
Turn(name) ==
    /\ segment' = name
    /\ line' = line + 1
    /\ UNCHANGED <<file, mem, PC, status, answer>>

\* One round of the loop in init().  The file can be opened: otherwise
\* init() throws before its first line (util.cpp:391).
ReadLine ==
    /\ status = "loading"
    /\ line <= Len(file)
    /\ LET l == file[line]
       IN  \/ l.kind \in {"text", "data"} /\ Turn(l.kind)
           \/ l.kind = "blank" /\ Turn("none")
           \/ /\ l.kind = "datum" /\ segment = "data"
              /\ Place(l.address, l.word)
           \/ /\ l.kind = "instr" /\ segment = "text"
              /\ Place(mem.TEXT_TOP, encode(l))
           \/ l.kind \in {"datum", "instr"} /\ segment = "none" /\ Turn("none")
           \* stoi() knows no op-codes; encode() leaves a word unset.
           \/ l.kind = "instr" /\ segment = "data" /\ Throw
           \/ /\ l.kind = "datum" /\ segment = "text"
              /\ \E word \in Junk : Place(mem.TEXT_TOP, word)

\* init() returns and execute() tests its loop for the first time.
Start ==
    /\ status = "loading"
    /\ line > Len(file)
    /\ status' = IF PC < mem.TEXT_TOP THEN "running" ELSE "complete"
    /\ UNCHANGED <<file, line, segment, mem, PC, answer>>

(***************************************************************************)
(* What the instructions of both simulators have in common                 *)
(***************************************************************************)
OpOf(instr) == instr \div AddressSize
AddressOf(instr) == instr % AddressSize

\* The loop of execute() goes on with memory m.
Proceed(m) ==
    /\ mem' = m
    /\ PC' = PC + 1
    /\ status' = IF PC + 1 < m.TEXT_TOP THEN "running" ELSE "complete"
    /\ UNCHANGED <<file, line, segment, answer>>

Printout(m, val) ==
    /\ mem' = m
    /\ answer' = val
    /\ status' = "answered"
    /\ UNCHANGED <<file, line, segment, PC>>

Fail ==
    /\ status' \in {"threw", "crashed"}
    /\ UNCHANGED <<file, line, segment, mem, PC, answer>>
=============================================================================
