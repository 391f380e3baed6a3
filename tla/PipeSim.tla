------------------------------ MODULE PipeSim ------------------------------
(***************************************************************************)
(* comp4300/project3/src/pipeSim/pipeSim.cpp: a simulator with the five    *)
(* stages and the latches of a pipeline, which nevertheless takes one      *)
(* instruction through all five before it fetches the next.  Registers are *)
(* up to date whenever one is read, so every forwarded operand had better  *)
(* be the register's own value.  The stages are operators, an action is    *)
(* one iteration of run()'s loop.                                          *)
(*                                                                         *)
(* Fields of a latch that a stage does not assign are whatever was on the  *)
(* stack: the latches are locals, returned by value.  Of the latches only  *)
(* ex_mem.rd and ex_mem.alu_out are read by a later iteration to any       *)
(* effect.                                                                 *)
(***************************************************************************)
EXTENDS Assembler

CONSTANTS
    WordSize,     \* the number of values of a word, 2^32
    R_LENGTH,     \* the number of registers, 32
    DATA_SEG_LENGTH,
    Sources,      \* the assembler files, numbered
    Lines,        \* what may be typed: sequences of characters
    StackRd,      \* what an unassigned ex_mem.rd may hold
    StackWord,    \* what an unassigned ex_mem.alu_out may hold
    MaxCycles     \* bound on cycle_count

Word == 0..(WordSize - 1)
Register == 0..(R_LENGTH - 1)

OpCodes == {"add", "addi", "subi", "li", "la", "lb",
            "b", "beqz", "bge", "bne", "syscall", "nop"}

Instruction == [kind : {"instr"}, op : OpCodes, rd : Register,
                rs : Register, rt : Register, imm : Word, label : STRING]

\* The text segment of each file, up to TEXT_TOP.
TEXT_SEG == [f \in DOMAIN Sources |-> init_segs(Sources[f])]

\* A newline fits in a word and system calls have their registers.  Every
\* word of the text segment is an instruction; a branch stays in the segment
\* or goes to its end.  No program puts an address of the text segment in a
\* register, so memory is the data segment.
ASSUME PipeSimAssumption ==
    /\ WordSize \in Nat /\ WordSize > 10
    /\ ImmSize <= WordSize
    /\ R_LENGTH \in Nat /\ R_LENGTH > 5
    /\ DATA_SEG_LENGTH \in Nat
    /\ \A f \in DOMAIN Sources :
          /\ Sources[f] \in Seq(SourceLine)
          /\ TEXT_SEG[f] \in Seq(Instruction) \ {<<>>}
          /\ \A n \in DOMAIN TEXT_SEG[f] :
                TEXT_SEG[f][n].op \in Branches =>
                    TEXT_SEG[f][n].imm <= Len(TEXT_SEG[f])
    /\ \A line \in Lines : line \in Seq(Word)
    /\ StackRd \subseteq Nat
    /\ StackWord \subseteq Word
    /\ MaxCycles \in Nat

VARIABLES
    FILENAME,     \* the file named on the command line
    PC,           \* the index of an instruction: PC - TEXT_SEG_BASE
    R,            \* the registers
    DATA_SEG,     \* the data segment
    ex_mem,       \* the latch, as the last iteration left it
    cycle_count, instr_count, nop_count,
    status,       \* "user", "halted", or "threw" after an exception
    output,       \* what the program's system calls have printed
    made,         \* history: how the last iteration made ex_mem
    stray         \* history: was an unassigned field ever used?

vars == <<FILENAME, PC, R, DATA_SEG, ex_mem, cycle_count,
          instr_count, nop_count, status, output, made, stray>>

(***************************************************************************)
(* "result": rd and alu_out are the register written and its value.        *)
(* "address": alu_out is the address that an LB read.                      *)
(* "operand": rd is a branch's first operand, alu_out is unassigned.       *)
(* "nothing": both are unassigned.                                         *)
(***************************************************************************)
Makings == {"result", "address", "operand", "nothing"}

\* The program that runs.
text == TEXT_SEG[FILENAME]

TypeOK ==
    /\ FILENAME \in DOMAIN Sources
    /\ PC \in 0..Len(text)
    /\ status = "user" => PC < Len(text)
    /\ R \in [Register -> Word]
    /\ DATA_SEG \in [0..(DATA_SEG_LENGTH - 1) -> Word]
    /\ ex_mem \in [rd : Nat, alu_out : Word]
    /\ cycle_count \in 0..MaxCycles
    /\ instr_count \in Nat
    /\ nop_count \in Nat
    /\ status \in {"user", "halted", "threw"}
    /\ made \in Makings
    /\ stray \in BOOLEAN

Init ==
    /\ FILENAME \in DOMAIN Sources
    /\ PC = 0
    /\ R = [r \in Register |-> 0]
    /\ DATA_SEG = [k \in 0..(DATA_SEG_LENGTH - 1) |-> 0]
    /\ ex_mem = [rd |-> 0, alu_out |-> 0]        \* clear_latches()
    /\ cycle_count = 0
    /\ instr_count = 0
    /\ nop_count = 0
    /\ status = "user"
    /\ output = <<>>
    /\ made = "result"
    /\ stray = FALSE

(***************************************************************************)
(* Fetch and decode                                                        *)
(***************************************************************************)

\* The instruction of this iteration.
ir == text[PC + 1]

\* Forwarding looks at rd where the first operand is register rs.
UsesA(i) == i.op \in {"add", "addi", "subi", "lb"}
UsesB(i) == i.op = "add"

operand_A(i) == IF i.rd = ex_mem.rd THEN ex_mem.alu_out ELSE R[i.rs]
operand_B(i) == IF i.rt = ex_mem.rd THEN ex_mem.alu_out ELSE R[i.rt]

\* Does the instruction take an operand from the latch?
Forwards(i) ==
    \/ UsesA(i) /\ i.rd = ex_mem.rd
    \/ UsesB(i) /\ i.rt = ex_mem.rd

Signed(w) == IF 2 * w < WordSize THEN w ELSE w - WordSize

\* Faulty: BNE's test is a copy of BGE's.
Taken_Copied(i) ==
    \/ i.op = "b"
    \/ i.op = "beqz" /\ R[i.rd] = 0
    \/ i.op \in {"bge", "bne"} /\ Signed(R[i.rd]) >= Signed(R[i.rt])

\* Faulty: without the casts to int BGE compares unsigned.
Taken_Unsigned(i) ==
    \/ i.op = "b"
    \/ i.op = "beqz" /\ R[i.rd] = 0
    \/ i.op = "bge" /\ R[i.rd] >= R[i.rt]
    \/ i.op = "bne" /\ R[i.rd] # R[i.rt]

\* Branches read the registers, and decide before anything is forwarded.
Taken(i) ==
    \/ i.op = "b"
    \/ i.op = "beqz" /\ R[i.rd] = 0
    \/ i.op = "bge" /\ Signed(R[i.rd]) >= Signed(R[i.rt])
    \/ i.op = "bne" /\ R[i.rd] # R[i.rt]

(***************************************************************************)
(* Execute and memory                                                      *)
(***************************************************************************)

\* Immediates are not sign extended; words wrap around.
alu_out(i) ==
    CASE i.op = "add"  -> (operand_A(i) + operand_B(i)) % WordSize
      [] i.op = "addi" -> (operand_A(i) + i.imm) % WordSize
      [] i.op = "subi" -> (operand_A(i) - i.imm) % WordSize
      [] i.op \in {"li", "la"} -> i.imm
      [] i.op = "lb"   -> operand_A(i)

InData(address) == address - DataBase \in 0..(DATA_SEG_LENGTH - 1)

read_mem(address) == DATA_SEG[address - DataBase]

\* Faulty: nobody looks at TEXT_TOP.
EndCycle_NoTop(nextPC, exit) ==
    /\ cycle_count' = cycle_count + 1
    /\ PC' = nextPC
    /\ status' = IF exit THEN "halted" ELSE "user"

\* The end of an iteration, which update_PC() and the loop's test close: the
\* machine stops behind the last instruction, or because it was told to.
EndCycle(nextPC, exit) ==
    /\ cycle_count' = cycle_count + 1
    /\ PC' = nextPC
    /\ status' = IF exit \/ nextPC = Len(text) THEN "halted" ELSE "user"

\* An exception ends the program in the middle of an iteration.
Throw ==
    /\ status' = "threw"
    /\ UNCHANGED <<PC, R, ex_mem, made>>

InCycle ==
    /\ status = "user"
    /\ cycle_count < MaxCycles
    /\ stray' = (stray \/ (made \in {"operand", "nothing"} /\ Forwards(ir)))
    /\ UNCHANGED FILENAME

Unassigned == [rd : StackRd, alu_out : StackWord]

(***************************************************************************)
(* One iteration                                                           *)
(***************************************************************************)

\* Faulty: the latch gets the new rd and keeps the old result.
Arith_StaleLatch ==
    /\ InCycle
    /\ ir.op \in {"add", "addi", "subi", "li", "la"}
    /\ R' = [R EXCEPT ![ir.rd] = alu_out(ir)]
    /\ ex_mem' = [ex_mem EXCEPT !.rd = ir.rd]
    /\ made' = "result"
    /\ instr_count' = instr_count + 1
    /\ EndCycle(PC + 1, FALSE)
    /\ UNCHANGED <<DATA_SEG, nop_count, output>>

\* ADD, ADDI, SUBI, LI and LA.
Arith ==
    /\ InCycle
    /\ ir.op \in {"add", "addi", "subi", "li", "la"}
    /\ R' = [R EXCEPT ![ir.rd] = alu_out(ir)]
    /\ ex_mem' = [rd |-> ir.rd, alu_out |-> alu_out(ir)]
    /\ made' = "result"
    /\ instr_count' = instr_count + 1
    /\ EndCycle(PC + 1, FALSE)
    /\ UNCHANGED <<DATA_SEG, nop_count, output>>

\* LB: alu_out is the address.
Load ==
    /\ InCycle
    /\ ir.op = "lb"
    /\ instr_count' = instr_count + 1
    /\ UNCHANGED <<DATA_SEG, nop_count, output>>
    /\ IF InData(alu_out(ir))
       THEN /\ R' = [R EXCEPT ![ir.rd] = read_mem(alu_out(ir))]
            /\ ex_mem' = [rd |-> ir.rd, alu_out |-> alu_out(ir)]
            /\ made' = "address"
            /\ EndCycle(PC + 1, FALSE)
       ELSE Throw /\ cycle_count' = cycle_count + 1

\* A taken branch becomes a NOP; any other goes on with its operands.
Branch ==
    /\ InCycle
    /\ ir.op \in Branches
    /\ instr_count' = instr_count + 1
    /\ IF Taken(ir)
       THEN /\ ex_mem' \in Unassigned
            /\ made' = "nothing"
            /\ EndCycle(ir.imm, FALSE)
       ELSE /\ \E w \in StackWord : ex_mem' = [rd |-> ir.rd, alu_out |-> w]
            /\ made' = "operand"
            /\ EndCycle(PC + 1, FALSE)
    /\ UNCHANGED <<R, DATA_SEG, nop_count, output>>

Nop ==
    /\ InCycle
    /\ ir.op = "nop"
    /\ nop_count' = nop_count + 1
    /\ ex_mem' \in Unassigned
    /\ made' = "nothing"
    /\ EndCycle(PC + 1, FALSE)
    /\ UNCHANGED <<R, DATA_SEG, instr_count, output>>

\* A system call assigns neither rd nor alu_out.
SyscallCycle(exit) ==
    /\ ex_mem' \in Unassigned
    /\ made' = "nothing"
    /\ EndCycle(PC + 1, exit)
    /\ UNCHANGED R

\* System call 8 stores the line typed and a newline (10) from R[4] on.  The
\* loop stops at i > R[5]: that is R[5] + 1 characters.
Stored(line) ==
    (IF Len(line) <= Signed(R[5]) + 1 THEN line
     ELSE SubSeq(line, 1, Signed(R[5]) + 1)) \o <<10>>

\* The cells that can be written are, also when the next one throws.
ReadString ==
    /\ InCycle
    /\ ir.op = "syscall"
    /\ R[2] = 8
    /\ instr_count' = instr_count + 1
    /\ UNCHANGED <<nop_count, output>>
    /\ \E line \in Lines :
          LET chars == Stored(line)
              first == R[4] - DataBase
              fits == InData(R[4]) /\ InData(R[4] + Len(chars) - 1)
          IN  /\ DATA_SEG' = [k \in DOMAIN DATA_SEG |->
                     IF InData(R[4]) /\ k - first + 1 \in DOMAIN chars
                     THEN chars[k - first + 1] ELSE DATA_SEG[k]]
              /\ IF fits THEN SyscallCycle(FALSE)
                 ELSE Throw /\ UNCHANGED cycle_count

\* System calls 1, 4 and 10, and any other, which throws.
Syscall ==
    /\ InCycle
    /\ ir.op = "syscall"
    /\ R[2] # 8
    /\ instr_count' = instr_count + 1
    /\ output' = CASE R[2] = 1 -> Append(output, <<"int", R[4]>>)
                   [] R[2] = 4 -> Append(output, <<"string", R[4]>>)
                   [] OTHER -> output
    /\ IF R[2] \in {1, 4, 10} THEN SyscallCycle(R[2] = 10)
       ELSE Throw /\ UNCHANGED cycle_count
    /\ UNCHANGED <<DATA_SEG, nop_count>>

Next == Arith \/ Load \/ Branch \/ Nop \/ ReadString \/ Syscall

Spec == Init /\ [][Next]_vars

\* run() is a loop that nothing else holds up.
FairSpec == Spec /\ WF_vars(Next)

(***************************************************************************)
(* Properties                                                              *)
(***************************************************************************)

\* What the instructions of util.h are called after: the value that goes to
\* register rd.
Meaning(i) ==
    CASE i.op = "add"  -> (R[i.rs] + R[i.rt]) % WordSize
      [] i.op = "addi" -> (R[i.rs] + i.imm) % WordSize
      [] i.op = "subi" -> (R[i.rs] - i.imm) % WordSize
      [] i.op \in {"li", "la"} -> i.imm
      [] i.op = "lb"   -> read_mem(R[i.rs])

WritesRegister(i) == i.op \in {"add", "addi", "subi", "li", "la", "lb"}

\* The instruction is one that forwarding serves right: what it takes from
\* the latch is the result of the instruction before it, and if it names
\* that result as its destination it also names it as its first operand.
Forwardable(i) ==
    Forwards(i) => /\ made = "result"
                   /\ UsesA(i) /\ i.rd = ex_mem.rd => i.rs = i.rd

\* Forwarding ("Detect data hazards and deal with forwarding",
\* pipeSim.cpp:292) never changes what a program computes, as long as its
\* instructions are forwardable: each writes to its register what it means,
\* and to no other.  It compares rd where it should compare rs, so it is
\* wrong for LI $1, 5; ADD $1, $2, $3, and right for ADD $1, $1, $2.
ForwardingIsSound ==
    [][ Forwardable(ir) /\ status' # "threw" =>
            R' = IF WritesRegister(ir)
                 THEN [R EXCEPT ![ir.rd] = Meaning(ir)] ELSE R ]_vars

\* The totals that run() prints add up: every cycle is an instruction or a
\* NOP, a taken branch that became a NOP on the way through included.  The
\* counters are incremented in eleven places of instr_decode(), and
\* cycle_count after instr_execute() (pipeSim.cpp:93, 121).
CyclesAddUp ==
    status # "threw" => cycle_count = instr_count + nop_count

\* A branch goes to the instruction below its label, for the source at hand;
\* with an odd line at any place of it (such a line has a word, but what the
\* machine makes of one that was never assigned is left out) the labels below
\* are one word off, and no other.
LabelsAreResolved ==
    LET src == Sources[FILENAME]
    IN  cycle_count = 0 =>
            /\ LabelNamesNextInstruction(src)
            /\ \A p \in DOMAIN src : LabelNamesNextInstruction(InsertAt(src, p, Odd))

=============================================================================
