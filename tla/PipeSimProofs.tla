--------------------------- MODULE PipeSimProofs ---------------------------
(***************************************************************************)
(* Proofs about PipeSim, for every set of programs and every content of    *)
(* the unassigned fields: types and totals, forwarding, labels; and, in    *)
(* the second half, the runs of lab3c.s and lab3b.s, instruction by        *)
(* instruction: their words in the text segment, what single steps do,     *)
(* and one inductive invariant for each program, Inv3c and Inv3b.          *)
(***************************************************************************)
EXTENDS PipeSimLabs, WellFoundedInduction, FiniteSetTheorems,
        SequenceTheorems, TLAPS

\* After an iteration that wrote a register the latch names that register,
\* and holds what is in it.
LatchHoldsResult ==
    made = "result" => /\ ex_mem.rd \in Register
                       /\ ex_mem.alu_out = R[ex_mem.rd]

IInv == TypeOK /\ LatchHoldsResult /\ CyclesAddUp

(***************************************************************************)
(* Words                                                                   *)
(***************************************************************************)

\* The remainder that wraps a result is a word.
LEMMA RemainderIsWord ==
    ASSUME NEW n \in Int PROVE n % WordSize \in Word
<1>1. WordSize \in Int /\ WordSize > 0
    BY PipeSimAssumption
<1>2. n % WordSize \in Int /\ 0 <= n % WordSize /\ n % WordSize < WordSize
    BY <1>1
<1> QED
    BY <1>1, <1>2 DEF Word

\* A word is a number.
LEMMA WordIsInt == ASSUME NEW w \in Word PROVE w \in Int /\ w \in Nat
<1>1. WordSize \in Int
    BY PipeSimAssumption
<1> QED
    BY <1>1 DEF Word

\* Zero and the newline are words.
LEMMA SomeWords == 0 \in Word /\ 10 \in Word
<1>1. WordSize \in Int /\ WordSize > 10
    BY PipeSimAssumption
<1> QED
    BY <1>1 DEF Word

\* The text segment of the file that runs, and its branch targets.
LEMMA TextType ==
    ASSUME FILENAME \in DOMAIN Sources
    PROVE  /\ text \in Seq(Instruction)
           /\ text # <<>>
           /\ \A n \in DOMAIN text :
                 text[n].op \in Branches => text[n].imm <= Len(text)
BY PipeSimAssumption DEF text

\* A machine that runs has an instruction to run.
LEMMA InstructionType ==
    ASSUME TypeOK, status = "user"
    PROVE  /\ ir \in Instruction
           /\ ir.op \in Branches => ir.imm \in 0..Len(text)
           /\ PC \in Nat /\ PC < Len(text) /\ Len(text) \in Nat
<1>1. /\ text \in Seq(Instruction)
      /\ \A n \in DOMAIN text :
            text[n].op \in Branches => text[n].imm <= Len(text)
    BY TextType DEF TypeOK
<1>2. Len(text) \in Nat /\ PC \in Nat /\ PC < Len(text)
    BY <1>1 DEF TypeOK
<1>3. PC + 1 \in DOMAIN text
    BY <1>1, <1>2
<1>4. ir \in Instruction
    BY <1>1, <1>3 DEF ir
<1>5. ir.imm \in Nat
    BY <1>4, WordIsInt DEF Instruction
<1>6. ir.op \in Branches => ir.imm <= Len(text)
    BY <1>1, <1>3 DEF ir
<1> QED
    BY <1>2, <1>4, <1>5, <1>6

\* The operands of an instruction are words, forwarded or not.
LEMMA OperandType ==
    ASSUME TypeOK, NEW i \in Instruction
    PROVE  /\ operand_A(i) \in Word /\ operand_B(i) \in Word
           /\ R[i.rs] \in Word /\ R[i.rt] \in Word
BY DEF TypeOK, Instruction, operand_A, operand_B

\* What an instruction other than LB computes is a word.
LEMMA ResultType ==
    ASSUME TypeOK, NEW i \in Instruction,
           i.op \in {"add", "addi", "subi", "li", "la"}
    PROVE  alu_out(i) \in Word
<1> DEFINE A == operand_A(i)
           B == operand_B(i)
<1>1. A \in Int /\ B \in Int /\ i.imm \in Int /\ i.imm \in Word
    BY OperandType, WordIsInt DEF Instruction
<1>2. /\ (A + B) % WordSize \in Word
      /\ (A + i.imm) % WordSize \in Word
      /\ (A - i.imm) % WordSize \in Word
    BY <1>1, RemainderIsWord
<1> QED
    BY <1>1, <1>2 DEF alu_out

\* The first state.
LEMMA InitIInv == ASSUME Init PROVE IInv
<1>1. text \in Seq(Instruction) /\ text # <<>>
    BY TextType DEF Init
<1>2. Len(text) \in Nat /\ Len(text) > 0
    BY <1>1
<1>3. R_LENGTH \in Nat /\ R_LENGTH > 0 /\ MaxCycles \in Nat
    BY PipeSimAssumption
<1>4. 0 \in Register
    BY <1>3 DEF Register
<1>5. TypeOK
  <2>1. PC \in 0..Len(text) /\ PC < Len(text) /\ cycle_count \in 0..MaxCycles
    BY <1>2, <1>3 DEF Init
  <2>2. /\ R \in [Register -> Word]
        /\ DATA_SEG \in [0..(DATA_SEG_LENGTH - 1) -> Word]
        /\ ex_mem \in [rd : Nat, alu_out : Word]
    BY SomeWords DEF Init
  <2> QED
    BY <2>1, <2>2 DEF Init, TypeOK, Makings
<1>6. LatchHoldsResult
    BY <1>4 DEF Init, LatchHoldsResult
<1>7. CyclesAddUp
    BY DEF Init, CyclesAddUp
<1> QED
    BY <1>5, <1>6, <1>7 DEF IInv

(***************************************************************************)
(* Steps                                                                   *)
(***************************************************************************)

\* The part of the type invariant that says where the machine is.
Control ==
    /\ FILENAME \in DOMAIN Sources
    /\ PC \in 0..Len(text)
    /\ status = "user" => PC < Len(text)
    /\ cycle_count \in 0..MaxCycles
    /\ status \in {"user", "halted", "threw"}
    /\ stray \in BOOLEAN

\* The rest of it.
Contents ==
    /\ R \in [Register -> Word]
    /\ DATA_SEG \in [0..(DATA_SEG_LENGTH - 1) -> Word]
    /\ ex_mem \in [rd : Nat, alu_out : Word]
    /\ instr_count \in Nat
    /\ nop_count \in Nat
    /\ made \in Makings

LEMMA TypePartsNext == ASSUME Control', Contents' PROVE TypeOK'
BY DEF TypeOK, Control, Contents

\* The program does not change, and strayed or not is a truth value.
LEMMA CycleFrame ==
    ASSUME InCycle, TypeOK
    PROVE  /\ status = "user" /\ cycle_count < MaxCycles
           /\ FILENAME' = FILENAME /\ text' = text
           /\ stray' \in BOOLEAN
           /\ cycle_count \in Nat /\ MaxCycles \in Nat
<1>1. MaxCycles \in Nat
    BY PipeSimAssumption
<1>2. cycle_count \in Nat
    BY <1>1 DEF TypeOK
<1>3. stray' \in BOOLEAN
    BY DEF InCycle, TypeOK
<1> QED
    BY <1>1, <1>2, <1>3 DEF InCycle, text

\* An iteration that goes on to an instruction of the program, or to the
\* end of it, leaves the machine in the program or halted.
LEMMA EndCycleControl ==
    ASSUME TypeOK, InCycle, NEW next \in 0..Len(text), NEW exit \in BOOLEAN,
           EndCycle(next, exit)
    PROVE  Control' /\ cycle_count' = cycle_count + 1
<1>1. Len(text) \in Nat
    BY TextType DEF TypeOK
<1>2. PC' \in 0..Len(text') /\ (status' = "user" => PC' < Len(text'))
    BY <1>1, CycleFrame DEF EndCycle
<1>3. cycle_count' \in 0..MaxCycles
    BY CycleFrame DEF EndCycle
<1> QED
    BY <1>2, <1>3, CycleFrame DEF EndCycle, Control, TypeOK

\* An exception stops the machine where it is.
LEMMA ThrowControl ==
    ASSUME TypeOK, InCycle, Throw,
           cycle_count' \in {cycle_count, cycle_count + 1}
    PROVE  Control'
<1>1. cycle_count' \in 0..MaxCycles
    BY CycleFrame
<1> QED
    BY <1>1, CycleFrame DEF Throw, Control, TypeOK

\* An unassigned latch still has fields.
LEMMA UnassignedType == Unassigned \subseteq [rd : Nat, alu_out : Word]
BY PipeSimAssumption DEF Unassigned

\* The next instruction, one of the program or its end.
LEMMA NextPC ==
    ASSUME TypeOK, status = "user"
    PROVE  PC + 1 \in 0..Len(text)
BY InstructionType

\* ADD, ADDI, SUBI, LI and LA keep the invariant.
LEMMA ArithIInv == ASSUME IInv, Arith PROVE IInv'
<1>1. TypeOK /\ InCycle /\ status = "user" /\ CyclesAddUp
    BY DEF IInv, Arith, InCycle
<1>2. ir \in Instruction /\ PC + 1 \in 0..Len(text)
    BY <1>1, InstructionType, NextPC
<1>3. Control' /\ cycle_count' = cycle_count + 1
    BY <1>1, <1>2, EndCycleControl DEF Arith
<1>4. alu_out(ir) \in Word /\ ir.rd \in Register
    BY <1>1, <1>2, ResultType DEF Arith, Instruction
<1>5. ir.rd \in Nat
    BY <1>4 DEF Register
<1>6. R' \in [Register -> Word] /\ R'[ir.rd] = alu_out(ir)
    BY <1>1, <1>4 DEF Arith, TypeOK
<1>7. ex_mem' = [rd |-> ir.rd, alu_out |-> alu_out(ir)] /\ made' = "result"
    BY DEF Arith
<1>8. Contents'
    BY <1>1, <1>4, <1>5, <1>6, <1>7 DEF Arith, TypeOK, Contents, Makings
<1>9. LatchHoldsResult'
    BY <1>4, <1>6, <1>7 DEF LatchHoldsResult
<1>10. CyclesAddUp'
    BY <1>1, <1>3, CycleFrame DEF Arith, CyclesAddUp, TypeOK
<1> QED
    BY <1>3, <1>8, <1>9, <1>10, TypePartsNext DEF IInv

\* LB keeps the invariant, whether its address is good or not.
LEMMA LoadIInv == ASSUME IInv, Load PROVE IInv'
<1>1. TypeOK /\ InCycle /\ status = "user" /\ CyclesAddUp
    BY DEF IInv, Load, InCycle
<1>2. ir \in Instruction /\ PC + 1 \in 0..Len(text)
    BY <1>1, InstructionType, NextPC
<1>3. alu_out(ir) \in Word /\ ir.rd \in Register /\ ir.rd \in Nat
    BY <1>1, <1>2, OperandType DEF Load, alu_out, Instruction, Register
<1>4. CASE InData(alu_out(ir))
  <2>1. Control' /\ cycle_count' = cycle_count + 1
      BY <1>1, <1>2, <1>4, EndCycleControl DEF Load
  <2>2. read_mem(alu_out(ir)) \in Word
      BY <1>1, <1>4 DEF read_mem, InData, TypeOK
  <2>3. R' \in [Register -> Word]
      BY <1>1, <1>4, <2>2 DEF Load, TypeOK
  <2>4. Contents' /\ made' = "address"
      BY <1>1, <1>3, <1>4, <2>3 DEF Load, TypeOK, Contents, Makings
  <2>5. LatchHoldsResult'
      BY <2>4 DEF LatchHoldsResult
  <2>6. CyclesAddUp'
      BY <1>1, <2>1, CycleFrame DEF Load, CyclesAddUp, TypeOK
  <2> QED
      BY <2>1, <2>4, <2>5, <2>6, TypePartsNext DEF IInv
<1>5. CASE ~InData(alu_out(ir))
  <2>1. Throw /\ cycle_count' = cycle_count + 1
      BY <1>5 DEF Load
  <2>2. Control'
      BY <1>1, <2>1, ThrowControl
  <2>3. Contents'
      BY <1>1, <2>1 DEF Load, Throw, TypeOK, Contents
  <2>4. LatchHoldsResult'
      BY <2>1 DEF Throw, IInv, LatchHoldsResult
  <2>5. CyclesAddUp'
      BY <2>1 DEF Throw, CyclesAddUp
  <2> QED
      BY <2>2, <2>3, <2>4, <2>5, TypePartsNext DEF IInv
<1> QED
    BY <1>4, <1>5

\* A branch keeps the invariant, taken or not.
LEMMA BranchIInv == ASSUME IInv, Branch PROVE IInv'
<1>1. TypeOK /\ InCycle /\ status = "user" /\ CyclesAddUp
    BY DEF IInv, Branch, InCycle
<1>2. /\ ir \in Instruction /\ PC + 1 \in 0..Len(text)
      /\ ir.imm \in 0..Len(text)
    BY <1>1, InstructionType, NextPC DEF Branch
<1>3. Control' /\ cycle_count' = cycle_count + 1
    BY <1>1, <1>2, EndCycleControl DEF Branch
<1>4. ex_mem' \in [rd :
          Nat, alu_out : Word] /\ made' \in {"nothing", "operand"}
  <2>1. ir.rd \in Nat
      BY <1>2 DEF Instruction, Register
  <2>2. StackWord \subseteq Word
      BY PipeSimAssumption
  <2>3. \A w \in StackWord :
            [rd |-> ir.rd, alu_out |-> w] \in [rd : Nat, alu_out : Word]
      BY <2>1, <2>2
  <2>4. CASE Taken(ir)
      BY <2>4, UnassignedType DEF Branch
  <2>5. CASE ~Taken(ir)
      BY <2>3, <2>5 DEF Branch
  <2> QED
      BY <2>4, <2>5
<1>5. Contents'
    BY <1>1, <1>4 DEF Branch, TypeOK, Contents, Makings
<1>6. LatchHoldsResult'
    BY <1>4 DEF LatchHoldsResult
<1>7. CyclesAddUp'
    BY <1>1, <1>3, CycleFrame DEF Branch, CyclesAddUp, TypeOK
<1> QED
    BY <1>3, <1>5, <1>6, <1>7, TypePartsNext DEF IInv

\* So does a NOP.
LEMMA NopIInv == ASSUME IInv, Nop PROVE IInv'
<1>1. TypeOK /\ InCycle /\ status = "user" /\ CyclesAddUp
    BY DEF IInv, Nop, InCycle
<1>2. PC + 1 \in 0..Len(text)
    BY <1>1, NextPC
<1>3. Control' /\ cycle_count' = cycle_count + 1
    BY <1>1, <1>2, EndCycleControl DEF Nop
<1>4. ex_mem' \in [rd : Nat, alu_out : Word] /\ made' = "nothing"
    BY UnassignedType DEF Nop
<1>5. Contents'
    BY <1>1, <1>4 DEF Nop, TypeOK, Contents, Makings
<1>6. LatchHoldsResult'
    BY <1>4 DEF LatchHoldsResult
<1>7. CyclesAddUp'
    BY <1>1, <1>3, CycleFrame DEF Nop, CyclesAddUp, TypeOK
<1> QED
    BY <1>3, <1>5, <1>6, <1>7, TypePartsNext DEF IInv

\* What a system call leaves in the latch is of its type.
LEMMA SyscallCycleIInv ==
    ASSUME IInv, InCycle, NEW exit \in BOOLEAN, SyscallCycle(exit),
           instr_count' = instr_count + 1, nop_count' = nop_count,
           DATA_SEG' \in [0..(DATA_SEG_LENGTH - 1) -> Word]
    PROVE  IInv'
<1>1. TypeOK /\ status = "user" /\ CyclesAddUp
    BY DEF IInv, InCycle
<1>2. PC + 1 \in 0..Len(text)
    BY <1>1, NextPC
<1>3. Control' /\ cycle_count' = cycle_count + 1
    BY <1>1, <1>2, EndCycleControl DEF SyscallCycle
<1>4. ex_mem' \in [rd : Nat, alu_out : Word] /\ made' = "nothing"
    BY UnassignedType DEF SyscallCycle
<1>5. Contents'
    BY <1>1, <1>4 DEF SyscallCycle, TypeOK, Contents, Makings
<1>6. LatchHoldsResult'
    BY <1>4 DEF LatchHoldsResult
<1>7. CyclesAddUp'
    BY <1>1, <1>3, CycleFrame DEF CyclesAddUp, TypeOK
<1> QED
    BY <1>3, <1>5, <1>6, <1>7, TypePartsNext DEF IInv

\* An exception in a system call.
LEMMA SyscallThrowIInv ==
    ASSUME IInv, InCycle, Throw, UNCHANGED cycle_count,
           instr_count' = instr_count + 1, nop_count' = nop_count,
           DATA_SEG' \in [0..(DATA_SEG_LENGTH - 1) -> Word]
    PROVE  IInv'
<1>1. TypeOK
    BY DEF IInv
<1>2. Control'
    BY <1>1, ThrowControl
<1>3. Contents'
    BY <1>1 DEF Throw, TypeOK, Contents
<1>4. LatchHoldsResult' /\ CyclesAddUp'
    BY DEF Throw, IInv, LatchHoldsResult, CyclesAddUp
<1> QED
    BY <1>2, <1>3, <1>4, TypePartsNext DEF IInv

\* What is stored of a line are words.
LEMMA StoredType ==
    ASSUME TypeOK, NEW line \in Lines, NEW k \in DOMAIN Stored(line)
    PROVE  Stored(line)[k] \in Word
<1> DEFINE size == Signed(R[5]) + 1
           kept == IF Len(line) <= size THEN line ELSE SubSeq(line, 1, size)
<1>1. line \in Seq(Word) /\ 10 \in Word
    BY PipeSimAssumption, SomeWords
<1>2. size \in Int
  <2>1. 5 \in Register
      BY PipeSimAssumption DEF Register
  <2>2. R[5] \in Int /\ WordSize \in Int
      BY <2>1, WordIsInt, PipeSimAssumption DEF TypeOK
  <2> QED
      BY <2>2 DEF Signed
<1>3. kept \in Seq(Word)
  <2>1. CASE Len(line) <= size
      BY <1>1, <2>1
  <2>2. CASE ~(Len(line) <= size)
    <3>1. Len(line) \in Nat /\ size < Len(line)
        BY <1>1, <1>2, <2>2
    <3>2. \A n \in 1..size : line[n] \in Word
        BY <1>1, <1>2, <3>1
    <3> HIDE DEF size
    <3>3. SubSeq(line, 1, size) \in Seq(Word)
        BY <1>1, <1>2, <3>1, <3>2
    <3> QED
        BY <2>2, <3>3
  <2> QED
      BY <2>1, <2>2
<1>4. Stored(line) = kept \o <<10>>
    BY DEF Stored
<1>5. kept \o <<10>> \in Seq(Word)
  <2>1. <<10>> \in Seq(Word)
      BY <1>1
  <2> HIDE DEF kept
  <2> QED
      BY <1>3, <2>1
<1> QED
    BY <1>4, <1>5

\* System call 8 keeps the invariant.
LEMMA ReadStringIInv == ASSUME IInv, ReadString PROVE IInv'
<1>1. TypeOK /\ InCycle
    BY DEF IInv, ReadString
<1>2. PICK line \in Lines :
          LET chars == Stored(line)
              first == R[4] - DataBase
              fits == InData(R[4]) /\ InData(R[4] + Len(chars) - 1)
          IN  /\ DATA_SEG' = [k \in DOMAIN DATA_SEG |->
                     IF InData(R[4]) /\ k - first + 1 \in DOMAIN chars
                     THEN chars[k - first + 1] ELSE DATA_SEG[k]]
              /\ IF fits THEN SyscallCycle(FALSE)
                 ELSE Throw /\ UNCHANGED cycle_count
    BY DEF ReadString
<1>3. DATA_SEG' \in [0..(DATA_SEG_LENGTH - 1) -> Word]
    BY <1>1, <1>2, StoredType DEF TypeOK
<1>4. SyscallCycle(FALSE) \/ (Throw /\ UNCHANGED cycle_count)
    BY <1>2
<1> QED
    BY <1>1, <1>3, <1>4, SyscallCycleIInv, SyscallThrowIInv DEF ReadString

\* So do the others.
LEMMA SyscallIInv == ASSUME IInv, Syscall PROVE IInv'
<1>1. TypeOK /\ InCycle
    BY DEF IInv, Syscall
<1>2. DATA_SEG' \in [0..(DATA_SEG_LENGTH - 1) -> Word]
    BY <1>1 DEF Syscall, TypeOK
<1>3. SyscallCycle(R[2] = 10) \/ (Throw /\ UNCHANGED cycle_count)
    BY DEF Syscall
<1>4. (R[2] = 10) \in BOOLEAN
    OBVIOUS
<1> QED
    BY <1>1, <1>2, <1>3, <1>4, SyscallCycleIInv, SyscallThrowIInv DEF Syscall

LEMMA StepIInv == ASSUME IInv, [Next]_vars PROVE IInv'
<1>1. CASE Arith
    BY <1>1, ArithIInv
<1>2. CASE Load
    BY <1>2, LoadIInv
<1>3. CASE Branch
    BY <1>3, BranchIInv
<1>4. CASE Nop
    BY <1>4, NopIInv
<1>5. CASE ReadString
    BY <1>5, ReadStringIInv
<1>6. CASE Syscall
    BY <1>6, SyscallIInv
<1>7. CASE UNCHANGED vars
    BY <1>7 DEF vars, IInv, TypeOK, LatchHoldsResult, CyclesAddUp, text
<1> QED
    BY <1>1, <1>2, <1>3, <1>4, <1>5, <1>6, <1>7 DEF Next

(***************************************************************************)
(* Theorems                                                                *)
(***************************************************************************)

\* The inductive invariant is one.
THEOREM Invariance == Spec => []IInv
<1>1. Init => IInv
    BY InitIInv
<1>2. IInv /\ [Next]_vars => IInv'
    BY StepIInv
<1> QED
    BY <1>1, <1>2, PTL DEF Spec

\* PC stays in the program until the machine stops, registers and memory
\* hold words: run(), pipeSim.cpp:60.
THEOREM TypeCorrect == Spec => []TypeOK
<1>1. IInv => TypeOK
    BY DEF IInv
<1> QED
    BY <1>1, Invariance, PTL

\* The totals of run() add up (pipeSim.cpp:121), for every program.
THEOREM TotalsAddUp == Spec => []CyclesAddUp
<1>1. IInv => CyclesAddUp
    BY DEF IInv
<1> QED
    BY <1>1, Invariance, PTL

\* After a result was forwarded or not, a forwardable instruction reads what
\* its registers hold.
LEMMA OperandsAreRegisters ==
    ASSUME IInv, Forwardable(ir)
    PROVE  /\ UsesA(ir) => operand_A(ir) = R[ir.rs]
           /\ UsesB(ir) => operand_B(ir) = R[ir.rt]
<1>1. ASSUME UsesA(ir), ir.rd = ex_mem.rd
      PROVE  ex_mem.alu_out = R[ir.rs]
    BY <1>1 DEF IInv, LatchHoldsResult, Forwardable, Forwards
<1>2. ASSUME UsesB(ir), ir.rt = ex_mem.rd
      PROVE  ex_mem.alu_out = R[ir.rt]
    BY <1>2 DEF IInv, LatchHoldsResult, Forwardable, Forwards
<1> QED
    BY <1>1, <1>2 DEF operand_A, operand_B

\* One step of the machine, if it is none of those forwarding gets wrong.
LEMMA ForwardableStep ==
    ASSUME IInv, Next, Forwardable(ir), status' # "threw"
    PROVE  R' = IF WritesRegister(ir)
                THEN [R EXCEPT ![ir.rd] = Meaning(ir)] ELSE R
<1>1. CASE Arith
  <2>1. alu_out(ir) = Meaning(ir)
      BY <1>1, OperandsAreRegisters
      DEF Arith, alu_out, Meaning, UsesA, UsesB
  <2> QED
      BY <1>1, <2>1 DEF Arith, WritesRegister
<1>2. CASE Load
  <2>1. InData(alu_out(ir)) /\ ir.op = "lb"
      BY <1>2 DEF Load, Throw
  <2>2. alu_out(ir) = R[ir.rs]
      BY <2>1, OperandsAreRegisters DEF alu_out, UsesA
  <2>3. read_mem(alu_out(ir)) = Meaning(ir)
      BY <2>1, <2>2 DEF Meaning
  <2> QED
      BY <1>2, <2>1, <2>3 DEF Load, WritesRegister
<1>3. CASE Branch \/ Nop \/ ReadString \/ Syscall
  <2>1. ~WritesRegister(ir)
      BY <1>3 DEF Branch, Nop, ReadString, Syscall, WritesRegister, Branches
  <2>2. UNCHANGED R
      BY <1>3 DEF Branch, Nop, ReadString, Syscall, SyscallCycle, Throw
  <2> QED
      BY <2>1, <2>2
<1> QED
    BY <1>1, <1>2, <1>3 DEF Next

\* Forwarding is sound for every forwardable instruction of every program
\* (pipeSim.cpp:292): such an instruction does what it means.
THEOREM ForwardingSound == Spec => ForwardingIsSound
<1>1. IInv /\ [Next]_vars =>
        [ Forwardable(ir) /\ status' # "threw" =>
            R' = IF WritesRegister(ir)
                 THEN [R EXCEPT ![ir.rd] = Meaning(ir)] ELSE R ]_vars
    BY ForwardableStep
<1> QED
    BY <1>1, Invariance, PTL DEF Spec, ForwardingIsSound

(***************************************************************************)
(* Finite sets of numbers                                                  *)
(***************************************************************************)

\* A set of numbers that is not empty has a least element.
LEMMA LeastElement ==
    ASSUME NEW T, T \subseteq Nat, T # {}
    PROVE  \E n \in T : \A m \in T : n <= m
<1>1. PICK n \in T : \A m \in T : <<m, n>> \notin OpToRel(<, Nat)
    BY NatLessThanWellFounded, WFMin, Zenon
<1>2. \A m \in T : ~(m < n)
    BY <1>1, Zenon DEF OpToRel
<1> QED
    BY <1>2

\* And one with a bound has a greatest.
LEMMA GreatestElement ==
    ASSUME NEW N \in Nat, NEW T, T \subseteq 1..N, T # {}
    PROVE  \E n \in T : \A m \in T : n >= m
<1> DEFINE U == {N - t : t \in T}
<1>1. U \subseteq Nat /\ U # {}
  <2>1. \A t \in T : N - t \in Nat
      OBVIOUS
  <2>2. PICK t \in T : TRUE
      OBVIOUS
  <2>3. N - t \in U
      OBVIOUS
  <2> QED
      BY <2>1, <2>3
<1>2. PICK u \in U : \A v \in U : u <= v
    BY <1>1, LeastElement
<1>3. PICK n \in T : u = N - n
    BY <1>2
<1>4. ASSUME NEW m \in T PROVE n >= m
  <2>1. N - n <= N - m
      BY <1>2, <1>3
  <2> QED
      BY <2>1
<1> QED
    BY <1>3, <1>4

(***************************************************************************)
(* The two passes of the assembler                                         *)
(***************************************************************************)

\* The lines of a source down to line p.
LEMMA Beginning ==
    ASSUME NEW src \in Seq(SourceLine), NEW p \in DOMAIN src
    PROVE  LET part == SubSeq(src, 1, p)
           IN  /\ p \in Nat /\ p >= 1 /\ p <= Len(src)
               /\ DOMAIN src = 1..Len(src)
               /\ DOMAIN part = 1..p
               /\ \A q \in 1..p : part[q] = src[q]
<1>1. DOMAIN src = 1..Len(src) /\ Len(src) \in Nat
    OBVIOUS
<1>2. p \in 1..Len(src)
    BY <1>1
<1> QED
    BY <1>1, <1>2

\* They belong to the same segments there.
LEMMA BeginningSegments ==
    ASSUME NEW src \in Seq(SourceLine), NEW p \in DOMAIN src,
           NEW kinds, NEW segment
    PROVE  LinesOf(SubSeq(src, 1, p), kinds, segment) =
               {q \in LinesOf(src, kinds, segment) : q <= p}
<1> DEFINE part == SubSeq(src, 1, p)
<1>1. /\ p \in Nat /\ p >= 1 /\ p <= Len(src) /\ DOMAIN src = 1..Len(src)
      /\ DOMAIN part = 1..p
      /\ \A q \in 1..p : part[q] = src[q]
    BY Beginning
<1> HIDE DEF part
<1>2. ASSUME NEW q \in 1..p
      PROVE  Segment(part, q) = Segment(src, q)
  <2>1. {r \in Directives(part) : r < q} = {r \in Directives(src) : r < q}
      BY <1>1 DEF Directives
  <2>2. ASSUME {r \in Directives(src) : r < q} # {}
        PROVE  part[Max({r \in Directives(src) : r < q})] =
                   src[Max({r \in Directives(src) : r < q})]
    <3> DEFINE above == {r \in Directives(src) : r < q}
    <3>1. ASSUME NEW m \in above, \A r \in above : m >= r
          PROVE  part[Max(above)] = src[Max(above)]
      <4>1. Max(above) \in above
          BY <3>1 DEF Max
      <4>2. Max(above) \in 1..p
          BY <4>1, <1>1 DEF Directives
      <4> QED
          BY <4>2, <1>1
    <3>2. above \subseteq 1..p /\ above # {}
        BY <2>2, <1>1 DEF Directives
    <3>3. \E m \in above : \A r \in above : m >= r
        BY <3>2, <1>1, GreatestElement
    <3> QED
        BY <3>1, <3>3
  <2> QED
      BY <2>1, <2>2 DEF Segment
<1>3. \A q \in 1..p : part[q].kind \in kinds <=> src[q].kind \in kinds
    BY <1>1
<1>4. LinesOf(part, kinds, segment)
          = {q \in 1..p : src[q].kind \in kinds /\ Segment(src, q) = segment}
    BY <1>1, <1>2, <1>3 DEF LinesOf
<1>5. {q \in LinesOf(src, kinds, segment) : q <= p}
          = {q \in 1..p : src[q].kind \in kinds /\ Segment(src, q) = segment}
    BY <1>1 DEF LinesOf
<1> QED
    BY <1>4, <1>5 DEF part

\* The lines that a pass takes are finitely many.
LEMMA LinesAreFinite ==
    ASSUME NEW src \in Seq(SourceLine), NEW kinds, NEW segment
    PROVE  LET lines == LinesOf(src, kinds, segment)
           IN  /\ lines \subseteq 1..Len(src) /\ Len(src) \in Nat
               /\ IsFiniteSet(lines) /\ Cardinality(lines) \in Nat
<1>1. DOMAIN src = 1..Len(src) /\ Len(src) \in Nat
    OBVIOUS
<1>2. LinesOf(src, kinds, segment) \subseteq 1..Len(src)
    BY <1>1 DEF LinesOf
<1>3. IsFiniteSet(1..Len(src))
    BY <1>1, FS_Interval
<1>4. IsFiniteSet(LinesOf(src, kinds, segment))
    BY <1>2, <1>3, FS_Subset
<1> QED
    BY <1>1, <1>2, <1>4, FS_CardinalityType

\* The last line of a source that bears a name is the one that counts.
LEMMA LastDefinition ==
    ASSUME NEW src \in Seq(SourceLine), NEW lines, lines \subseteq DOMAIN src,
           NEW p \in lines,
           \A q \in lines : q > p => src[q].name # src[p].name
    PROVE  /\ Defining(src, lines, src[p].name) # {}
           /\ Max(Defining(src, lines, src[p].name)) = p
<1> DEFINE S == Defining(src, lines, src[p].name)
<1>1. p \in S /\ p \in Nat /\ \A q \in S : q \in Nat
    BY Beginning DEF Defining
<1>2. \A q \in S : p >= q
    BY <1>1, Beginning DEF Defining
<1> HIDE DEF S
<1>3. \A m \in S : (\A q \in S : m >= q) => m = p
    BY <1>1, <1>2
<1>4. Max(S) = p
    BY <1>1, <1>2, <1>3 DEF Max
<1> QED
    BY <1>1, <1>4 DEF S

\* Each word of the text segment is that of one line.
LEMMA TextLength ==
    ASSUME NEW src \in Seq(SourceLine)
    PROVE  /\ Len(init_segs(src)) = Cardinality(Encoded(src))
           /\ Cardinality(Encoded(src)) \in Nat
<1> DEFINE N == Cardinality(Encoded(src))
           S == {init_segs(src)[n] : n \in 1..N}
<1>1. N \in Nat
    BY LinesAreFinite DEF Encoded
<1>2. DOMAIN init_segs(src) = 1..N
    BY DEF init_segs
<1>3. init_segs(src) \in [1..N -> S]
    BY <1>2 DEF init_segs
<1> HIDE DEF N, S
<1>4. init_segs(src) \in Seq(S)
    BY <1>1, <1>3, SeqDef
<1>5. DOMAIN init_segs(src) = 1..Len(init_segs(src)) /\ Len(init_segs(src)) \in Nat
    BY <1>4, LenProperties
<1>6. Len(init_segs(src)) = N
    BY <1>1, <1>2, <1>5
<1> QED
    BY <1>1, <1>6 DEF N

\* The two passes agree (mem.cpp:66 and 174): however many labels, data,
\* directives and empty lines a source has, in whatever order, the offset of
\* a label is the number of words that have been written above it, but for
\* the words of odd lines, which the first pass does not count.
THEOREM PassesAgree ==
    ASSUME NEW src \in Seq(SourceLine)
    PROVE  LabelNamesNextInstruction(src)
<1> SUFFICES ASSUME NEW p \in DOMAIN src,
                    p \in LinesOf(src, {"label"}, "text"),
                    ~\E q \in (p + 1)..Len(src) :
                        src[q].kind = "label" /\ src[q].name = src[p].name
             PROVE  text_symbol_table(src, src[p].name)
                            + Cardinality({q \in LinesOf(src, {"odd"}, "text") : q < p})
                        = Len(init_segs(SubSeq(src, 1, p)))
    BY DEF LabelNamesNextInstruction
<1> DEFINE part == SubSeq(src, 1, p)
           labels == LinesOf(src, {"label"}, "text")
<1>1. /\ p \in Nat /\ p >= 1 /\ p <= Len(src)
      /\ DOMAIN src = 1..Len(src) /\ Len(src) \in Nat
    BY Beginning
<1>2. part \in Seq(SourceLine)
  <2>1. \A q \in 1..p : src[q] \in SourceLine
      BY <1>1
  <2> QED
      BY <1>1, <2>1
<1>3. labels \subseteq DOMAIN src /\ \A q \in labels : src[q].kind = "label"
    BY DEF LinesOf
<1>4. \A q \in labels : q > p => src[q].name # src[p].name
    BY <1>1, <1>3
<1>5. text_symbol_table(src, src[p].name) = offset(src, p)
  <2> HIDE DEF labels
  <2>1. /\ Defining(src, labels, src[p].name) # {}
        /\ Max(Defining(src, labels, src[p].name)) = p
      BY <1>3, <1>4, LastDefinition DEF labels
  <2> QED
      BY <2>1 DEF text_symbol_table, labels
<1>6. Encoded(part) = {q \in Encoded(src) : q <= p}
    BY BeginningSegments DEF Encoded
<1> DEFINE instrs == {q \in Counted(src) : q < p}
           odd == {q \in LinesOf(src, {"odd"}, "text") : q < p}
<1>7. /\ Encoded(src) \subseteq Nat
      /\ p \notin Encoded(src)
      /\ \A q : q \in Encoded(src) <=>
                    q \in Counted(src) \/ q \in LinesOf(src, {"odd"}, "text")
    BY <1>1, <1>3 DEF Encoded, Counted, LinesOf
<1>8. Encoded(part) = instrs \cup odd
    BY <1>1, <1>6, <1>7
<1>9. instrs \cap odd = {}
    BY DEF Counted, LinesOf
<1>10. /\ IsFiniteSet(instrs) /\ Cardinality(instrs) \in Nat
       /\ IsFiniteSet(odd) /\ Cardinality(odd) \in Nat
  <2>1. IsFiniteSet(Counted(src)) /\ IsFiniteSet(LinesOf(src, {"odd"}, "text"))
      BY LinesAreFinite DEF Counted
  <2> QED
      BY <2>1, FS_Subset, FS_CardinalityType
<1>11. Cardinality(instrs \cup odd) = Cardinality(instrs) + Cardinality(odd)
  <2> HIDE DEF instrs, odd
  <2>1. Cardinality(instrs \cup odd) =
            Cardinality(instrs) + Cardinality(odd) - Cardinality(instrs \cap odd)
      BY <1>10, FS_Union
  <2>2. Cardinality({}) = 0
      BY FS_EmptySet
  <2>3. Cardinality(instrs \cap odd) = 0
      BY <1>9, <2>2
  <2> QED
      BY <1>10, <2>1, <2>3
<1>12. Len(init_segs(part)) = Cardinality(Encoded(part))
    BY <1>2, TextLength
<1> QED
    BY <1>5, <1>8, <1>11, <1>12 DEF offset

LEMMA InsertedLine ==
    ASSUME NEW src \in Seq(SourceLine), NEW p \in DOMAIN src
    PROVE  InsertAt(src, p, Odd) \in Seq(SourceLine)
<1>1. p \in 1..Len(src) /\ Len(src) \in Nat
    OBVIOUS
<1>2. Odd \in SourceLine
    BY DEF Odd, SourceLine
<1>3. SubSeq(src, 1, p - 1) \in Seq(SourceLine)
    BY <1>1
<1>4. SubSeq(src, p, Len(src)) \in Seq(SourceLine)
    BY <1>1
<1>5. <<Odd>> \in Seq(SourceLine)
    BY <1>2
<1>6. SubSeq(src, 1, p - 1) \o <<Odd>> \in Seq(SourceLine)
    BY <1>3, <1>5
<1> QED
    BY <1>4, <1>6 DEF InsertAt

\* Every branch of every program goes to the instruction below its label, and
\* an odd line, wherever it is put in, moves the labels below it by one word.
THEOREM LabelsResolved == Spec => []LabelsAreResolved
<1>1. ASSUME NEW f \in DOMAIN Sources
      PROVE  /\ LabelNamesNextInstruction(Sources[f])
             /\ \A p \in DOMAIN Sources[f] :
                   LabelNamesNextInstruction(InsertAt(Sources[f], p, Odd))
    BY PassesAgree, InsertedLine, PipeSimAssumption
<1>2. TypeOK => LabelsAreResolved
    BY <1>1 DEF TypeOK, LabelsAreResolved
<1> QED
    BY <1>2, TypeCorrect, PTL

(***************************************************************************)
(* The words of a text segment, one by one                                 *)
(***************************************************************************)

\* The number of words written for the lines down to line p.
WordsTo(src, p) == Cardinality({q \in Encoded(src) : q <= p})

\* The lines down to one of them are finitely many.
LEMMA WordsToType ==
    ASSUME NEW src \in Seq(SourceLine), NEW p \in Nat
    PROVE  /\ IsFiniteSet({q \in Encoded(src) : q <= p})
           /\ WordsTo(src, p) \in Nat
<1>1. IsFiniteSet(Encoded(src))
    BY LinesAreFinite DEF Encoded
<1>2. IsFiniteSet({q \in Encoded(src) : q <= p})
    BY <1>1, FS_Subset
<1> QED
    BY <1>2, FS_CardinalityType DEF WordsTo

\* No word is written for the lines behind line a and down to line z.
LEMMA Gap ==
    ASSUME NEW src \in Seq(SourceLine), NEW a \in Nat, NEW z \in Nat, a <= z,
           \A p \in (a + 1)..z : p \notin Encoded(src)
    PROVE  WordsTo(src, z) = WordsTo(src, a)
<1>1. \A q \in Encoded(src) : q \in Nat
    BY LinesAreFinite DEF Encoded
<1>2. {q \in Encoded(src) : q <= z} = {q \in Encoded(src) : q <= a}
    BY <1>1
<1> QED
    BY <1>2 DEF WordsTo

\* One is written for each of them.
LEMMA Run ==
    ASSUME NEW src \in Seq(SourceLine), NEW a \in Nat, NEW z \in Nat, a <= z,
           \A p \in (a + 1)..z : p \in Encoded(src)
    PROVE  \A p \in (a + 1)..z : WordsTo(src, p) = WordsTo(src, a) + (p - a)
<1> TAKE p \in (a + 1)..z
<1>1. \A q \in Encoded(src) : q \in Nat
    BY LinesAreFinite DEF Encoded
<1> DEFINE S == {q \in Encoded(src) : q <= a}
           T == (a + 1)..p
<1>2. {q \in Encoded(src) : q <= p} = S \cup T
    BY <1>1
<1>3. S \cap T = {}
    BY <1>1
<1>4. IsFiniteSet(T) /\ Cardinality(T) = p - a
  <2>1. a + 1 \in Int /\ p \in Int /\ a + 1 <= p
      OBVIOUS
  <2>2. /\ IsFiniteSet(T)
        /\ Cardinality(T) = IF a + 1 > p THEN 0 ELSE p - (a + 1) + 1
      BY <2>1, FS_Interval, Zenon
  <2> QED
      BY <2>1, <2>2
<1>5. IsFiniteSet(S) /\ Cardinality(S) \in Nat
    BY WordsToType, FS_CardinalityType
<1> HIDE DEF S, T
<1>6. Cardinality(S \cap T) = 0
    BY <1>3, FS_EmptySet
<1>7. Cardinality(S \cup T) = Cardinality(S) + Cardinality(T) - 0
    BY <1>4, <1>5, <1>6, FS_Union
<1>8. Cardinality(S) = WordsTo(src, a)
    BY DEF WordsTo, S
<1>9. Cardinality(S \cup T) = WordsTo(src, p)
    BY <1>2 DEF WordsTo
<1> QED
    BY <1>4, <1>5, <1>7, <1>8, <1>9

\* The word of a line.
LEMMA WordOfLine ==
    ASSUME NEW src \in Seq(SourceLine), NEW p \in Encoded(src),
           NEW n, n = WordsTo(src, p)
    PROVE  init_segs(src)[n] = encode_instruction(src, src[p])
<1> DEFINE lines == Encoded(src)
<1>1. /\ IsFiniteSet(lines) /\ Cardinality(lines) \in Nat
      /\ \A q \in lines : q \in Nat
    BY LinesAreFinite DEF Encoded
<1>2. n \in Nat /\ n <= Cardinality(lines)
  <2>1. {q \in lines : q <= p} \in SUBSET lines
      OBVIOUS
  <2> QED
      BY <1>1, <2>1, FS_Subset, WordsToType DEF WordsTo
<1>3. n > 0
  <2> DEFINE above == {q \in lines : q <= p}
  <2>1. p \in above /\ IsFiniteSet(above) /\ n = Cardinality(above)
      BY <1>1, WordsToType DEF WordsTo
  <2> HIDE DEF above
  <2>2. n # 0
      BY <2>1, FS_EmptySet
  <2> QED
      BY <1>2, <2>2
<1>4. ASSUME NEW r \in lines, WordsTo(src, r) = n
      PROVE  r = p
  <2>1. ASSUME NEW x \in lines, NEW y \in lines, x < y,
               WordsTo(src, x) = WordsTo(src, y)
        PROVE  FALSE
    <3> DEFINE S == {q \in lines : q <= x}
               T == {q \in lines : q <= y}
    <3>1. S \in SUBSET T /\ y \in T /\ y \notin S
        BY <1>1, <2>1
    <3>2. IsFiniteSet(T) /\ Cardinality(T) = Cardinality(S)
        BY <1>1, <2>1, WordsToType DEF WordsTo
    <3> HIDE DEF S, T
    <3> QED
        BY <3>1, <3>2, FS_Subset
  <2> QED
      BY <1>1, <1>4, <2>1
<1>5. LineOfWord(lines, n) = p
    BY <1>4 DEF LineOfWord, WordsTo
<1> QED
    BY <1>2, <1>3, <1>5 DEF init_segs

\* The fields of an instruction.
Reads(i, op, rd, rs, rt, imm) ==
    i.op = op /\ i.rd = rd /\ i.rs = rs /\ i.rt = rt /\ i.imm = imm

\* What is read from the text segment for an instruction of a source.
LEMMA WordReads ==
    ASSUME NEW src \in Seq(SourceLine), NEW p \in Encoded(src),
           NEW op, NEW rd, NEW rs, NEW rt, NEW imm, NEW label,
           src[p] = Instr(op, rd, rs, rt, imm, label),
           NEW n, n = WordsTo(src, p)
    PROVE  Reads(init_segs(src)[n], op, rd, rs, rt,
                 IF op \in Branches THEN text_symbol_table(src, label) % ImmSize
                 ELSE IF op = "la" THEN data_symbol_table(src, label) % ImmSize
                 ELSE imm % ImmSize)
<1>1. init_segs(src)[n] = encode_instruction(src, src[p])
    BY WordOfLine
<1> QED
    BY <1>1 DEF Reads, encode_instruction, EncodeBranch, EncodeAddress,
                EncodeRegisters, Instr, Branches

\* A label stands for the number of the words above it.
LEMMA LabelReads ==
    ASSUME NEW src \in Seq(SourceLine), \A p \in DOMAIN src : src[p].kind # "odd",
           NEW p \in LinesOf(src, {"label"}, "text"), NEW name,
           src[p].name = name,
           \A q \in LinesOf(src, {"label"}, "text") : q > p => src[q].name # name
    PROVE  text_symbol_table(src, name) = WordsTo(src, p)
<1> DEFINE labels == LinesOf(src, {"label"}, "text")
<1>1. labels \subseteq DOMAIN src /\ p \in labels
    BY DEF LinesOf
<1> HIDE DEF labels
<1>2. /\ Defining(src, labels, name) # {}
      /\ Max(Defining(src, labels, name)) = p
    BY <1>1, LastDefinition DEF labels
<1>3. text_symbol_table(src, name) = offset(src, p)
    BY <1>2 DEF text_symbol_table, labels
<1>4. Encoded(src) = Counted(src)
    BY DEF Encoded, Counted, LinesOf
<1>5. p \notin Counted(src) /\ \A q \in Counted(src) \cup {p} : q \in Nat
  <2>1. DOMAIN src = 1..Len(src) /\ Len(src) \in Nat
      OBVIOUS
  <2> QED
      BY <2>1 DEF Counted, LinesOf
<1>6. {q \in Counted(src) : q < p} = {q \in Counted(src) : q <= p}
    BY <1>5
<1> QED
    BY <1>3, <1>4, <1>6 DEF offset, WordsTo

\* A source that consists of a data segment, which may be missing, and a text
\* segment that begins at line t.
LEMMA TwoSegments ==
    ASSUME NEW src \in Seq(SourceLine), NEW t \in DOMAIN src,
           src[t].kind = "text",
           \A p \in DOMAIN src : p > t => src[p].kind \notin {"text", "data"},
           NEW p \in DOMAIN src, p > t
    PROVE  Segment(src, p) = "text"
<1> DEFINE above == {q \in Directives(src) : q < p}
<1>1. \A q \in DOMAIN src : q \in Nat
  <2>1. DOMAIN src = 1..Len(src) /\ Len(src) \in Nat
      OBVIOUS
  <2> QED
      BY <2>1
<1>2. t \in above /\ \A q \in above : t >= q /\ q \in Nat
    BY <1>1 DEF Directives
<1> HIDE DEF above
<1>3. \A m \in above : (\A q \in above : m >= q) => m = t
    BY <1>2
<1>4. Max(above) = t
    BY <1>2, <1>3 DEF Max
<1> QED
    BY <1>2, <1>4 DEF Segment, above

\* The kinds of the lines that programs are written with.
LEMMA Kinds ==
    /\ \A name : Label(name).kind = "label" /\ Label(name).name = name
    /\ \A segment : Directive(segment).kind = segment
    /\ Blank.kind = "blank"
    /\ \A name, size : /\ Datum(name, size).kind = "datum"
                       /\ Datum(name, size).name = name
                       /\ Datum(name, size).size = size
    /\ \A op, rd, rs, rt, imm, label :
           Instr(op, rd, rs, rt, imm, label).kind = "instr"
BY DEF Label, Directive, Blank, Datum, Instr

\* A number that fits into the immediate field is what it was.
LEMMA SmallImmediate ==
    ASSUME NEW n \in Nat, n <= 1024 \/ n <= DataBase + 2 PROVE n % ImmSize = n
BY PipeSimLabsAssumption, AssemblerAssumption

\* A source, as parameter of a lemma.
SourceFile == Seq(SourceLine)

\* A source whose text segment begins at line t and goes to its end; what
\* comes before are data.
TextFrom(src, t) ==
    /\ src \in SourceFile
    /\ t \in DOMAIN src /\ src[t].kind = "text"
    /\ \A p \in DOMAIN src :
          /\ p <= t => src[p].kind \in {"data", "datum", "blank", "text"}
          /\ p > t => src[p].kind \in {"instr", "label", "blank"}

\* Lines a to z of a source are of some kinds.
Kind(src, a, z, kinds) ==
    \A p \in a..z : p \in DOMAIN src /\ src[p].kind \in kinds

LabelsAmong(src, lines) ==
    \A p \in DOMAIN src : src[p].kind = "label" => p \in lines

\* The word of line p, or of the last line with one above it, is the n-th.
WordNumber(src, p, n) == WordsTo(src, p) = n

\* No word is written before.
LEMMA TextBegins ==
    ASSUME NEW src, NEW t, TextFrom(src, t)
    PROVE  WordNumber(src, t, 0)
<1>1. {q \in Encoded(src) : q <= t} = {}
    BY DEF TextFrom, SourceFile, Encoded, LinesOf
<1> QED
    BY <1>1, FS_EmptySet DEF WordsTo, WordNumber

\* The lines behind t belong to the text segment.
LEMMA InText ==
    ASSUME NEW src, NEW t, TextFrom(src, t), NEW p \in DOMAIN src, p > t
    PROVE  Segment(src, p) = "text"
<1>1. t \in DOMAIN src /\ src[t].kind = "text" /\ src \in Seq(SourceLine)
    BY DEF TextFrom, SourceFile
<1>2. \A q \in DOMAIN src : q > t => src[q].kind \notin {"text", "data"}
    BY DEF TextFrom, SourceFile
<1> QED
    BY <1>1, <1>2, TwoSegments

\* Instructions in a row have words in a row.
LEMMA RunOf ==
    ASSUME NEW src, NEW t \in Nat, TextFrom(src, t),
           NEW a \in Nat, NEW z \in Nat, t <= a, a <= z,
           NEW n \in Nat, WordNumber(src, a, n),
           NEW c, c = a + 1, Kind(src, c, z, {"instr"})
    PROVE  /\ WordNumber(src, z, n + (z - a))
           /\ \A p \in c..z :
                 p \in Encoded(src) /\ WordNumber(src, p, n + (p - a))
<1>1. \A p \in c..z : p \in DOMAIN src /\ p > t /\ src[p].kind = "instr"
    BY DEF Kind
<1>2. \A p \in c..z : p \in Encoded(src)
    BY <1>1, InText DEF Encoded, LinesOf
<1>3. \A p \in (a + 1)..z : p \in Encoded(src)
    BY <1>2
<1>4. \A p \in (a + 1)..z : WordsTo(src, p) = WordsTo(src, a) + (p - a)
    BY <1>3, Run DEF TextFrom, SourceFile
<1>5. WordsTo(src, a) = n
    BY DEF WordNumber
<1>6. \A p \in c..z : WordsTo(src, p) = n + (p - a)
    BY <1>4, <1>5
<1>7. WordsTo(src, z) = n + (z - a)
  <2>1. CASE a = z
      BY <1>5, <2>1
  <2>2. CASE a < z
      BY <1>6, <2>2
  <2> QED
      BY <2>1, <2>2
<1> QED
    BY <1>2, <1>6, <1>7 DEF WordNumber

\* Labels and empty lines have none.
LEMMA GapOf ==
    ASSUME NEW src, NEW t \in Nat, TextFrom(src, t),
           NEW a \in Nat, NEW z \in Nat, a <= z,
           NEW n, WordNumber(src, a, n),
           NEW c, c = a + 1, Kind(src, c, z, {"label", "blank"})
    PROVE  WordNumber(src, z, n)
<1>1. \A p \in (a + 1)..z : p \notin Encoded(src)
    BY DEF Encoded, LinesOf, Kind
<1>2. WordsTo(src, z) = WordsTo(src, a)
    BY <1>1, Gap DEF TextFrom, SourceFile
<1> QED
    BY <1>2 DEF WordNumber

\* The only label of its name stands for the number of the words above it.
LEMMA LabelOf ==
    ASSUME NEW src, NEW t \in Nat, TextFrom(src, t),
           NEW p \in DOMAIN src, p > t,
           NEW name, src[p] = Label(name),
           \A q \in DOMAIN src : q > p /\ src[q].kind = "label" => src[q].name # name,
           NEW n, WordNumber(src, p, n)
    PROVE  text_symbol_table(src, name) = n
<1>1. src[p].kind = "label" /\ src[p].name = name
    BY Kinds
<1>2. p \in LinesOf(src, {"label"}, "text")
    BY <1>1, InText DEF LinesOf
<1>3. \A q \in LinesOf(src, {"label"}, "text") : q > p => src[q].name # name
    BY DEF LinesOf
<1>4. \A q \in DOMAIN src : src[q].kind # "odd"
    BY DEF TextFrom, SourceFile
<1> QED
    BY <1>1, <1>2, <1>3, <1>4, LabelReads DEF TextFrom, SourceFile, WordNumber

\* The word of an instruction that names no label.
LEMMA PlainWord ==
    ASSUME NEW src, NEW t \in Nat, TextFrom(src, t),
           NEW p \in Encoded(src), NEW n, WordNumber(src, p, n),
           NEW op, op \notin Branches \cup {"la"}, NEW rd, NEW rs, NEW rt,
           NEW imm, imm \in 0..1024,
           NEW label, src[p] = Instr(op, rd, rs, rt, imm, label)
    PROVE  Reads(init_segs(src)[n], op, rd, rs, rt, imm)
<1>1. Reads(init_segs(src)[n], op, rd, rs, rt,
            IF op \in Branches THEN text_symbol_table(src, label) % ImmSize
            ELSE IF op = "la" THEN data_symbol_table(src, label) % ImmSize
            ELSE imm % ImmSize)
    BY WordReads DEF TextFrom, SourceFile, WordNumber
<1>2. imm % ImmSize = imm
    BY SmallImmediate
<1> QED
    BY <1>1, <1>2

\* The word of a branch.
LEMMA BranchWord ==
    ASSUME NEW src, NEW t \in Nat, TextFrom(src, t),
           NEW p \in Encoded(src), NEW n, WordNumber(src, p, n),
           NEW op \in Branches, NEW rd, NEW rt, NEW label,
           src[p] = Instr(op, rd, 0, rt, 0, label),
           NEW target \in 0..1024, text_symbol_table(src, label) = target
    PROVE  Reads(init_segs(src)[n], op, rd, 0, rt, target)
<1>1. Reads(init_segs(src)[n], op, rd, 0, rt,
            IF op \in Branches THEN text_symbol_table(src, label) % ImmSize
            ELSE IF op = "la" THEN data_symbol_table(src, label) % ImmSize
            ELSE 0 % ImmSize)
    BY WordReads DEF TextFrom, SourceFile, WordNumber
<1>2. target % ImmSize = target
    BY SmallImmediate
<1> QED
    BY <1>1, <1>2

\* The word of LA.
LEMMA AddressWord ==
    ASSUME NEW src, NEW t \in Nat, TextFrom(src, t),
           NEW p \in Encoded(src), NEW n, WordNumber(src, p, n),
           NEW rd, NEW label, src[p] = Instr("la", rd, 0, 0, 0, label),
           NEW k \in 0..2, data_symbol_table(src, label) = DataBase + k
    PROVE  Reads(init_segs(src)[n], "la", rd, 0, 0, DataBase + k)
<1>1. Reads(init_segs(src)[n], "la", rd, 0, 0,
            IF "la" \in Branches THEN text_symbol_table(src, label) % ImmSize
            ELSE IF "la" = "la" THEN data_symbol_table(src, label) % ImmSize
            ELSE 0 % ImmSize)
    BY WordReads DEF TextFrom, SourceFile, WordNumber
<1>2. (DataBase + k) % ImmSize = DataBase + k
    BY SmallImmediate, AssemblerAssumption
<1>3. "la" \notin Branches
    BY DEF Branches
<1> QED
    BY <1>1, <1>2, <1>3

(***************************************************************************)
(* The text segment of lab3c.s                                             *)
(***************************************************************************)

\* What an instruction without a label has for it.
NoLabel == ""

\* What an operator of the assembler stands for.
LEMMA Statements ==
    /\ \A rd, rs, rt : add(rd, rs, rt) = Instr("add", rd, rs, rt, 0, NoLabel)
    /\ \A rd, rs, imm : addi(rd, rs, imm) = Instr("addi", rd, rs, 0, imm, NoLabel)
    /\ \A rd, rs, imm : subi(rd, rs, imm) = Instr("subi", rd, rs, 0, imm, NoLabel)
    /\ \A rd, imm : li(rd, imm) = Instr("li", rd, 0, 0, imm, NoLabel)
    /\ \A rd, label : la(rd, label) = Instr("la", rd, 0, 0, 0, label)
    /\ \A rd, rs : lb(rd, rs) = Instr("lb", rd, rs, 0, 0, NoLabel)
    /\ \A label : b(label) = Instr("b", 0, 0, 0, 0, label)
    /\ \A rd, label : beqz(rd, label) = Instr("beqz", rd, 0, 0, 0, label)
    /\ \A rd, rt, label : bge(rd, rt, label) = Instr("bge", rd, 0, rt, 0, label)
    /\ \A rd, rt, label : bne(rd, rt, label) = Instr("bne", rd, 0, rt, 0, label)
    /\ syscall = Instr("syscall", 0, 0, 0, 0, NoLabel)
    /\ nop = Instr("nop", 0, 0, 0, 0, NoLabel)
BY Zenon DEF add, addi, subi, li, la, lb, b, beqz, bge, bne, syscall, nop, NoLabel

\* The lines of lab3c.s.
LEMMA LinesOf3c ==
    /\ Len(lab3c) = 23 /\ DOMAIN lab3c = 1..23
    /\ lab3c[1] = Directive("text")
    /\ lab3c[2] = Blank
    /\ lab3c[3] = Label("main")
    /\ lab3c[4] = Instr("li", 1, 0, 0, 0, NoLabel)
    /\ lab3c[5] = Instr("li", 2, 0, 0, 10, NoLabel)
    /\ lab3c[6] = Instr("li", 3, 0, 0, 100, NoLabel)
    /\ lab3c[7] = Instr("li", 4, 0, 0, 1000, NoLabel)
    /\ lab3c[8] = Instr("li", 5, 0, 0, 7, NoLabel)
    /\ lab3c[9] = Blank
    /\ lab3c[10] = Label("loop")
    /\ lab3c[11] = Instr("subi", 5, 5, 0, 1, NoLabel)
    /\ lab3c[12] = Instr("add", 1, 1, 2, 0, NoLabel)
    /\ lab3c[13] = Instr("add", 1, 1, 3, 0, NoLabel)
    /\ lab3c[14] = Instr("add", 1, 1, 4, 0, NoLabel)
    /\ lab3c[15] = Instr("bge", 5, 0, 0, 0, "loop")
    /\ lab3c[16] = Instr("nop", 0, 0, 0, 0, NoLabel)
    /\ lab3c[17] = Blank
    /\ lab3c[18] = Instr("add", 4, 0, 1, 0, NoLabel)
    /\ lab3c[19] = Instr("li", 2, 0, 0, 1, NoLabel)
    /\ lab3c[20] = Instr("syscall", 0, 0, 0, 0, NoLabel)
    /\ lab3c[21] = Blank
    /\ lab3c[22] = Instr("li", 2, 0, 0, 10, NoLabel)
    /\ lab3c[23] = Instr("syscall", 0, 0, 0, 0, NoLabel)
<1>1. /\ Len(lab3c) = 23 /\ DOMAIN lab3c = 1..23
      /\ lab3c[1] = Directive("text")
      /\ lab3c[2] = Blank
      /\ lab3c[3] = Label("main")
      /\ lab3c[4] = li(1, 0)
      /\ lab3c[5] = li(2, 10)
      /\ lab3c[6] = li(3, 100)
      /\ lab3c[7] = li(4, 1000)
      /\ lab3c[8] = li(5, 7)
      /\ lab3c[9] = Blank
      /\ lab3c[10] = Label("loop")
      /\ lab3c[11] = subi(5, 5, 1)
      /\ lab3c[12] = add(1, 1, 2)
      /\ lab3c[13] = add(1, 1, 3)
      /\ lab3c[14] = add(1, 1, 4)
      /\ lab3c[15] = bge(5, 0, "loop")
    BY DEF lab3c
<1>2. /\ lab3c[16] = nop
      /\ lab3c[17] = Blank
      /\ lab3c[18] = add(4, 0, 1)
      /\ lab3c[19] = li(2, 1)
      /\ lab3c[20] = syscall
      /\ lab3c[21] = Blank
      /\ lab3c[22] = li(2, 10)
      /\ lab3c[23] = syscall
    BY DEF lab3c
<1> QED
    BY <1>1, <1>2, Statements, SMTT(30)

\* Their kinds.
LEMMA KindsOf3c ==
    /\ Kind(lab3c, 1, 1, {"data", "datum", "blank", "text"})
    /\ Kind(lab3c, 2, 3, {"label", "blank"})
    /\ Kind(lab3c, 4, 8, {"instr"})
    /\ Kind(lab3c, 9, 10, {"label", "blank"})
    /\ Kind(lab3c, 11, 16, {"instr"})
    /\ Kind(lab3c, 17, 17, {"label", "blank"})
    /\ Kind(lab3c, 18, 20, {"instr"})
    /\ Kind(lab3c, 21, 21, {"label", "blank"})
    /\ Kind(lab3c, 22, 23, {"instr"})
    /\ LabelsAmong(lab3c, {3, 10})
<1>1. DOMAIN lab3c = 1..23
    BY LinesOf3c
<1>2. Kind(lab3c, 1, 1, {"data", "datum", "blank", "text"})
  <2>1. /\ lab3c[1].kind = "text"
      BY LinesOf3c, Kinds
  <2> QED
      BY <1>1, <2>1 DEF Kind
<1>3. \A p \in 1..1 : lab3c[p].kind = "label" => p \in {3, 10}
  <2>1. /\ lab3c[1].kind = "text"
      BY LinesOf3c, Kinds
  <2> QED
      BY <2>1
<1>4. Kind(lab3c, 2, 3, {"label", "blank"})
  <2>1. /\ lab3c[2].kind = "blank"
        /\ lab3c[3].kind = "label"
      BY LinesOf3c, Kinds
  <2> QED
      BY <1>1, <2>1 DEF Kind
<1>5. \A p \in 2..3 : lab3c[p].kind = "label" => p \in {3, 10}
  <2>1. /\ lab3c[2].kind = "blank"
        /\ lab3c[3].kind = "label"
      BY LinesOf3c, Kinds
  <2> QED
      BY <2>1
<1>6. Kind(lab3c, 4, 8, {"instr"})
  <2>1. /\ lab3c[4].kind = "instr"
        /\ lab3c[5].kind = "instr"
        /\ lab3c[6].kind = "instr"
        /\ lab3c[7].kind = "instr"
        /\ lab3c[8].kind = "instr"
      BY LinesOf3c, Kinds
  <2> QED
      BY <1>1, <2>1 DEF Kind
<1>7. Kind(lab3c, 9, 10, {"label", "blank"})
  <2>1. /\ lab3c[9].kind = "blank"
        /\ lab3c[10].kind = "label"
      BY LinesOf3c, Kinds
  <2> QED
      BY <1>1, <2>1 DEF Kind
<1>8. \A p \in 9..10 : lab3c[p].kind = "label" => p \in {3, 10}
  <2>1. /\ lab3c[9].kind = "blank"
        /\ lab3c[10].kind = "label"
      BY LinesOf3c, Kinds
  <2> QED
      BY <2>1
<1>9. Kind(lab3c, 11, 16, {"instr"})
  <2>1. /\ lab3c[11].kind = "instr"
        /\ lab3c[12].kind = "instr"
        /\ lab3c[13].kind = "instr"
        /\ lab3c[14].kind = "instr"
        /\ lab3c[15].kind = "instr"
        /\ lab3c[16].kind = "instr"
      BY LinesOf3c, Kinds
  <2> QED
      BY <1>1, <2>1 DEF Kind
<1>10. Kind(lab3c, 17, 17, {"label", "blank"})
  <2>1. /\ lab3c[17].kind = "blank"
      BY LinesOf3c, Kinds
  <2> QED
      BY <1>1, <2>1 DEF Kind
<1>11. \A p \in 17..17 : lab3c[p].kind = "label" => p \in {3, 10}
  <2>1. /\ lab3c[17].kind = "blank"
      BY LinesOf3c, Kinds
  <2> QED
      BY <2>1
<1>12. Kind(lab3c, 18, 20, {"instr"})
  <2>1. /\ lab3c[18].kind = "instr"
        /\ lab3c[19].kind = "instr"
        /\ lab3c[20].kind = "instr"
      BY LinesOf3c, Kinds
  <2> QED
      BY <1>1, <2>1 DEF Kind
<1>13. Kind(lab3c, 21, 21, {"label", "blank"})
  <2>1. /\ lab3c[21].kind = "blank"
      BY LinesOf3c, Kinds
  <2> QED
      BY <1>1, <2>1 DEF Kind
<1>14. \A p \in 21..21 : lab3c[p].kind = "label" => p \in {3, 10}
  <2>1. /\ lab3c[21].kind = "blank"
      BY LinesOf3c, Kinds
  <2> QED
      BY <2>1
<1>15. Kind(lab3c, 22, 23, {"instr"})
  <2>1. /\ lab3c[22].kind = "instr"
        /\ lab3c[23].kind = "instr"
      BY LinesOf3c, Kinds
  <2> QED
      BY <1>1, <2>1 DEF Kind
<1>16. LabelsAmong(lab3c, {3, 10})
  <2>1. \A p \in 1..16 : lab3c[p].kind = "label" => p \in {3, 10}
      BY <1>3, <1>5, <1>6, <1>8, <1>9 DEF Kind
  <2>2. \A p \in 17..23 : lab3c[p].kind = "label" => p \in {3, 10}
      BY <1>11, <1>12, <1>14, <1>15 DEF Kind
  <2> QED
      BY <1>1, <2>1, <2>2 DEF LabelsAmong
<1> QED
    BY <1>2, <1>4, <1>6, <1>7, <1>9, <1>10, <1>12, <1>13, <1>15, <1>16

\* Its data come first.
LEMMA TextFrom3c == ASSUME lab3c \in SourceFile PROVE TextFrom(lab3c, 1)
<1>1. lab3c[1].kind = "text"
    BY LinesOf3c, Kinds
<1>2. DOMAIN lab3c = 1..23
    BY LinesOf3c
<1>4. \A p \in 2..23 : lab3c[p].kind \in {"instr", "label", "blank"}
  <2>1. /\ Kind(lab3c, 2, 3, {"label", "blank"})
        /\ Kind(lab3c, 4, 8, {"instr"})
        /\ Kind(lab3c, 9, 10, {"label", "blank"})
        /\ Kind(lab3c, 11, 16, {"instr"})
      BY KindsOf3c
  <2>2. \A p \in 2..16 : lab3c[p].kind \in {"instr", "label", "blank"}
      BY <2>1 DEF Kind
  <2>3. /\ Kind(lab3c, 17, 17, {"label", "blank"})
        /\ Kind(lab3c, 18, 20, {"instr"})
        /\ Kind(lab3c, 21, 21, {"label", "blank"})
        /\ Kind(lab3c, 22, 23, {"instr"})
      BY KindsOf3c
  <2>4. \A p \in 17..23 : lab3c[p].kind \in {"instr", "label", "blank"}
      BY <2>3 DEF Kind
  <2> QED
      BY <2>2, <2>4
<1>5. Kind(lab3c, 1, 1, {"data", "datum", "blank", "text"})
    BY KindsOf3c
<1>6. \A p \in 1..1 : lab3c[p].kind \in {"data", "datum", "blank", "text"}
    BY <1>5 DEF Kind
<1> QED
    BY <1>1, <1>2, <1>4, <1>6 DEF TextFrom

\* The numbers of its words, and of the words above its labels.
LEMMA WordsOf3c ==
    ASSUME lab3c \in SourceFile
    PROVE  /\ \A p \in 4..8 : p \in Encoded(lab3c) /\ WordNumber(lab3c, p, p - 3)
           /\ \A p \in 11..16 :
                  p \in Encoded(lab3c) /\ WordNumber(lab3c, p, p - 5)
           /\ \A p \in 18..20 :
                  p \in Encoded(lab3c) /\ WordNumber(lab3c, p, p - 6)
           /\ \A p \in 22..23 :
                  p \in Encoded(lab3c) /\ WordNumber(lab3c, p, p - 7)
           /\ WordNumber(lab3c, 3, 0)
           /\ WordNumber(lab3c, 10, 5)
           /\ WordNumber(lab3c, 23, 16)
<1>1. TextFrom(lab3c, 1)
    BY TextFrom3c
<1>2. WordNumber(lab3c, 1, 0)
    BY <1>1, TextBegins
<1>3. WordNumber(lab3c, 3, 0)
  <2>1. Kind(lab3c, 2, 3, {"label", "blank"})
      BY KindsOf3c
  <2> QED
      BY <1>1, <1>2, <2>1, GapOf
<1>4. /\ WordNumber(lab3c, 8, 5)
      /\ \A p \in 4..8 : p \in Encoded(lab3c) /\ WordNumber(lab3c, p, p - 3)
  <2>1. Kind(lab3c, 4, 8, {"instr"})
      BY KindsOf3c
  <2> QED
      BY <1>1, <1>3, <2>1, RunOf
<1>5. WordNumber(lab3c, 10, 5)
  <2>1. Kind(lab3c, 9, 10, {"label", "blank"})
      BY KindsOf3c
  <2> QED
      BY <1>1, <1>4, <2>1, GapOf
<1>6. /\ WordNumber(lab3c, 16, 11)
      /\ \A p \in 11..16 : p \in Encoded(lab3c) /\ WordNumber(lab3c, p, p - 5)
  <2>1. Kind(lab3c, 11, 16, {"instr"})
      BY KindsOf3c
  <2> QED
      BY <1>1, <1>5, <2>1, RunOf
<1>7. WordNumber(lab3c, 17, 11)
  <2>1. Kind(lab3c, 17, 17, {"label", "blank"})
      BY KindsOf3c
  <2> QED
      BY <1>1, <1>6, <2>1, GapOf
<1>8. /\ WordNumber(lab3c, 20, 14)
      /\ \A p \in 18..20 : p \in Encoded(lab3c) /\ WordNumber(lab3c, p, p - 6)
  <2>1. Kind(lab3c, 18, 20, {"instr"})
      BY KindsOf3c
  <2> QED
      BY <1>1, <1>7, <2>1, RunOf
<1>9. WordNumber(lab3c, 21, 14)
  <2>1. Kind(lab3c, 21, 21, {"label", "blank"})
      BY KindsOf3c
  <2> QED
      BY <1>1, <1>8, <2>1, GapOf
<1>10. /\ WordNumber(lab3c, 23, 16)
      /\ \A p \in 22..23 : p \in Encoded(lab3c) /\ WordNumber(lab3c, p, p - 7)
  <2>1. Kind(lab3c, 22, 23, {"instr"})
      BY KindsOf3c
  <2> QED
      BY <1>1, <1>9, <2>1, RunOf
<1> QED
    BY <1>3, <1>4, <1>5, <1>6, <1>8, <1>10

\* What its labels stand for.
LEMMA LabelsOf3c ==
    ASSUME lab3c \in SourceFile
    PROVE  /\ text_symbol_table(lab3c, "loop") = 5
<1>1. \A p \in DOMAIN lab3c : lab3c[p].kind = "label" => p \in {3, 10}
    BY KindsOf3c DEF LabelsAmong
<1>2. /\ lab3c[3].name = "main"
      /\ lab3c[10].name = "loop"
  <2>1. /\ lab3c[3] = Label("main")
        /\ lab3c[10] = Label("loop")
      BY LinesOf3c
  <2> QED
      BY <2>1, Kinds
<1>3. TextFrom(lab3c, 1)
    BY TextFrom3c
<1>4. text_symbol_table(lab3c, "loop") = 5
  <2>1. lab3c[10] = Label("loop") /\ 10 \in DOMAIN lab3c
      BY LinesOf3c
  <2>2. \A q \in {3, 10} : q > 10 => lab3c[q].name # "loop"
      BY <1>2
  <2>3. \A q \in DOMAIN lab3c : q > 10 /\ lab3c[q].kind = "label"
            => lab3c[q].name # "loop"
      BY <1>1, <2>2
  <2>4. WordNumber(lab3c, 10, 5)
      BY WordsOf3c
  <2> QED
      BY <1>3, <2>1, <2>3, <2>4, LabelOf
<1> QED
    BY <1>4

\* The instructions of lab3c.s as they are in the text segment.
Text3c(i) ==
    /\ Len(i) = 16
    /\ Reads(i[1], "li", 1, 0, 0, 0)
    /\ Reads(i[2], "li", 2, 0, 0, 10)
    /\ Reads(i[3], "li", 3, 0, 0, 100)
    /\ Reads(i[4], "li", 4, 0, 0, 1000)
    /\ Reads(i[5], "li", 5, 0, 0, 7)
    /\ Reads(i[6], "subi", 5, 5, 0, 1)
    /\ Reads(i[7], "add", 1, 1, 2, 0)
    /\ Reads(i[8], "add", 1, 1, 3, 0)
    /\ Reads(i[9], "add", 1, 1, 4, 0)
    /\ Reads(i[10], "bge", 5, 0, 0, 5)
    /\ Reads(i[11], "nop", 0, 0, 0, 0)
    /\ Reads(i[12], "add", 4, 0, 1, 0)
    /\ Reads(i[13], "li", 2, 0, 0, 1)
    /\ Reads(i[14], "syscall", 0, 0, 0, 0)
    /\ Reads(i[15], "li", 2, 0, 0, 10)
    /\ Reads(i[16], "syscall", 0, 0, 0, 0)

LEMMA TextOf3c ==
    ASSUME lab3c \in SourceFile
    PROVE  Text3c(init_segs(lab3c))
<1> DEFINE i == init_segs(lab3c)
<1>1. Len(i) = 16
  <2>1. {q \in Encoded(lab3c) : q <= 23} = Encoded(lab3c)
    <3>1. DOMAIN lab3c = 1..23
        BY LinesOf3c
    <3> QED
        BY <3>1 DEF Encoded, LinesOf
  <2> QED
      BY <2>1, WordsOf3c, TextLength DEF WordsTo, WordNumber, SourceFile
<1>0. TextFrom(lab3c, 1)
    BY TextFrom3c
<1>2. Reads(i[1], "li", 1, 0, 0, 0)
  <2>1. /\ 4 \in Encoded(lab3c) /\ WordNumber(lab3c, 4, 1)
        /\ lab3c[4] = Instr("li", 1, 0, 0, 0, NoLabel)
      BY WordsOf3c, LinesOf3c, SMTT(30)
  <2> QED
      BY <1>0, <2>1, PlainWord DEF Branches
<1>3. Reads(i[2], "li", 2, 0, 0, 10)
  <2>1. /\ 5 \in Encoded(lab3c) /\ WordNumber(lab3c, 5, 2)
        /\ lab3c[5] = Instr("li", 2, 0, 0, 10, NoLabel)
      BY WordsOf3c, LinesOf3c, SMTT(30)
  <2> QED
      BY <1>0, <2>1, PlainWord DEF Branches
<1>4. Reads(i[3], "li", 3, 0, 0, 100)
  <2>1. /\ 6 \in Encoded(lab3c) /\ WordNumber(lab3c, 6, 3)
        /\ lab3c[6] = Instr("li", 3, 0, 0, 100, NoLabel)
      BY WordsOf3c, LinesOf3c, SMTT(30)
  <2> QED
      BY <1>0, <2>1, PlainWord DEF Branches
<1>5. Reads(i[4], "li", 4, 0, 0, 1000)
  <2>1. /\ 7 \in Encoded(lab3c) /\ WordNumber(lab3c, 7, 4)
        /\ lab3c[7] = Instr("li", 4, 0, 0, 1000, NoLabel)
      BY WordsOf3c, LinesOf3c, SMTT(30)
  <2> QED
      BY <1>0, <2>1, PlainWord DEF Branches
<1>6. Reads(i[5], "li", 5, 0, 0, 7)
  <2>1. /\ 8 \in Encoded(lab3c) /\ WordNumber(lab3c, 8, 5)
        /\ lab3c[8] = Instr("li", 5, 0, 0, 7, NoLabel)
      BY WordsOf3c, LinesOf3c, SMTT(30)
  <2> QED
      BY <1>0, <2>1, PlainWord DEF Branches
<1>7. Reads(i[6], "subi", 5, 5, 0, 1)
  <2>1. /\ 11 \in Encoded(lab3c) /\ WordNumber(lab3c, 11, 6)
        /\ lab3c[11] = Instr("subi", 5, 5, 0, 1, NoLabel)
      BY WordsOf3c, LinesOf3c, SMTT(30)
  <2> QED
      BY <1>0, <2>1, PlainWord DEF Branches
<1>8. Reads(i[7], "add", 1, 1, 2, 0)
  <2>1. /\ 12 \in Encoded(lab3c) /\ WordNumber(lab3c, 12, 7)
        /\ lab3c[12] = Instr("add", 1, 1, 2, 0, NoLabel)
      BY WordsOf3c, LinesOf3c, SMTT(30)
  <2> QED
      BY <1>0, <2>1, PlainWord DEF Branches
<1>9. Reads(i[8], "add", 1, 1, 3, 0)
  <2>1. /\ 13 \in Encoded(lab3c) /\ WordNumber(lab3c, 13, 8)
        /\ lab3c[13] = Instr("add", 1, 1, 3, 0, NoLabel)
      BY WordsOf3c, LinesOf3c, SMTT(30)
  <2> QED
      BY <1>0, <2>1, PlainWord DEF Branches
<1>10. Reads(i[9], "add", 1, 1, 4, 0)
  <2>1. /\ 14 \in Encoded(lab3c) /\ WordNumber(lab3c, 14, 9)
        /\ lab3c[14] = Instr("add", 1, 1, 4, 0, NoLabel)
      BY WordsOf3c, LinesOf3c, SMTT(30)
  <2> QED
      BY <1>0, <2>1, PlainWord DEF Branches
<1>11. Reads(i[10], "bge", 5, 0, 0, 5)
  <2>1. /\ 15 \in Encoded(lab3c) /\ WordNumber(lab3c, 15, 10)
        /\ lab3c[15] = Instr("bge", 5, 0, 0, 0, "loop")
      BY WordsOf3c, LinesOf3c, SMTT(30)
  <2>2. text_symbol_table(lab3c, "loop") = 5 /\ "bge" \in Branches
      BY LabelsOf3c DEF Branches
  <2> QED
      BY <1>0, <2>1, <2>2, BranchWord
<1>12. Reads(i[11], "nop", 0, 0, 0, 0)
  <2>1. /\ 16 \in Encoded(lab3c) /\ WordNumber(lab3c, 16, 11)
        /\ lab3c[16] = Instr("nop", 0, 0, 0, 0, NoLabel)
      BY WordsOf3c, LinesOf3c, SMTT(30)
  <2> QED
      BY <1>0, <2>1, PlainWord DEF Branches
<1>13. Reads(i[12], "add", 4, 0, 1, 0)
  <2>1. /\ 18 \in Encoded(lab3c) /\ WordNumber(lab3c, 18, 12)
        /\ lab3c[18] = Instr("add", 4, 0, 1, 0, NoLabel)
      BY WordsOf3c, LinesOf3c, SMTT(30)
  <2> QED
      BY <1>0, <2>1, PlainWord DEF Branches
<1>14. Reads(i[13], "li", 2, 0, 0, 1)
  <2>1. /\ 19 \in Encoded(lab3c) /\ WordNumber(lab3c, 19, 13)
        /\ lab3c[19] = Instr("li", 2, 0, 0, 1, NoLabel)
      BY WordsOf3c, LinesOf3c, SMTT(30)
  <2> QED
      BY <1>0, <2>1, PlainWord DEF Branches
<1>15. Reads(i[14], "syscall", 0, 0, 0, 0)
  <2>1. /\ 20 \in Encoded(lab3c) /\ WordNumber(lab3c, 20, 14)
        /\ lab3c[20] = Instr("syscall", 0, 0, 0, 0, NoLabel)
      BY WordsOf3c, LinesOf3c, SMTT(30)
  <2> QED
      BY <1>0, <2>1, PlainWord DEF Branches
<1>16. Reads(i[15], "li", 2, 0, 0, 10)
  <2>1. /\ 22 \in Encoded(lab3c) /\ WordNumber(lab3c, 22, 15)
        /\ lab3c[22] = Instr("li", 2, 0, 0, 10, NoLabel)
      BY WordsOf3c, LinesOf3c, SMTT(30)
  <2> QED
      BY <1>0, <2>1, PlainWord DEF Branches
<1>17. Reads(i[16], "syscall", 0, 0, 0, 0)
  <2>1. /\ 23 \in Encoded(lab3c) /\ WordNumber(lab3c, 23, 16)
        /\ lab3c[23] = Instr("syscall", 0, 0, 0, 0, NoLabel)
      BY WordsOf3c, LinesOf3c, SMTT(30)
  <2> QED
      BY <1>0, <2>1, PlainWord DEF Branches
<1> QED
    BY <1>1, <1>2, <1>3, <1>4, <1>5, <1>6, <1>7, <1>8, <1>9, <1>10, <1>11,
       <1>12, <1>13, <1>14, <1>15, <1>16, <1>17 DEF Text3c

(***************************************************************************)
(* The text segment of lab3b.s, and its data                               *)
(***************************************************************************)

\* The lines of lab3b.s.
LEMMA LinesOf3b ==
    /\ Len(lab3b) = 62 /\ DOMAIN lab3b = 1..62
    /\ lab3b[1] = Directive("data")
    /\ lab3b[2] = Datum("is_palin_msg", 1)
    /\ lab3b[3] = Datum("not_palin_msg", 1)
    /\ lab3b[4] = Datum("string_space", 1024)
    /\ lab3b[5] = Blank
    /\ lab3b[6] = Directive("text")
    /\ lab3b[7] = Label("main")
    /\ lab3b[8] = Instr("la", 4, 0, 0, 0, "string_space")
    /\ lab3b[9] = Instr("li", 5, 0, 0, 1024, NoLabel)
    /\ lab3b[10] = Instr("li", 2, 0, 0, 8, NoLabel)
    /\ lab3b[11] = Instr("syscall", 0, 0, 0, 0, NoLabel)
    /\ lab3b[12] = Blank
    /\ lab3b[13] = Instr("la", 9, 0, 0, 0, "string_space")
    /\ lab3b[14] = Instr("la", 10, 0, 0, 0, "string_space")
    /\ lab3b[15] = Blank
    /\ lab3b[16] = Label("length_loop")
    /\ lab3b[17] = Instr("lb", 11, 10, 0, 0, NoLabel)
    /\ lab3b[18] = Instr("nop", 0, 0, 0, 0, NoLabel)
    /\ lab3b[19] = Instr("beqz", 11, 0, 0, 0, "end_length_loop")
    /\ lab3b[20] = Instr("nop", 0, 0, 0, 0, NoLabel)
    /\ lab3b[21] = Blank
    /\ lab3b[22] = Instr("addi", 10, 10, 0, 1, NoLabel)
    /\ lab3b[23] = Instr("b", 0, 0, 0, 0, "length_loop")
    /\ lab3b[24] = Instr("nop", 0, 0, 0, 0, NoLabel)
    /\ lab3b[25] = Blank
    /\ lab3b[26] = Label("end_length_loop")
    /\ lab3b[27] = Instr("subi", 10, 10, 0, 2, NoLabel)
    /\ lab3b[28] = Blank
    /\ lab3b[29] = Label("test_loop")
    /\ lab3b[30] = Instr("bge", 9, 0, 10, 0, "is_palin")
    /\ lab3b[31] = Instr("nop", 0, 0, 0, 0, NoLabel)
    /\ lab3b[32] = Blank
    /\ lab3b[33] = Instr("lb", 11, 9, 0, 0, NoLabel)
    /\ lab3b[34] = Instr("nop", 0, 0, 0, 0, NoLabel)
    /\ lab3b[35] = Instr("lb", 12, 10, 0, 0, NoLabel)
    /\ lab3b[36] = Instr("nop", 0, 0, 0, 0, NoLabel)
    /\ lab3b[37] = Instr("bne", 11, 0, 12, 0, "not_palin")
    /\ lab3b[38] = Instr("nop", 0, 0, 0, 0, NoLabel)
    /\ lab3b[39] = Blank
    /\ lab3b[40] = Instr("addi", 9, 9, 0, 1, NoLabel)
    /\ lab3b[41] = Instr("subi", 10, 10, 0, 1, NoLabel)
    /\ lab3b[42] = Instr("b", 0, 0, 0, 0, "test_loop")
    /\ lab3b[43] = Instr("nop", 0, 0, 0, 0, NoLabel)
    /\ lab3b[44] = Blank
    /\ lab3b[45] = Label("is_palin")
    /\ lab3b[46] = Blank
    /\ lab3b[47] = Instr("la", 4, 0, 0, 0, "is_palin_msg")
    /\ lab3b[48] = Instr("li", 2, 0, 0, 4, NoLabel)
    /\ lab3b[49] = Instr("syscall", 0, 0, 0, 0, NoLabel)
    /\ lab3b[50] = Instr("b", 0, 0, 0, 0, "exit")
    /\ lab3b[51] = Instr("nop", 0, 0, 0, 0, NoLabel)
    /\ lab3b[52] = Blank
    /\ lab3b[53] = Label("not_palin")
    /\ lab3b[54] = Instr("la", 4, 0, 0, 0, "not_palin_msg")
    /\ lab3b[55] = Instr("li", 2, 0, 0, 4, NoLabel)
    /\ lab3b[56] = Instr("syscall", 0, 0, 0, 0, NoLabel)
    /\ lab3b[57] = Instr("b", 0, 0, 0, 0, "exit")
    /\ lab3b[58] = Instr("nop", 0, 0, 0, 0, NoLabel)
    /\ lab3b[59] = Blank
    /\ lab3b[60] = Label("exit")
    /\ lab3b[61] = Instr("li", 2, 0, 0, 10, NoLabel)
    /\ lab3b[62] = Instr("syscall", 0, 0, 0, 0, NoLabel)
<1>1. /\ Len(lab3b) = 62 /\ DOMAIN lab3b = 1..62
      /\ lab3b[1] = Directive("data")
      /\ lab3b[2] = Datum("is_palin_msg", 1)
      /\ lab3b[3] = Datum("not_palin_msg", 1)
      /\ lab3b[4] = Datum("string_space", 1024)
      /\ lab3b[5] = Blank
      /\ lab3b[6] = Directive("text")
      /\ lab3b[7] = Label("main")
      /\ lab3b[8] = la(4, "string_space")
      /\ lab3b[9] = li(5, 1024)
      /\ lab3b[10] = li(2, 8)
      /\ lab3b[11] = syscall
      /\ lab3b[12] = Blank
      /\ lab3b[13] = la(9, "string_space")
      /\ lab3b[14] = la(10, "string_space")
      /\ lab3b[15] = Blank
    BY SMTT(30) DEF lab3b
<1>2. /\ lab3b[16] = Label("length_loop")
      /\ lab3b[17] = lb(11, 10)
      /\ lab3b[18] = nop
      /\ lab3b[19] = beqz(11, "end_length_loop")
      /\ lab3b[20] = nop
      /\ lab3b[21] = Blank
      /\ lab3b[22] = addi(10, 10, 1)
      /\ lab3b[23] = b("length_loop")
      /\ lab3b[24] = nop
      /\ lab3b[25] = Blank
      /\ lab3b[26] = Label("end_length_loop")
      /\ lab3b[27] = subi(10, 10, 2)
      /\ lab3b[28] = Blank
      /\ lab3b[29] = Label("test_loop")
      /\ lab3b[30] = bge(9, 10, "is_palin")
      /\ lab3b[31] = nop
    BY SMTT(30) DEF lab3b
<1>3. /\ lab3b[32] = Blank
      /\ lab3b[33] = lb(11, 9)
      /\ lab3b[34] = nop
      /\ lab3b[35] = lb(12, 10)
      /\ lab3b[36] = nop
      /\ lab3b[37] = bne(11, 12, "not_palin")
      /\ lab3b[38] = nop
      /\ lab3b[39] = Blank
      /\ lab3b[40] = addi(9, 9, 1)
      /\ lab3b[41] = subi(10, 10, 1)
      /\ lab3b[42] = b("test_loop")
      /\ lab3b[43] = nop
      /\ lab3b[44] = Blank
      /\ lab3b[45] = Label("is_palin")
      /\ lab3b[46] = Blank
      /\ lab3b[47] = la(4, "is_palin_msg")
    BY SMTT(30) DEF lab3b
<1>4. /\ lab3b[48] = li(2, 4)
      /\ lab3b[49] = syscall
      /\ lab3b[50] = b("exit")
      /\ lab3b[51] = nop
      /\ lab3b[52] = Blank
      /\ lab3b[53] = Label("not_palin")
      /\ lab3b[54] = la(4, "not_palin_msg")
      /\ lab3b[55] = li(2, 4)
      /\ lab3b[56] = syscall
      /\ lab3b[57] = b("exit")
      /\ lab3b[58] = nop
      /\ lab3b[59] = Blank
      /\ lab3b[60] = Label("exit")
      /\ lab3b[61] = li(2, 10)
      /\ lab3b[62] = syscall
    BY SMTT(30) DEF lab3b
<1> QED
    BY <1>1, <1>2, <1>3, <1>4, Statements, SMTT(30)

\* Their kinds.
LEMMA KindsOf3b ==
    /\ Kind(lab3b, 1, 6, {"data", "datum", "blank", "text"})
    /\ Kind(lab3b, 7, 7, {"label", "blank"})
    /\ Kind(lab3b, 8, 11, {"instr"})
    /\ Kind(lab3b, 12, 12, {"label", "blank"})
    /\ Kind(lab3b, 13, 14, {"instr"})
    /\ Kind(lab3b, 15, 16, {"label", "blank"})
    /\ Kind(lab3b, 17, 20, {"instr"})
    /\ Kind(lab3b, 21, 21, {"label", "blank"})
    /\ Kind(lab3b, 22, 24, {"instr"})
    /\ Kind(lab3b, 25, 26, {"label", "blank"})
    /\ Kind(lab3b, 27, 27, {"instr"})
    /\ Kind(lab3b, 28, 29, {"label", "blank"})
    /\ Kind(lab3b, 30, 31, {"instr"})
    /\ Kind(lab3b, 32, 32, {"label", "blank"})
    /\ Kind(lab3b, 33, 38, {"instr"})
    /\ Kind(lab3b, 39, 39, {"label", "blank"})
    /\ Kind(lab3b, 40, 43, {"instr"})
    /\ Kind(lab3b, 44, 45, {"label", "blank"})
    /\ Kind(lab3b, 46, 46, {"label", "blank"})
    /\ Kind(lab3b, 47, 51, {"instr"})
    /\ Kind(lab3b, 52, 53, {"label", "blank"})
    /\ Kind(lab3b, 54, 58, {"instr"})
    /\ Kind(lab3b, 59, 60, {"label", "blank"})
    /\ Kind(lab3b, 61, 62, {"instr"})
    /\ LabelsAmong(lab3b, {7, 16, 26, 29, 45, 53, 60})
<1>1. DOMAIN lab3b = 1..62
    BY LinesOf3b
<1>2. Kind(lab3b, 1, 6, {"data", "datum", "blank", "text"})
  <2>1. /\ lab3b[1].kind = "data"
        /\ lab3b[2].kind = "datum"
        /\ lab3b[3].kind = "datum"
        /\ lab3b[4].kind = "datum"
        /\ lab3b[5].kind = "blank"
        /\ lab3b[6].kind = "text"
      BY LinesOf3b, Kinds
  <2> QED
      BY <1>1, <2>1 DEF Kind
<1>3. \A p \in 1..6 : lab3b[p].kind = "label"
          => p \in {7, 16, 26, 29, 45, 53, 60}
  <2>1. /\ lab3b[1].kind = "data"
        /\ lab3b[2].kind = "datum"
        /\ lab3b[3].kind = "datum"
        /\ lab3b[4].kind = "datum"
        /\ lab3b[5].kind = "blank"
        /\ lab3b[6].kind = "text"
      BY LinesOf3b, Kinds
  <2> QED
      BY <2>1
<1>4. Kind(lab3b, 7, 7, {"label", "blank"})
  <2>1. /\ lab3b[7].kind = "label"
      BY LinesOf3b, Kinds
  <2> QED
      BY <1>1, <2>1 DEF Kind
<1>5. \A p \in 7..7 : lab3b[p].kind = "label"
          => p \in {7, 16, 26, 29, 45, 53, 60}
  <2>1. /\ lab3b[7].kind = "label"
      BY LinesOf3b, Kinds
  <2> QED
      BY <2>1
<1>6. Kind(lab3b, 8, 11, {"instr"})
  <2>1. /\ lab3b[8].kind = "instr"
        /\ lab3b[9].kind = "instr"
        /\ lab3b[10].kind = "instr"
        /\ lab3b[11].kind = "instr"
      BY LinesOf3b, Kinds
  <2> QED
      BY <1>1, <2>1 DEF Kind
<1>7. Kind(lab3b, 12, 12, {"label", "blank"})
  <2>1. /\ lab3b[12].kind = "blank"
      BY LinesOf3b, Kinds
  <2> QED
      BY <1>1, <2>1 DEF Kind
<1>8. \A p \in 12..12 : lab3b[p].kind = "label"
          => p \in {7, 16, 26, 29, 45, 53, 60}
  <2>1. /\ lab3b[12].kind = "blank"
      BY LinesOf3b, Kinds
  <2> QED
      BY <2>1
<1>9. Kind(lab3b, 13, 14, {"instr"})
  <2>1. /\ lab3b[13].kind = "instr"
        /\ lab3b[14].kind = "instr"
      BY LinesOf3b, Kinds
  <2> QED
      BY <1>1, <2>1 DEF Kind
<1>10. Kind(lab3b, 15, 16, {"label", "blank"})
  <2>1. /\ lab3b[15].kind = "blank"
        /\ lab3b[16].kind = "label"
      BY LinesOf3b, Kinds
  <2> QED
      BY <1>1, <2>1 DEF Kind
<1>11. \A p \in 15..16 : lab3b[p].kind = "label"
           => p \in {7, 16, 26, 29, 45, 53, 60}
  <2>1. /\ lab3b[15].kind = "blank"
        /\ lab3b[16].kind = "label"
      BY LinesOf3b, Kinds
  <2> QED
      BY <2>1
<1>12. Kind(lab3b, 17, 20, {"instr"})
  <2>1. /\ lab3b[17].kind = "instr"
        /\ lab3b[18].kind = "instr"
        /\ lab3b[19].kind = "instr"
        /\ lab3b[20].kind = "instr"
      BY LinesOf3b, Kinds
  <2> QED
      BY <1>1, <2>1 DEF Kind
<1>13. Kind(lab3b, 21, 21, {"label", "blank"})
  <2>1. /\ lab3b[21].kind = "blank"
      BY LinesOf3b, Kinds
  <2> QED
      BY <1>1, <2>1 DEF Kind
<1>14. \A p \in 21..21 : lab3b[p].kind = "label"
           => p \in {7, 16, 26, 29, 45, 53, 60}
  <2>1. /\ lab3b[21].kind = "blank"
      BY LinesOf3b, Kinds
  <2> QED
      BY <2>1
<1>15. Kind(lab3b, 22, 24, {"instr"})
  <2>1. /\ lab3b[22].kind = "instr"
        /\ lab3b[23].kind = "instr"
        /\ lab3b[24].kind = "instr"
      BY LinesOf3b, Kinds
  <2> QED
      BY <1>1, <2>1 DEF Kind
<1>16. Kind(lab3b, 25, 26, {"label", "blank"})
  <2>1. /\ lab3b[25].kind = "blank"
        /\ lab3b[26].kind = "label"
      BY LinesOf3b, Kinds
  <2> QED
      BY <1>1, <2>1 DEF Kind
<1>17. \A p \in 25..26 : lab3b[p].kind = "label"
           => p \in {7, 16, 26, 29, 45, 53, 60}
  <2>1. /\ lab3b[25].kind = "blank"
        /\ lab3b[26].kind = "label"
      BY LinesOf3b, Kinds
  <2> QED
      BY <2>1
<1>18. Kind(lab3b, 27, 27, {"instr"})
  <2>1. /\ lab3b[27].kind = "instr"
      BY LinesOf3b, Kinds
  <2> QED
      BY <1>1, <2>1 DEF Kind
<1>19. Kind(lab3b, 28, 29, {"label", "blank"})
  <2>1. /\ lab3b[28].kind = "blank"
        /\ lab3b[29].kind = "label"
      BY LinesOf3b, Kinds
  <2> QED
      BY <1>1, <2>1 DEF Kind
<1>20. \A p \in 28..29 : lab3b[p].kind = "label"
           => p \in {7, 16, 26, 29, 45, 53, 60}
  <2>1. /\ lab3b[28].kind = "blank"
        /\ lab3b[29].kind = "label"
      BY LinesOf3b, Kinds
  <2> QED
      BY <2>1
<1>21. Kind(lab3b, 30, 31, {"instr"})
  <2>1. /\ lab3b[30].kind = "instr"
        /\ lab3b[31].kind = "instr"
      BY LinesOf3b, Kinds
  <2> QED
      BY <1>1, <2>1 DEF Kind
<1>22. Kind(lab3b, 32, 32, {"label", "blank"})
  <2>1. /\ lab3b[32].kind = "blank"
      BY LinesOf3b, Kinds
  <2> QED
      BY <1>1, <2>1 DEF Kind
<1>23. \A p \in 32..32 : lab3b[p].kind = "label"
           => p \in {7, 16, 26, 29, 45, 53, 60}
  <2>1. /\ lab3b[32].kind = "blank"
      BY LinesOf3b, Kinds
  <2> QED
      BY <2>1
<1>24. Kind(lab3b, 33, 38, {"instr"})
  <2>1. /\ lab3b[33].kind = "instr"
        /\ lab3b[34].kind = "instr"
        /\ lab3b[35].kind = "instr"
        /\ lab3b[36].kind = "instr"
        /\ lab3b[37].kind = "instr"
        /\ lab3b[38].kind = "instr"
      BY LinesOf3b, Kinds
  <2> QED
      BY <1>1, <2>1 DEF Kind
<1>25. Kind(lab3b, 39, 39, {"label", "blank"})
  <2>1. /\ lab3b[39].kind = "blank"
      BY LinesOf3b, Kinds
  <2> QED
      BY <1>1, <2>1 DEF Kind
<1>26. \A p \in 39..39 : lab3b[p].kind = "label"
           => p \in {7, 16, 26, 29, 45, 53, 60}
  <2>1. /\ lab3b[39].kind = "blank"
      BY LinesOf3b, Kinds
  <2> QED
      BY <2>1
<1>27. Kind(lab3b, 40, 43, {"instr"})
  <2>1. /\ lab3b[40].kind = "instr"
        /\ lab3b[41].kind = "instr"
        /\ lab3b[42].kind = "instr"
        /\ lab3b[43].kind = "instr"
      BY LinesOf3b, Kinds
  <2> QED
      BY <1>1, <2>1 DEF Kind
<1>28. Kind(lab3b, 44, 45, {"label", "blank"})
  <2>1. /\ lab3b[44].kind = "blank"
        /\ lab3b[45].kind = "label"
      BY LinesOf3b, Kinds
  <2> QED
      BY <1>1, <2>1 DEF Kind
<1>29. \A p \in 44..45 : lab3b[p].kind = "label"
           => p \in {7, 16, 26, 29, 45, 53, 60}
  <2>1. /\ lab3b[44].kind = "blank"
        /\ lab3b[45].kind = "label"
      BY LinesOf3b, Kinds
  <2> QED
      BY <2>1
<1>30. Kind(lab3b, 46, 46, {"label", "blank"})
  <2>1. /\ lab3b[46].kind = "blank"
      BY LinesOf3b, Kinds
  <2> QED
      BY <1>1, <2>1 DEF Kind
<1>31. \A p \in 46..46 : lab3b[p].kind = "label"
           => p \in {7, 16, 26, 29, 45, 53, 60}
  <2>1. /\ lab3b[46].kind = "blank"
      BY LinesOf3b, Kinds
  <2> QED
      BY <2>1
<1>32. Kind(lab3b, 47, 51, {"instr"})
  <2>1. /\ lab3b[47].kind = "instr"
        /\ lab3b[48].kind = "instr"
        /\ lab3b[49].kind = "instr"
        /\ lab3b[50].kind = "instr"
        /\ lab3b[51].kind = "instr"
      BY LinesOf3b, Kinds
  <2> QED
      BY <1>1, <2>1 DEF Kind
<1>33. Kind(lab3b, 52, 53, {"label", "blank"})
  <2>1. /\ lab3b[52].kind = "blank"
        /\ lab3b[53].kind = "label"
      BY LinesOf3b, Kinds
  <2> QED
      BY <1>1, <2>1 DEF Kind
<1>34. \A p \in 52..53 : lab3b[p].kind = "label"
           => p \in {7, 16, 26, 29, 45, 53, 60}
  <2>1. /\ lab3b[52].kind = "blank"
        /\ lab3b[53].kind = "label"
      BY LinesOf3b, Kinds
  <2> QED
      BY <2>1
<1>35. Kind(lab3b, 54, 58, {"instr"})
  <2>1. /\ lab3b[54].kind = "instr"
        /\ lab3b[55].kind = "instr"
        /\ lab3b[56].kind = "instr"
        /\ lab3b[57].kind = "instr"
        /\ lab3b[58].kind = "instr"
      BY LinesOf3b, Kinds
  <2> QED
      BY <1>1, <2>1 DEF Kind
<1>36. Kind(lab3b, 59, 60, {"label", "blank"})
  <2>1. /\ lab3b[59].kind = "blank"
        /\ lab3b[60].kind = "label"
      BY LinesOf3b, Kinds
  <2> QED
      BY <1>1, <2>1 DEF Kind
<1>37. \A p \in 59..60 : lab3b[p].kind = "label"
           => p \in {7, 16, 26, 29, 45, 53, 60}
  <2>1. /\ lab3b[59].kind = "blank"
        /\ lab3b[60].kind = "label"
      BY LinesOf3b, Kinds
  <2> QED
      BY <2>1
<1>38. Kind(lab3b, 61, 62, {"instr"})
  <2>1. /\ lab3b[61].kind = "instr"
        /\ lab3b[62].kind = "instr"
      BY LinesOf3b, Kinds
  <2> QED
      BY <1>1, <2>1 DEF Kind
<1>39. LabelsAmong(lab3b, {7, 16, 26, 29, 45, 53, 60})
  <2>1. \A p \in 1..14 : lab3b[p].kind = "label"
            => p \in {7, 16, 26, 29, 45, 53, 60}
      BY <1>3, <1>5, <1>6, <1>8, <1>9 DEF Kind
  <2>2. \A p \in 15..26 : lab3b[p].kind = "label"
            => p \in {7, 16, 26, 29, 45, 53, 60}
      BY <1>11, <1>12, <1>14, <1>15, <1>17 DEF Kind
  <2>3. \A p \in 27..38 : lab3b[p].kind = "label"
            => p \in {7, 16, 26, 29, 45, 53, 60}
      BY <1>18, <1>20, <1>21, <1>23, <1>24 DEF Kind
  <2>4. \A p \in 39..51 : lab3b[p].kind = "label"
            => p \in {7, 16, 26, 29, 45, 53, 60}
      BY <1>26, <1>27, <1>29, <1>31, <1>32 DEF Kind
  <2>5. \A p \in 52..62 : lab3b[p].kind = "label"
            => p \in {7, 16, 26, 29, 45, 53, 60}
      BY <1>34, <1>35, <1>37, <1>38 DEF Kind
  <2> QED
      BY <1>1, <2>1, <2>2, <2>3, <2>4, <2>5 DEF LabelsAmong
<1> QED
    BY <1>2, <1>4, <1>6, <1>7, <1>9, <1>10, <1>12, <1>13, <1>15, <1>16,
       <1>18, <1>19, <1>21, <1>22, <1>24, <1>25, <1>27, <1>28, <1>30, <1>32,
       <1>33, <1>35, <1>36, <1>38, <1>39

\* Its data come first.
LEMMA TextFrom3b == ASSUME lab3b \in SourceFile PROVE TextFrom(lab3b, 6)
<1>1. lab3b[6].kind = "text"
    BY LinesOf3b, Kinds
<1>2. DOMAIN lab3b = 1..62
    BY LinesOf3b
<1>4. \A p \in 7..62 : lab3b[p].kind \in {"instr", "label", "blank"}
  <2>1. /\ Kind(lab3b, 7, 7, {"label", "blank"})
        /\ Kind(lab3b, 8, 11, {"instr"})
        /\ Kind(lab3b, 12, 12, {"label", "blank"})
        /\ Kind(lab3b, 13, 14, {"instr"})
      BY KindsOf3b
  <2>2. \A p \in 7..14 : lab3b[p].kind \in {"instr", "label", "blank"}
      BY <2>1 DEF Kind
  <2>3. /\ Kind(lab3b, 15, 16, {"label", "blank"})
        /\ Kind(lab3b, 17, 20, {"instr"})
        /\ Kind(lab3b, 21, 21, {"label", "blank"})
        /\ Kind(lab3b, 22, 24, {"instr"})
      BY KindsOf3b
  <2>4. \A p \in 15..24 : lab3b[p].kind \in {"instr", "label", "blank"}
      BY <2>3 DEF Kind
  <2>5. /\ Kind(lab3b, 25, 26, {"label", "blank"})
        /\ Kind(lab3b, 27, 27, {"instr"})
        /\ Kind(lab3b, 28, 29, {"label", "blank"})
        /\ Kind(lab3b, 30, 31, {"instr"})
      BY KindsOf3b
  <2>6. \A p \in 25..31 : lab3b[p].kind \in {"instr", "label", "blank"}
      BY <2>5 DEF Kind
  <2>7. /\ Kind(lab3b, 32, 32, {"label", "blank"})
        /\ Kind(lab3b, 33, 38, {"instr"})
        /\ Kind(lab3b, 39, 39, {"label", "blank"})
        /\ Kind(lab3b, 40, 43, {"instr"})
      BY KindsOf3b
  <2>8. \A p \in 32..43 : lab3b[p].kind \in {"instr", "label", "blank"}
      BY <2>7 DEF Kind
  <2>9. /\ Kind(lab3b, 44, 45, {"label", "blank"})
        /\ Kind(lab3b, 46, 46, {"label", "blank"})
        /\ Kind(lab3b, 47, 51, {"instr"})
        /\ Kind(lab3b, 52, 53, {"label", "blank"})
      BY KindsOf3b
  <2>10. \A p \in 44..53 : lab3b[p].kind \in {"instr", "label", "blank"}
      BY <2>9 DEF Kind
  <2>11. /\ Kind(lab3b, 54, 58, {"instr"})
        /\ Kind(lab3b, 59, 60, {"label", "blank"})
        /\ Kind(lab3b, 61, 62, {"instr"})
      BY KindsOf3b
  <2>12. \A p \in 54..62 : lab3b[p].kind \in {"instr", "label", "blank"}
      BY <2>11 DEF Kind
  <2> TAKE p \in 7..62
  <2>13. CASE p \in 7..14
      BY <2>2, <2>13
  <2>14. CASE p \in 15..24
      BY <2>4, <2>14
  <2>15. CASE p \in 25..31
      BY <2>6, <2>15
  <2>16. CASE p \in 32..43
      BY <2>8, <2>16
  <2>17. CASE p \in 44..53
      BY <2>10, <2>17
  <2>18. CASE p \in 54..62
      BY <2>12, <2>18
  <2> QED
      BY <2>13, <2>14, <2>15, <2>16, <2>17, <2>18
<1>5. Kind(lab3b, 1, 6, {"data", "datum", "blank", "text"})
    BY KindsOf3b
<1>6. \A p \in 1..6 : lab3b[p].kind \in {"data", "datum", "blank", "text"}
    BY <1>5 DEF Kind
<1> QED
    BY <1>1, <1>2, <1>4, <1>6 DEF TextFrom

\* The numbers of its words, and of the words above its labels.
LEMMA WordsOf3b ==
    ASSUME lab3b \in SourceFile
    PROVE  /\ \A p \in 8..11 : p \in Encoded(lab3b) /\ WordNumber(lab3b, p, p - 7)
           /\ \A p \in 13..14 :
                  p \in Encoded(lab3b) /\ WordNumber(lab3b, p, p - 8)
           /\ \A p \in 17..20 :
                  p \in Encoded(lab3b) /\ WordNumber(lab3b, p, p - 10)
           /\ \A p \in 22..24 :
                  p \in Encoded(lab3b) /\ WordNumber(lab3b, p, p - 11)
           /\ \A p \in 27..27 :
                  p \in Encoded(lab3b) /\ WordNumber(lab3b, p, p - 13)
           /\ \A p \in 30..31 :
                  p \in Encoded(lab3b) /\ WordNumber(lab3b, p, p - 15)
           /\ \A p \in 33..38 :
                  p \in Encoded(lab3b) /\ WordNumber(lab3b, p, p - 16)
           /\ \A p \in 40..43 :
                  p \in Encoded(lab3b) /\ WordNumber(lab3b, p, p - 17)
           /\ \A p \in 47..51 :
                  p \in Encoded(lab3b) /\ WordNumber(lab3b, p, p - 20)
           /\ \A p \in 54..58 :
                  p \in Encoded(lab3b) /\ WordNumber(lab3b, p, p - 22)
           /\ \A p \in 61..62 :
                  p \in Encoded(lab3b) /\ WordNumber(lab3b, p, p - 24)
           /\ WordNumber(lab3b, 7, 0)
           /\ WordNumber(lab3b, 16, 6)
           /\ WordNumber(lab3b, 26, 13)
           /\ WordNumber(lab3b, 29, 14)
           /\ WordNumber(lab3b, 45, 26)
           /\ WordNumber(lab3b, 53, 31)
           /\ WordNumber(lab3b, 60, 36)
           /\ WordNumber(lab3b, 62, 38)
<1>1. TextFrom(lab3b, 6)
    BY TextFrom3b
<1>2. WordNumber(lab3b, 6, 0)
    BY <1>1, TextBegins
<1>3. WordNumber(lab3b, 7, 0)
  <2>1. Kind(lab3b, 7, 7, {"label", "blank"})
      BY KindsOf3b
  <2> QED
      BY <1>1, <1>2, <2>1, GapOf
<1>4. /\ WordNumber(lab3b, 11, 4)
      /\ \A p \in 8..11 : p \in Encoded(lab3b) /\ WordNumber(lab3b, p, p - 7)
  <2>1. Kind(lab3b, 8, 11, {"instr"})
      BY KindsOf3b
  <2> QED
      BY <1>1, <1>3, <2>1, RunOf
<1>5. WordNumber(lab3b, 12, 4)
  <2>1. Kind(lab3b, 12, 12, {"label", "blank"})
      BY KindsOf3b
  <2> QED
      BY <1>1, <1>4, <2>1, GapOf
<1>6. /\ WordNumber(lab3b, 14, 6)
      /\ \A p \in 13..14 : p \in Encoded(lab3b) /\ WordNumber(lab3b, p, p - 8)
  <2>1. Kind(lab3b, 13, 14, {"instr"})
      BY KindsOf3b
  <2> QED
      BY <1>1, <1>5, <2>1, RunOf
<1>7. WordNumber(lab3b, 16, 6)
  <2>1. Kind(lab3b, 15, 16, {"label", "blank"})
      BY KindsOf3b
  <2> QED
      BY <1>1, <1>6, <2>1, GapOf
<1>8. /\ WordNumber(lab3b, 20, 10)
      /\ \A p \in 17..20 : p \in Encoded(lab3b) /\ WordNumber(lab3b, p, p - 10)
  <2>1. Kind(lab3b, 17, 20, {"instr"})
      BY KindsOf3b
  <2> QED
      BY <1>1, <1>7, <2>1, RunOf
<1>9. WordNumber(lab3b, 21, 10)
  <2>1. Kind(lab3b, 21, 21, {"label", "blank"})
      BY KindsOf3b
  <2> QED
      BY <1>1, <1>8, <2>1, GapOf
<1>10. /\ WordNumber(lab3b, 24, 13)
      /\ \A p \in 22..24 : p \in Encoded(lab3b) /\ WordNumber(lab3b, p, p - 11)
  <2>1. Kind(lab3b, 22, 24, {"instr"})
      BY KindsOf3b
  <2> QED
      BY <1>1, <1>9, <2>1, RunOf
<1>11. WordNumber(lab3b, 26, 13)
  <2>1. Kind(lab3b, 25, 26, {"label", "blank"})
      BY KindsOf3b
  <2> QED
      BY <1>1, <1>10, <2>1, GapOf
<1>12. /\ WordNumber(lab3b, 27, 14)
      /\ \A p \in 27..27 : p \in Encoded(lab3b) /\ WordNumber(lab3b, p, p - 13)
  <2>1. Kind(lab3b, 27, 27, {"instr"})
      BY KindsOf3b
  <2> QED
      BY <1>1, <1>11, <2>1, RunOf
<1>13. WordNumber(lab3b, 29, 14)
  <2>1. Kind(lab3b, 28, 29, {"label", "blank"})
      BY KindsOf3b
  <2> QED
      BY <1>1, <1>12, <2>1, GapOf
<1>14. /\ WordNumber(lab3b, 31, 16)
      /\ \A p \in 30..31 : p \in Encoded(lab3b) /\ WordNumber(lab3b, p, p - 15)
  <2>1. Kind(lab3b, 30, 31, {"instr"})
      BY KindsOf3b
  <2> QED
      BY <1>1, <1>13, <2>1, RunOf
<1>15. WordNumber(lab3b, 32, 16)
  <2>1. Kind(lab3b, 32, 32, {"label", "blank"})
      BY KindsOf3b
  <2> QED
      BY <1>1, <1>14, <2>1, GapOf
<1>16. /\ WordNumber(lab3b, 38, 22)
      /\ \A p \in 33..38 : p \in Encoded(lab3b) /\ WordNumber(lab3b, p, p - 16)
  <2>1. Kind(lab3b, 33, 38, {"instr"})
      BY KindsOf3b
  <2> QED
      BY <1>1, <1>15, <2>1, RunOf
<1>17. WordNumber(lab3b, 39, 22)
  <2>1. Kind(lab3b, 39, 39, {"label", "blank"})
      BY KindsOf3b
  <2> QED
      BY <1>1, <1>16, <2>1, GapOf
<1>18. /\ WordNumber(lab3b, 43, 26)
      /\ \A p \in 40..43 : p \in Encoded(lab3b) /\ WordNumber(lab3b, p, p - 17)
  <2>1. Kind(lab3b, 40, 43, {"instr"})
      BY KindsOf3b
  <2> QED
      BY <1>1, <1>17, <2>1, RunOf
<1>19. WordNumber(lab3b, 45, 26)
  <2>1. Kind(lab3b, 44, 45, {"label", "blank"})
      BY KindsOf3b
  <2> QED
      BY <1>1, <1>18, <2>1, GapOf
<1>20. WordNumber(lab3b, 46, 26)
  <2>1. Kind(lab3b, 46, 46, {"label", "blank"})
      BY KindsOf3b
  <2> QED
      BY <1>1, <1>19, <2>1, GapOf
<1>21. /\ WordNumber(lab3b, 51, 31)
      /\ \A p \in 47..51 : p \in Encoded(lab3b) /\ WordNumber(lab3b, p, p - 20)
  <2>1. Kind(lab3b, 47, 51, {"instr"})
      BY KindsOf3b
  <2> QED
      BY <1>1, <1>20, <2>1, RunOf
<1>22. WordNumber(lab3b, 53, 31)
  <2>1. Kind(lab3b, 52, 53, {"label", "blank"})
      BY KindsOf3b
  <2> QED
      BY <1>1, <1>21, <2>1, GapOf
<1>23. /\ WordNumber(lab3b, 58, 36)
      /\ \A p \in 54..58 : p \in Encoded(lab3b) /\ WordNumber(lab3b, p, p - 22)
  <2>1. Kind(lab3b, 54, 58, {"instr"})
      BY KindsOf3b
  <2> QED
      BY <1>1, <1>22, <2>1, RunOf
<1>24. WordNumber(lab3b, 60, 36)
  <2>1. Kind(lab3b, 59, 60, {"label", "blank"})
      BY KindsOf3b
  <2> QED
      BY <1>1, <1>23, <2>1, GapOf
<1>25. /\ WordNumber(lab3b, 62, 38)
      /\ \A p \in 61..62 : p \in Encoded(lab3b) /\ WordNumber(lab3b, p, p - 24)
  <2>1. Kind(lab3b, 61, 62, {"instr"})
      BY KindsOf3b
  <2> QED
      BY <1>1, <1>24, <2>1, RunOf
<1> QED
    BY <1>3, <1>4, <1>6, <1>7, <1>8, <1>10, <1>11, <1>12, <1>13, <1>14, <1>16,
       <1>18, <1>19, <1>21, <1>22, <1>23, <1>24, <1>25

\* What its labels stand for.
LEMMA LabelsOf3b ==
    ASSUME lab3b \in SourceFile
    PROVE  /\ text_symbol_table(lab3b, "length_loop") = 6
           /\ text_symbol_table(lab3b, "end_length_loop") = 13
           /\ text_symbol_table(lab3b, "test_loop") = 14
           /\ text_symbol_table(lab3b, "is_palin") = 26
           /\ text_symbol_table(lab3b, "not_palin") = 31
           /\ text_symbol_table(lab3b, "exit") = 36
<1>1. \A p \in DOMAIN lab3b : lab3b[p].kind = "label"
          => p \in {7, 16, 26, 29, 45, 53, 60}
    BY KindsOf3b DEF LabelsAmong
<1>2. /\ lab3b[7].name = "main"
      /\ lab3b[16].name = "length_loop"
      /\ lab3b[26].name = "end_length_loop"
      /\ lab3b[29].name = "test_loop"
      /\ lab3b[45].name = "is_palin"
      /\ lab3b[53].name = "not_palin"
      /\ lab3b[60].name = "exit"
  <2>1. /\ lab3b[7] = Label("main")
        /\ lab3b[16] = Label("length_loop")
        /\ lab3b[26] = Label("end_length_loop")
        /\ lab3b[29] = Label("test_loop")
        /\ lab3b[45] = Label("is_palin")
        /\ lab3b[53] = Label("not_palin")
        /\ lab3b[60] = Label("exit")
      BY LinesOf3b
  <2> QED
      BY <2>1, Kinds
<1>3. TextFrom(lab3b, 6)
    BY TextFrom3b
<1>4. text_symbol_table(lab3b, "length_loop") = 6
  <2>1. lab3b[16] = Label("length_loop") /\ 16 \in DOMAIN lab3b
      BY LinesOf3b
  <2>2. \A q \in {7, 16, 26, 29, 45, 53, 60} : q > 16
            => lab3b[q].name # "length_loop"
      BY <1>2
  <2>3. \A q \in DOMAIN lab3b : q > 16 /\ lab3b[q].kind = "label"
            => lab3b[q].name # "length_loop"
      BY <1>1, <2>2
  <2>4. WordNumber(lab3b, 16, 6)
      BY WordsOf3b
  <2> QED
      BY <1>3, <2>1, <2>3, <2>4, LabelOf
<1>5. text_symbol_table(lab3b, "end_length_loop") = 13
  <2>1. lab3b[26] = Label("end_length_loop") /\ 26 \in DOMAIN lab3b
      BY LinesOf3b
  <2>2. \A q \in {7, 16, 26, 29, 45, 53, 60} : q > 26
            => lab3b[q].name # "end_length_loop"
      BY <1>2
  <2>3. \A q \in DOMAIN lab3b : q > 26 /\ lab3b[q].kind = "label"
            => lab3b[q].name # "end_length_loop"
      BY <1>1, <2>2
  <2>4. WordNumber(lab3b, 26, 13)
      BY WordsOf3b
  <2> QED
      BY <1>3, <2>1, <2>3, <2>4, LabelOf
<1>6. text_symbol_table(lab3b, "test_loop") = 14
  <2>1. lab3b[29] = Label("test_loop") /\ 29 \in DOMAIN lab3b
      BY LinesOf3b
  <2>2. \A q \in {7, 16, 26, 29, 45, 53, 60} : q > 29
            => lab3b[q].name # "test_loop"
      BY <1>2
  <2>3. \A q \in DOMAIN lab3b : q > 29 /\ lab3b[q].kind = "label"
            => lab3b[q].name # "test_loop"
      BY <1>1, <2>2
  <2>4. WordNumber(lab3b, 29, 14)
      BY WordsOf3b
  <2> QED
      BY <1>3, <2>1, <2>3, <2>4, LabelOf
<1>7. text_symbol_table(lab3b, "is_palin") = 26
  <2>1. lab3b[45] = Label("is_palin") /\ 45 \in DOMAIN lab3b
      BY LinesOf3b
  <2>2. \A q \in {7, 16, 26, 29, 45, 53, 60} : q > 45
            => lab3b[q].name # "is_palin"
      BY <1>2
  <2>3. \A q \in DOMAIN lab3b : q > 45 /\ lab3b[q].kind = "label"
            => lab3b[q].name # "is_palin"
      BY <1>1, <2>2
  <2>4. WordNumber(lab3b, 45, 26)
      BY WordsOf3b
  <2> QED
      BY <1>3, <2>1, <2>3, <2>4, LabelOf
<1>8. text_symbol_table(lab3b, "not_palin") = 31
  <2>1. lab3b[53] = Label("not_palin") /\ 53 \in DOMAIN lab3b
      BY LinesOf3b
  <2>2. \A q \in {7, 16, 26, 29, 45, 53, 60} : q > 53
            => lab3b[q].name # "not_palin"
      BY <1>2
  <2>3. \A q \in DOMAIN lab3b : q > 53 /\ lab3b[q].kind = "label"
            => lab3b[q].name # "not_palin"
      BY <1>1, <2>2
  <2>4. WordNumber(lab3b, 53, 31)
      BY WordsOf3b
  <2> QED
      BY <1>3, <2>1, <2>3, <2>4, LabelOf
<1>9. text_symbol_table(lab3b, "exit") = 36
  <2>1. lab3b[60] = Label("exit") /\ 60 \in DOMAIN lab3b
      BY LinesOf3b
  <2>2. \A q \in {7, 16, 26, 29, 45, 53, 60} : q > 60 => lab3b[q].name # "exit"
      BY <1>2
  <2>3. \A q \in DOMAIN lab3b : q > 60 /\ lab3b[q].kind = "label"
            => lab3b[q].name # "exit"
      BY <1>1, <2>2
  <2>4. WordNumber(lab3b, 60, 36)
      BY WordsOf3b
  <2> QED
      BY <1>3, <2>1, <2>3, <2>4, LabelOf
<1> QED
    BY <1>4, <1>5, <1>6, <1>7, <1>8, <1>9

\* What lines of data take.
SizeSum(src, lines) == MapThenSumSet(LAMBDA q : src[q].size, lines)

OneCellEach(src, lines) == \A q \in lines : src[q].size = 1

AddsOnes(sum, S) ==
    \A s \in SUBSET S :
        IF s = {} THEN sum[s] = 0
        ELSE \E x \in s : sum[s] = 1 + sum[s \ {x}]

\* The sizes of lines are added up one by one.  There is such a sum when each
\* line has the size 1.
LEMMA SumOfOnes ==
    ASSUME NEW src, NEW S, IsFiniteSet(S), OneCellEach(src, S)
    PROVE  \E sum : SizeSum(src, S) = sum[S] /\ AddsOnes(sum, S)
<1> DEFINE body(g) ==
               [s \in SUBSET S |->
                   IF s = {} THEN 0
                   ELSE src[CHOOSE x \in s : TRUE].size
                            + g[s \ {CHOOSE x \in s : TRUE}]]
           card == [s \in SUBSET S |-> Cardinality(s)]
           sum == CHOOSE g : g = body(g)
<1>1. card = body(card)
  <2>1. ASSUME NEW s \in SUBSET S PROVE card[s] = body(card)[s]
    <3>1. CASE s = {}
        BY <3>1, FS_EmptySet
    <3>2. CASE s # {}
      <4> DEFINE x == CHOOSE y \in s : TRUE
      <4>1. x \in s
          BY <3>2
      <4> HIDE DEF x
      <4>2. IsFiniteSet(s)
          BY FS_Subset
      <4>3. Cardinality(s \ {x}) = Cardinality(s) - 1
          BY <4>1, <4>2, FS_RemoveElement
      <4>4. Cardinality(s) \in Nat
          BY <4>2, FS_CardinalityType
      <4>5. src[x].size = 1
          BY <4>1 DEF OneCellEach
      <4>6. body(card)[s] = src[x].size + card[s \ {x}]
          BY <3>2 DEF x
      <4> QED
          BY <4>3, <4>4, <4>5, <4>6
    <3> QED
        BY <3>1, <3>2
  <2> QED
      BY <2>1
<1>2. sum = body(sum)
    BY <1>1
<1>3. SizeSum(src, S) = sum[S]
    BY DEF SizeSum, MapThenSumSet, MapThenFoldSet
<1> HIDE DEF sum
<1>4. ASSUME NEW s \in SUBSET S
      PROVE  IF s = {} THEN sum[s] = 0
             ELSE \E x \in s : sum[s] = 1 + sum[s \ {x}]
  <2>1. CASE s = {}
      BY <1>2, <2>1
  <2>2. CASE s # {}
    <3> DEFINE x == CHOOSE y \in s : TRUE
    <3>1. x \in s
        BY <2>2
    <3>2. sum[s] = src[x].size + sum[s \ {x}]
        BY <1>2, <2>2
    <3> HIDE DEF x
    <3>3. src[x].size = 1
        BY <3>1 DEF OneCellEach
    <3> QED
        BY <2>2, <3>1, <3>2, <3>3
  <2> QED
      BY <2>1, <2>2 DEF AddsOnes
<1> QED
    BY <1>3, <1>4 DEF AddsOnes

\* The lines of lab3b.s that keep data.
LEMMA DataLinesOf3b ==
    ASSUME lab3b \in SourceFile
    PROVE  LinesOf(lab3b, {"datum"}, "data") = {2, 3, 4}
<1>1. /\ lab3b[1].kind = "data" /\ lab3b[2].kind = "datum"
      /\ lab3b[3].kind = "datum" /\ lab3b[4].kind = "datum"
      /\ lab3b[5].kind = "blank" /\ lab3b[6].kind = "text"
    BY LinesOf3b, Kinds
<1>2. DOMAIN lab3b = 1..62
    BY LinesOf3b
<1>3. \A p \in DOMAIN lab3b : p > 6
          => lab3b[p].kind \in {"instr", "label", "blank"}
    BY TextFrom3b DEF TextFrom
<1>4. \A p \in DOMAIN lab3b : lab3b[p].kind = "datum" => p \in {2, 3, 4}
  <2>1. \A p \in 1..6 : lab3b[p].kind = "datum" => p \in {2, 3, 4}
      BY <1>1
  <2> QED
      BY <1>2, <1>3, <2>1, SMTT(30)
<1>5. ASSUME NEW p \in {2, 3, 4} PROVE Segment(lab3b, p) = "data"
  <2> DEFINE above == {q \in Directives(lab3b) : q < p}
  <2>1. 1 \in Directives(lab3b)
      BY <1>1, <1>2 DEF Directives
  <2>2. 2 \notin Directives(lab3b) /\ 3 \notin Directives(lab3b)
      BY <1>1 DEF Directives
  <2>3. Directives(lab3b) \subseteq 1..62
      BY <1>2 DEF Directives
  <2>4. above = {1}
    <3>1. \A q \in above : q = 1
        BY <2>2, <2>3
    <3> QED
        BY <2>1, <3>1
  <2>5. Max({1}) = 1
      BY DEF Max
  <2> HIDE DEF above
  <2> QED
      BY <1>1, <2>4, <2>5 DEF Segment, above
<1> QED
    BY <1>1, <1>2, <1>4, <1>5 DEF LinesOf

\* What the names of its data stand for.
LEMMA DataOf3b ==
    ASSUME lab3b \in SourceFile
    PROVE  /\ data_symbol_table(lab3b, "is_palin_msg") = DataBase + 0
           /\ data_symbol_table(lab3b, "not_palin_msg") = DataBase + 1
           /\ data_symbol_table(lab3b, "string_space") = DataBase + 2
<1> DEFINE lines == LinesOf(lab3b, {"datum"}, "data")
<1>1. lines = {2, 3, 4}
    BY DataLinesOf3b
<1>2. /\ lab3b[2].name = "is_palin_msg" /\ lab3b[2].size = 1
      /\ lab3b[3].name = "not_palin_msg" /\ lab3b[3].size = 1
      /\ lab3b[4].name = "string_space"
  <2>1. /\ lab3b[2] = Datum("is_palin_msg", 1)
        /\ lab3b[3] = Datum("not_palin_msg", 1)
        /\ lab3b[4] = Datum("string_space", 1024)
      BY LinesOf3b
  <2> QED
      BY <2>1, Kinds
<1> HIDE DEF lines
<1>3. /\ Defining(lab3b, lines, "is_palin_msg") = {2}
      /\ Defining(lab3b, lines, "not_palin_msg") = {3}
      /\ Defining(lab3b, lines, "string_space") = {4}
    BY <1>1, <1>2 DEF Defining
<1>4. Max({2}) = 2 /\ Max({3}) = 3 /\ Max({4}) = 4
    BY DEF Max
<1>5. /\ {q \in lines : q < 2} = {}
      /\ {q \in lines : q < 3} = {2}
      /\ {q \in lines : q < 4} = {2, 3}
    BY <1>1
<1>6. IsFiniteSet({}) /\ IsFiniteSet({2}) /\ IsFiniteSet({2, 3})
  <2>1. IsFiniteSet({}) /\ IsFiniteSet({2})
      BY FS_EmptySet, FS_Singleton
  <2>2. {2, 3} = {2} \cup {3}
      OBVIOUS
  <2> QED
      BY <2>1, <2>2, FS_AddElement
<1>7. SizeSum(lab3b, {}) = 0
  <2>1. PICK sum : SizeSum(lab3b, {}) = sum[{}] /\ AddsOnes(sum, {})
    <3>1. OneCellEach(lab3b, {})
        BY DEF OneCellEach
    <3> QED
        BY <1>6, <3>1, SumOfOnes
  <2> QED
      BY <2>1 DEF AddsOnes
<1>8. SizeSum(lab3b, {2}) = 1
  <2>1. PICK sum : SizeSum(lab3b, {2}) = sum[{2}] /\ AddsOnes(sum, {2})
    <3>1. OneCellEach(lab3b, {2})
        BY <1>2 DEF OneCellEach
    <3> QED
        BY <1>6, <3>1, SumOfOnes
  <2>2. {2} \ {2} = {} /\ {} \in SUBSET {2} /\ {2} \in SUBSET {2} /\ {2} # {}
      OBVIOUS
  <2>3. sum[{}] = 0 /\ sum[{2}] = 1 + sum[{2} \ {2}]
      BY <2>1, <2>2 DEF AddsOnes
  <2> QED
      BY <2>1, <2>2, <2>3
<1>9. SizeSum(lab3b, {2, 3}) = 2
  <2>1. PICK sum :
            SizeSum(lab3b, {2, 3}) = sum[{2, 3}] /\ AddsOnes(sum, {2, 3})
    <3>1. OneCellEach(lab3b, {2, 3})
        BY <1>2 DEF OneCellEach
    <3> QED
        BY <1>6, <3>1, SumOfOnes
  <2>2. /\ {2} \ {2} = {} /\ {3} \ {3} = {}
        /\ {2, 3} \ {2} = {3} /\ {2, 3} \ {3} = {2}
        /\ {2} # {} /\ {3} # {} /\ {2, 3} # {}
        /\ {} \in SUBSET {2, 3} /\ {2} \in SUBSET {2, 3}
        /\ {3} \in SUBSET {2, 3} /\ {2, 3} \in SUBSET {2, 3}
      OBVIOUS
  <2>3. /\ sum[{}] = 0
        /\ sum[{2}] = 1 + sum[{2} \ {2}]
        /\ sum[{3}] = 1 + sum[{3} \ {3}]
      BY <2>1, <2>2 DEF AddsOnes
  <2>4. \/ sum[{2, 3}] = 1 + sum[{2, 3} \ {2}]
        \/ sum[{2, 3}] = 1 + sum[{2, 3} \ {3}]
      BY <2>1, <2>2 DEF AddsOnes
  <2> QED
      BY <2>1, <2>2, <2>3, <2>4
<1>10. /\ DATA_TOP(lab3b, 2) = DataBase + 0
       /\ DATA_TOP(lab3b, 3) = DataBase + 1
       /\ DATA_TOP(lab3b, 4) = DataBase + 2
    BY <1>5, <1>7, <1>8, <1>9 DEF DATA_TOP, SizeSum, lines
<1> QED
    BY <1>3, <1>4, <1>10 DEF data_symbol_table, lines

\* The instructions of lab3b.s as they are in the text segment.
Text3b(i) ==
    /\ Len(i) = 38
    /\ Reads(i[1], "la", 4, 0, 0, DataBase + 2)
    /\ Reads(i[2], "li", 5, 0, 0, 1024)
    /\ Reads(i[3], "li", 2, 0, 0, 8)
    /\ Reads(i[4], "syscall", 0, 0, 0, 0)
    /\ Reads(i[5], "la", 9, 0, 0, DataBase + 2)
    /\ Reads(i[6], "la", 10, 0, 0, DataBase + 2)
    /\ Reads(i[7], "lb", 11, 10, 0, 0)
    /\ Reads(i[8], "nop", 0, 0, 0, 0)
    /\ Reads(i[9], "beqz", 11, 0, 0, 13)
    /\ Reads(i[10], "nop", 0, 0, 0, 0)
    /\ Reads(i[11], "addi", 10, 10, 0, 1)
    /\ Reads(i[12], "b", 0, 0, 0, 6)
    /\ Reads(i[13], "nop", 0, 0, 0, 0)
    /\ Reads(i[14], "subi", 10, 10, 0, 2)
    /\ Reads(i[15], "bge", 9, 0, 10, 26)
    /\ Reads(i[16], "nop", 0, 0, 0, 0)
    /\ Reads(i[17], "lb", 11, 9, 0, 0)
    /\ Reads(i[18], "nop", 0, 0, 0, 0)
    /\ Reads(i[19], "lb", 12, 10, 0, 0)
    /\ Reads(i[20], "nop", 0, 0, 0, 0)
    /\ Reads(i[21], "bne", 11, 0, 12, 31)
    /\ Reads(i[22], "nop", 0, 0, 0, 0)
    /\ Reads(i[23], "addi", 9, 9, 0, 1)
    /\ Reads(i[24], "subi", 10, 10, 0, 1)
    /\ Reads(i[25], "b", 0, 0, 0, 14)
    /\ Reads(i[26], "nop", 0, 0, 0, 0)
    /\ Reads(i[27], "la", 4, 0, 0, DataBase + 0)
    /\ Reads(i[28], "li", 2, 0, 0, 4)
    /\ Reads(i[29], "syscall", 0, 0, 0, 0)
    /\ Reads(i[30], "b", 0, 0, 0, 36)
    /\ Reads(i[31], "nop", 0, 0, 0, 0)
    /\ Reads(i[32], "la", 4, 0, 0, DataBase + 1)
    /\ Reads(i[33], "li", 2, 0, 0, 4)
    /\ Reads(i[34], "syscall", 0, 0, 0, 0)
    /\ Reads(i[35], "b", 0, 0, 0, 36)
    /\ Reads(i[36], "nop", 0, 0, 0, 0)
    /\ Reads(i[37], "li", 2, 0, 0, 10)
    /\ Reads(i[38], "syscall", 0, 0, 0, 0)

LEMMA TextOf3b ==
    ASSUME lab3b \in SourceFile
    PROVE  Text3b(init_segs(lab3b))
<1> DEFINE i == init_segs(lab3b)
<1>1. Len(i) = 38
  <2>1. {q \in Encoded(lab3b) : q <= 62} = Encoded(lab3b)
    <3>1. DOMAIN lab3b = 1..62
        BY LinesOf3b
    <3> QED
        BY <3>1 DEF Encoded, LinesOf
  <2> QED
      BY <2>1, WordsOf3b, TextLength DEF WordsTo, WordNumber, SourceFile
<1>0. TextFrom(lab3b, 6)
    BY TextFrom3b
<1>2. Reads(i[1], "la", 4, 0, 0, DataBase + 2)
  <2>1. /\ 8 \in Encoded(lab3b) /\ WordNumber(lab3b, 8, 1)
        /\ lab3b[8] = Instr("la", 4, 0, 0, 0, "string_space")
      BY WordsOf3b, LinesOf3b, SMTT(30)
  <2> QED
      BY <1>0, <2>1, DataOf3b, AddressWord
<1>3. Reads(i[2], "li", 5, 0, 0, 1024)
  <2>1. /\ 9 \in Encoded(lab3b) /\ WordNumber(lab3b, 9, 2)
        /\ lab3b[9] = Instr("li", 5, 0, 0, 1024, NoLabel)
      BY WordsOf3b, LinesOf3b, SMTT(30)
  <2> QED
      BY <1>0, <2>1, PlainWord DEF Branches
<1>4. Reads(i[3], "li", 2, 0, 0, 8)
  <2>1. /\ 10 \in Encoded(lab3b) /\ WordNumber(lab3b, 10, 3)
        /\ lab3b[10] = Instr("li", 2, 0, 0, 8, NoLabel)
      BY WordsOf3b, LinesOf3b, SMTT(30)
  <2> QED
      BY <1>0, <2>1, PlainWord DEF Branches
<1>5. Reads(i[4], "syscall", 0, 0, 0, 0)
  <2>1. /\ 11 \in Encoded(lab3b) /\ WordNumber(lab3b, 11, 4)
        /\ lab3b[11] = Instr("syscall", 0, 0, 0, 0, NoLabel)
      BY WordsOf3b, LinesOf3b, SMTT(30)
  <2> QED
      BY <1>0, <2>1, PlainWord DEF Branches
<1>6. Reads(i[5], "la", 9, 0, 0, DataBase + 2)
  <2>1. /\ 13 \in Encoded(lab3b) /\ WordNumber(lab3b, 13, 5)
        /\ lab3b[13] = Instr("la", 9, 0, 0, 0, "string_space")
      BY WordsOf3b, LinesOf3b, SMTT(30)
  <2> QED
      BY <1>0, <2>1, DataOf3b, AddressWord
<1>7. Reads(i[6], "la", 10, 0, 0, DataBase + 2)
  <2>1. /\ 14 \in Encoded(lab3b) /\ WordNumber(lab3b, 14, 6)
        /\ lab3b[14] = Instr("la", 10, 0, 0, 0, "string_space")
      BY WordsOf3b, LinesOf3b, SMTT(30)
  <2> QED
      BY <1>0, <2>1, DataOf3b, AddressWord
<1>8. Reads(i[7], "lb", 11, 10, 0, 0)
  <2>1. /\ 17 \in Encoded(lab3b) /\ WordNumber(lab3b, 17, 7)
        /\ lab3b[17] = Instr("lb", 11, 10, 0, 0, NoLabel)
      BY WordsOf3b, LinesOf3b, SMTT(30)
  <2> QED
      BY <1>0, <2>1, PlainWord DEF Branches
<1>9. Reads(i[8], "nop", 0, 0, 0, 0)
  <2>1. /\ 18 \in Encoded(lab3b) /\ WordNumber(lab3b, 18, 8)
        /\ lab3b[18] = Instr("nop", 0, 0, 0, 0, NoLabel)
      BY WordsOf3b, LinesOf3b, SMTT(30)
  <2> QED
      BY <1>0, <2>1, PlainWord DEF Branches
<1>10. Reads(i[9], "beqz", 11, 0, 0, 13)
  <2>1. /\ 19 \in Encoded(lab3b) /\ WordNumber(lab3b, 19, 9)
        /\ lab3b[19] = Instr("beqz", 11, 0, 0, 0, "end_length_loop")
      BY WordsOf3b, LinesOf3b, SMTT(30)
  <2>2. text_symbol_table(lab3b, "end_length_loop") = 13 /\ "beqz" \in Branches
      BY LabelsOf3b DEF Branches
  <2> QED
      BY <1>0, <2>1, <2>2, BranchWord
<1>11. Reads(i[10], "nop", 0, 0, 0, 0)
  <2>1. /\ 20 \in Encoded(lab3b) /\ WordNumber(lab3b, 20, 10)
        /\ lab3b[20] = Instr("nop", 0, 0, 0, 0, NoLabel)
      BY WordsOf3b, LinesOf3b, SMTT(30)
  <2> QED
      BY <1>0, <2>1, PlainWord DEF Branches
<1>12. Reads(i[11], "addi", 10, 10, 0, 1)
  <2>1. /\ 22 \in Encoded(lab3b) /\ WordNumber(lab3b, 22, 11)
        /\ lab3b[22] = Instr("addi", 10, 10, 0, 1, NoLabel)
      BY WordsOf3b, LinesOf3b, SMTT(30)
  <2> QED
      BY <1>0, <2>1, PlainWord DEF Branches
<1>13. Reads(i[12], "b", 0, 0, 0, 6)
  <2>1. /\ 23 \in Encoded(lab3b) /\ WordNumber(lab3b, 23, 12)
        /\ lab3b[23] = Instr("b", 0, 0, 0, 0, "length_loop")
      BY WordsOf3b, LinesOf3b, SMTT(30)
  <2>2. text_symbol_table(lab3b, "length_loop") = 6 /\ "b" \in Branches
      BY LabelsOf3b DEF Branches
  <2> QED
      BY <1>0, <2>1, <2>2, BranchWord
<1>14. Reads(i[13], "nop", 0, 0, 0, 0)
  <2>1. /\ 24 \in Encoded(lab3b) /\ WordNumber(lab3b, 24, 13)
        /\ lab3b[24] = Instr("nop", 0, 0, 0, 0, NoLabel)
      BY WordsOf3b, LinesOf3b, SMTT(30)
  <2> QED
      BY <1>0, <2>1, PlainWord DEF Branches
<1>15. Reads(i[14], "subi", 10, 10, 0, 2)
  <2>1. /\ 27 \in Encoded(lab3b) /\ WordNumber(lab3b, 27, 14)
        /\ lab3b[27] = Instr("subi", 10, 10, 0, 2, NoLabel)
      BY WordsOf3b, LinesOf3b, SMTT(30)
  <2> QED
      BY <1>0, <2>1, PlainWord DEF Branches
<1>16. Reads(i[15], "bge", 9, 0, 10, 26)
  <2>1. /\ 30 \in Encoded(lab3b) /\ WordNumber(lab3b, 30, 15)
        /\ lab3b[30] = Instr("bge", 9, 0, 10, 0, "is_palin")
      BY WordsOf3b, LinesOf3b, SMTT(30)
  <2>2. text_symbol_table(lab3b, "is_palin") = 26 /\ "bge" \in Branches
      BY LabelsOf3b DEF Branches
  <2> QED
      BY <1>0, <2>1, <2>2, BranchWord
<1>17. Reads(i[16], "nop", 0, 0, 0, 0)
  <2>1. /\ 31 \in Encoded(lab3b) /\ WordNumber(lab3b, 31, 16)
        /\ lab3b[31] = Instr("nop", 0, 0, 0, 0, NoLabel)
      BY WordsOf3b, LinesOf3b, SMTT(30)
  <2> QED
      BY <1>0, <2>1, PlainWord DEF Branches
<1>18. Reads(i[17], "lb", 11, 9, 0, 0)
  <2>1. /\ 33 \in Encoded(lab3b) /\ WordNumber(lab3b, 33, 17)
        /\ lab3b[33] = Instr("lb", 11, 9, 0, 0, NoLabel)
      BY WordsOf3b, LinesOf3b, SMTT(30)
  <2> QED
      BY <1>0, <2>1, PlainWord DEF Branches
<1>19. Reads(i[18], "nop", 0, 0, 0, 0)
  <2>1. /\ 34 \in Encoded(lab3b) /\ WordNumber(lab3b, 34, 18)
        /\ lab3b[34] = Instr("nop", 0, 0, 0, 0, NoLabel)
      BY WordsOf3b, LinesOf3b, SMTT(30)
  <2> QED
      BY <1>0, <2>1, PlainWord DEF Branches
<1>20. Reads(i[19], "lb", 12, 10, 0, 0)
  <2>1. /\ 35 \in Encoded(lab3b) /\ WordNumber(lab3b, 35, 19)
        /\ lab3b[35] = Instr("lb", 12, 10, 0, 0, NoLabel)
      BY WordsOf3b, LinesOf3b, SMTT(30)
  <2> QED
      BY <1>0, <2>1, PlainWord DEF Branches
<1>21. Reads(i[20], "nop", 0, 0, 0, 0)
  <2>1. /\ 36 \in Encoded(lab3b) /\ WordNumber(lab3b, 36, 20)
        /\ lab3b[36] = Instr("nop", 0, 0, 0, 0, NoLabel)
      BY WordsOf3b, LinesOf3b, SMTT(30)
  <2> QED
      BY <1>0, <2>1, PlainWord DEF Branches
<1>22. Reads(i[21], "bne", 11, 0, 12, 31)
  <2>1. /\ 37 \in Encoded(lab3b) /\ WordNumber(lab3b, 37, 21)
        /\ lab3b[37] = Instr("bne", 11, 0, 12, 0, "not_palin")
      BY WordsOf3b, LinesOf3b, SMTT(30)
  <2>2. text_symbol_table(lab3b, "not_palin") = 31 /\ "bne" \in Branches
      BY LabelsOf3b DEF Branches
  <2> QED
      BY <1>0, <2>1, <2>2, BranchWord
<1>23. Reads(i[22], "nop", 0, 0, 0, 0)
  <2>1. /\ 38 \in Encoded(lab3b) /\ WordNumber(lab3b, 38, 22)
        /\ lab3b[38] = Instr("nop", 0, 0, 0, 0, NoLabel)
      BY WordsOf3b, LinesOf3b, SMTT(30)
  <2> QED
      BY <1>0, <2>1, PlainWord DEF Branches
<1>24. Reads(i[23], "addi", 9, 9, 0, 1)
  <2>1. /\ 40 \in Encoded(lab3b) /\ WordNumber(lab3b, 40, 23)
        /\ lab3b[40] = Instr("addi", 9, 9, 0, 1, NoLabel)
      BY WordsOf3b, LinesOf3b, SMTT(30)
  <2> QED
      BY <1>0, <2>1, PlainWord DEF Branches
<1>25. Reads(i[24], "subi", 10, 10, 0, 1)
  <2>1. /\ 41 \in Encoded(lab3b) /\ WordNumber(lab3b, 41, 24)
        /\ lab3b[41] = Instr("subi", 10, 10, 0, 1, NoLabel)
      BY WordsOf3b, LinesOf3b, SMTT(30)
  <2> QED
      BY <1>0, <2>1, PlainWord DEF Branches
<1>26. Reads(i[25], "b", 0, 0, 0, 14)
  <2>1. /\ 42 \in Encoded(lab3b) /\ WordNumber(lab3b, 42, 25)
        /\ lab3b[42] = Instr("b", 0, 0, 0, 0, "test_loop")
      BY WordsOf3b, LinesOf3b, SMTT(30)
  <2>2. text_symbol_table(lab3b, "test_loop") = 14 /\ "b" \in Branches
      BY LabelsOf3b DEF Branches
  <2> QED
      BY <1>0, <2>1, <2>2, BranchWord
<1>27. Reads(i[26], "nop", 0, 0, 0, 0)
  <2>1. /\ 43 \in Encoded(lab3b) /\ WordNumber(lab3b, 43, 26)
        /\ lab3b[43] = Instr("nop", 0, 0, 0, 0, NoLabel)
      BY WordsOf3b, LinesOf3b, SMTT(30)
  <2> QED
      BY <1>0, <2>1, PlainWord DEF Branches
<1>28. Reads(i[27], "la", 4, 0, 0, DataBase + 0)
  <2>1. /\ 47 \in Encoded(lab3b) /\ WordNumber(lab3b, 47, 27)
        /\ lab3b[47] = Instr("la", 4, 0, 0, 0, "is_palin_msg")
      BY WordsOf3b, LinesOf3b, SMTT(30)
  <2> QED
      BY <1>0, <2>1, DataOf3b, AddressWord
<1>29. Reads(i[28], "li", 2, 0, 0, 4)
  <2>1. /\ 48 \in Encoded(lab3b) /\ WordNumber(lab3b, 48, 28)
        /\ lab3b[48] = Instr("li", 2, 0, 0, 4, NoLabel)
      BY WordsOf3b, LinesOf3b, SMTT(30)
  <2> QED
      BY <1>0, <2>1, PlainWord DEF Branches
<1>30. Reads(i[29], "syscall", 0, 0, 0, 0)
  <2>1. /\ 49 \in Encoded(lab3b) /\ WordNumber(lab3b, 49, 29)
        /\ lab3b[49] = Instr("syscall", 0, 0, 0, 0, NoLabel)
      BY WordsOf3b, LinesOf3b, SMTT(30)
  <2> QED
      BY <1>0, <2>1, PlainWord DEF Branches
<1>31. Reads(i[30], "b", 0, 0, 0, 36)
  <2>1. /\ 50 \in Encoded(lab3b) /\ WordNumber(lab3b, 50, 30)
        /\ lab3b[50] = Instr("b", 0, 0, 0, 0, "exit")
      BY WordsOf3b, LinesOf3b, SMTT(30)
  <2>2. text_symbol_table(lab3b, "exit") = 36 /\ "b" \in Branches
      BY LabelsOf3b DEF Branches
  <2> QED
      BY <1>0, <2>1, <2>2, BranchWord
<1>32. Reads(i[31], "nop", 0, 0, 0, 0)
  <2>1. /\ 51 \in Encoded(lab3b) /\ WordNumber(lab3b, 51, 31)
        /\ lab3b[51] = Instr("nop", 0, 0, 0, 0, NoLabel)
      BY WordsOf3b, LinesOf3b, SMTT(30)
  <2> QED
      BY <1>0, <2>1, PlainWord DEF Branches
<1>33. Reads(i[32], "la", 4, 0, 0, DataBase + 1)
  <2>1. /\ 54 \in Encoded(lab3b) /\ WordNumber(lab3b, 54, 32)
        /\ lab3b[54] = Instr("la", 4, 0, 0, 0, "not_palin_msg")
      BY WordsOf3b, LinesOf3b, SMTT(30)
  <2> QED
      BY <1>0, <2>1, DataOf3b, AddressWord
<1>34. Reads(i[33], "li", 2, 0, 0, 4)
  <2>1. /\ 55 \in Encoded(lab3b) /\ WordNumber(lab3b, 55, 33)
        /\ lab3b[55] = Instr("li", 2, 0, 0, 4, NoLabel)
      BY WordsOf3b, LinesOf3b, SMTT(30)
  <2> QED
      BY <1>0, <2>1, PlainWord DEF Branches
<1>35. Reads(i[34], "syscall", 0, 0, 0, 0)
  <2>1. /\ 56 \in Encoded(lab3b) /\ WordNumber(lab3b, 56, 34)
        /\ lab3b[56] = Instr("syscall", 0, 0, 0, 0, NoLabel)
      BY WordsOf3b, LinesOf3b, SMTT(30)
  <2> QED
      BY <1>0, <2>1, PlainWord DEF Branches
<1>36. Reads(i[35], "b", 0, 0, 0, 36)
  <2>1. /\ 57 \in Encoded(lab3b) /\ WordNumber(lab3b, 57, 35)
        /\ lab3b[57] = Instr("b", 0, 0, 0, 0, "exit")
      BY WordsOf3b, LinesOf3b, SMTT(30)
  <2>2. text_symbol_table(lab3b, "exit") = 36 /\ "b" \in Branches
      BY LabelsOf3b DEF Branches
  <2> QED
      BY <1>0, <2>1, <2>2, BranchWord
<1>37. Reads(i[36], "nop", 0, 0, 0, 0)
  <2>1. /\ 58 \in Encoded(lab3b) /\ WordNumber(lab3b, 58, 36)
        /\ lab3b[58] = Instr("nop", 0, 0, 0, 0, NoLabel)
      BY WordsOf3b, LinesOf3b, SMTT(30)
  <2> QED
      BY <1>0, <2>1, PlainWord DEF Branches
<1>38. Reads(i[37], "li", 2, 0, 0, 10)
  <2>1. /\ 61 \in Encoded(lab3b) /\ WordNumber(lab3b, 61, 37)
        /\ lab3b[61] = Instr("li", 2, 0, 0, 10, NoLabel)
      BY WordsOf3b, LinesOf3b, SMTT(30)
  <2> QED
      BY <1>0, <2>1, PlainWord DEF Branches
<1>39. Reads(i[38], "syscall", 0, 0, 0, 0)
  <2>1. /\ 62 \in Encoded(lab3b) /\ WordNumber(lab3b, 62, 38)
        /\ lab3b[62] = Instr("syscall", 0, 0, 0, 0, NoLabel)
      BY WordsOf3b, LinesOf3b, SMTT(30)
  <2> QED
      BY <1>0, <2>1, PlainWord DEF Branches
<1> QED
    BY <1>1, <1>2, <1>3, <1>4, <1>5, <1>6, <1>7, <1>8, <1>9, <1>10, <1>11,
       <1>12, <1>13, <1>14, <1>15, <1>16, <1>17, <1>18, <1>19, <1>20, <1>21,
       <1>22, <1>23, <1>24, <1>25, <1>26, <1>27, <1>28, <1>29, <1>30, <1>31,
       <1>32, <1>33, <1>34, <1>35, <1>36, <1>37, <1>38, <1>39 DEF Text3b

(***************************************************************************)
(* Single steps of a program                                               *)
(***************************************************************************)

\* The machine goes on at pc, or stops behind the last instruction.
Goes(pc) ==
    /\ PC' = pc
    /\ status' = IF pc = Len(text) THEN "halted" ELSE "user"
    /\ cycle_count' = cycle_count + 1
    /\ UNCHANGED FILENAME

\* Of the registers that the programs use, the step writes one.
Writes(rd, v) ==
    /\ R'[rd] = v
    /\ \A r \in 0..12 : r # rd => R'[r] = R[r]

\* The instruction takes from the latch what its registers hold, unless it
\* takes something that was never assigned.
Ready(i) ==
    /\ made # "address"
    /\ made = "result" /\ i.rd = ex_mem.rd => i.rs = i.rd

\* Of such an instruction forwarding gives the operands right.
LEMMA ReadyIsForwardable ==
    ASSUME IInv, Next, ~stray', Ready(ir) PROVE Forwardable(ir)
<1>1. ~(made \in {"operand", "nothing"} /\ Forwards(ir))
    BY DEF Next, Arith, Load, Branch, Nop, ReadString, Syscall, InCycle
<1>2. made \in Makings
    BY DEF IInv, TypeOK
<1> QED
    BY <1>1, <1>2 DEF Makings, Ready, Forwardable

\* The action that an instruction is carried out by.
LEMMA ActionOf ==
    ASSUME Next
    PROVE  /\ InCycle
           /\ ir.op \in {"add", "addi", "subi", "li", "la"} => Arith
           /\ ir.op = "lb" => Load
           /\ ir.op \in Branches => Branch
           /\ ir.op = "nop" => Nop
           /\ ir.op = "syscall" => ReadString \/ Syscall
BY DEF Next, Arith, Load, Branch, Nop, ReadString, Syscall, Branches

\* An assignment to one register.
LEMMA WriteIsWrites ==
    ASSUME IInv, NEW rd \in 0..12, NEW v, R' = [R EXCEPT ![rd] = v]
    PROVE  Writes(rd, v)
<1>1. R \in [Register -> Word]
    BY DEF IInv, TypeOK
<1>2. \A r \in 0..12 : r \in Register
    BY PipeSimLabsAssumption, PipeSimAssumption DEF Register
<1> QED
    BY <1>1, <1>2 DEF Writes

LEMMA ArithFrame ==
    ASSUME IInv, Next, ~stray', ir.op \in {"add", "addi", "subi", "li", "la"}
    PROVE  /\ Goes(PC + 1) /\ ~stray
           /\ made' = "result" /\ ex_mem'.rd = ir.rd
           /\ UNCHANGED <<DATA_SEG, output, nop_count>>
           /\ status' # "threw"
<1>1. Arith
    BY ActionOf
<1> QED
    BY <1>1 DEF Arith, InCycle, EndCycle, Goes

\* LI and LA.
LEMMA SetStep ==
    ASSUME IInv, Next, ~stray', NEW op \in {"li", "la"}, NEW rd \in 0..12, NEW v,
           Reads(ir, op, rd, 0, 0, v)
    PROVE  /\ Writes(rd, v) /\ Goes(PC + 1) /\ ~stray
           /\ made' = "result" /\ ex_mem'.rd = rd
           /\ UNCHANGED <<DATA_SEG, output, nop_count>>
<1>1. ir.op \in {"li", "la"} /\ ir.rd = rd /\ ir.imm = v
    BY DEF Reads
<1>2. Arith
    BY <1>1, ActionOf
<1>3. R' = [R EXCEPT ![rd] = v]
    BY <1>1, <1>2 DEF Arith, alu_out
<1> QED
    BY <1>1, <1>3, ArithFrame, WriteIsWrites

\* A number, taken as a word.
AsWord(n) == n % WordSize

\* ADD, ADDI and SUBI.
LEMMA AddStep ==
    ASSUME IInv, Next, ~stray', Ready(ir), NEW op \in {"add", "addi", "subi"},
           NEW rd \in 0..12, NEW rs, NEW rt, NEW imm, Reads(ir, op, rd, rs, rt, imm)
    PROVE  /\ Writes(rd, AsWord(CASE op = "add"  -> R[rs] + R[rt]
                                  [] op = "addi" -> R[rs] + imm
                                  [] op = "subi" -> R[rs] - imm))
           /\ Goes(PC + 1) /\ ~stray
           /\ made' = "result" /\ ex_mem'.rd = rd
           /\ UNCHANGED <<DATA_SEG, output, nop_count>>
<1>1. /\ ir.op = op /\ ir.rd = rd /\ ir.rs = rs /\ ir.rt = rt /\ ir.imm = imm
    BY DEF Reads
<1>2. status' # "threw" /\ Forwardable(ir)
    BY <1>1, ArithFrame, ReadyIsForwardable
<1>3. R' = [R EXCEPT ![rd] = Meaning(ir)]
    BY <1>1, <1>2, ForwardableStep DEF WritesRegister
<1>4. Meaning(ir) = AsWord(CASE op = "add"  -> R[rs] + R[rt]
                             [] op = "addi" -> R[rs] + imm
                             [] op = "subi" -> R[rs] - imm)
    BY <1>1 DEF Meaning, AsWord
<1> QED
    BY <1>1, <1>3, <1>4, ArithFrame, WriteIsWrites

\* LB.
LEMMA LoadStep ==
    ASSUME IInv, Next, ~stray', Ready(ir),
           NEW rd \in 0..12, NEW rs, Reads(ir, "lb", rd, rs, 0, 0),
           status' # "threw"
    PROVE  /\ InData(R[rs])
           /\ Writes(rd, DATA_SEG[R[rs] - DataBase])
           /\ Goes(PC + 1) /\ ~stray
           /\ made' = "address"
           /\ UNCHANGED <<DATA_SEG, output, nop_count>>
<1>1. ir.op = "lb" /\ ir.rd = rd /\ ir.rs = rs
    BY DEF Reads
<1>2. Load
    BY <1>1, ActionOf
<1>3. Forwardable(ir)
    BY ReadyIsForwardable
<1>4. alu_out(ir) = R[rs]
    BY <1>1, <1>3, OperandsAreRegisters DEF alu_out, UsesA
<1>5. InData(R[rs]) /\ R' = [R EXCEPT ![rd] = DATA_SEG[R[rs] - DataBase]]
    BY <1>1, <1>2, <1>4 DEF Load, Throw, read_mem
<1> QED
    BY <1>2, <1>4, <1>5, WriteIsWrites DEF Load, Throw, InCycle, EndCycle, Goes

\* B, BEQZ, BGE and BNE.
LEMMA BranchStep ==
    ASSUME IInv, Next, ~stray', NEW op \in Branches, NEW rd, NEW rt, NEW target,
           Reads(ir, op, rd, 0, rt, target)
    PROVE  /\ Goes(IF Taken(ir) THEN target ELSE PC + 1) /\ ~stray
           /\ made' \in {"nothing", "operand"}
           /\ UNCHANGED <<R, DATA_SEG, output, nop_count>>
<1>1. ir.op = op /\ ir.imm = target
    BY DEF Reads
<1>2. Branch
    BY <1>1, ActionOf
<1> QED
    BY <1>1, <1>2 DEF Branch, InCycle, EndCycle, Goes

\* NOP.
LEMMA NopStep ==
    ASSUME IInv, Next, ~stray', Reads(ir, "nop", 0, 0, 0, 0)
    PROVE  /\ Goes(PC + 1) /\ ~stray
           /\ made' = "nothing"
           /\ nop_count' = nop_count + 1
           /\ UNCHANGED <<R, DATA_SEG, output>>
<1>1. ir.op = "nop"
    BY DEF Reads
<1>2. Nop
    BY <1>1, ActionOf
<1> QED
    BY <1>2 DEF Nop, InCycle, EndCycle, Goes

\* System calls 1 and 4 print.
LEMMA PrintStep ==
    ASSUME IInv, Next, ~stray', Reads(ir, "syscall", 0, 0, 0, 0),
           R[2] = 1 \/ R[2] = 4
    PROVE  /\ Goes(PC + 1) /\ ~stray
           /\ made' = "nothing"
           /\ output' = Append(output, << IF R[2] = 1 THEN "int" ELSE "string",
                                          R[4] >>)
           /\ UNCHANGED <<R, DATA_SEG, nop_count>>
<1>1. ir.op = "syscall"
    BY DEF Reads
<1>2. R[2] # 10 /\ R[2] # 8
    OBVIOUS
<1>3. Syscall
    BY <1>1, <1>2, ActionOf DEF ReadString
<1>4. Goes(PC + 1) /\ made' = "nothing" /\ UNCHANGED R
    BY <1>2, <1>3 DEF Syscall, SyscallCycle, InCycle, EndCycle, Goes
<1>5. output' = Append(output, << IF R[2] = 1 THEN "int" ELSE "string", R[4] >>)
  <2>1. CASE R[2] = 1
      BY <1>3, <2>1 DEF Syscall
  <2>2. CASE R[2] = 4
      BY <1>3, <2>2 DEF Syscall
  <2> QED
      BY <2>1, <2>2
<1> QED
    BY <1>3, <1>4, <1>5 DEF Syscall, InCycle

\* System call 10 stops the machine.
LEMMA ExitStep ==
    ASSUME IInv, Next, ~stray', Reads(ir, "syscall", 0, 0, 0, 0), R[2] = 10
    PROVE  /\ status' = "halted" /\ ~stray
           /\ cycle_count' = cycle_count + 1
           /\ UNCHANGED <<R, DATA_SEG, output, nop_count, FILENAME>>
<1>1. ir.op = "syscall"
    BY DEF Reads
<1>2. Syscall
    BY <1>1, ActionOf DEF ReadString
<1>3. SyscallCycle(TRUE)
    BY <1>2 DEF Syscall
<1>4. UNCHANGED <<output, DATA_SEG, nop_count>>
    BY <1>2 DEF Syscall
<1> QED
    BY <1>2, <1>3, <1>4 DEF Syscall, SyscallCycle, InCycle, EndCycle

(***************************************************************************)
(* The run of lab3c.s                                                      *)
(***************************************************************************)

\* Before the loop.
Setting ==
    /\ PC \in 0..4 /\ cycle_count = PC
    /\ PC > 0 => R[1] = 0
    /\ PC > 1 => R[2] = 10
    /\ PC > 2 => R[3] = 100
    /\ PC > 3 => R[4] = 1000

\* What registers 5 and 1 hold at pc in the loop, after k times around it.
Left(k, pc) == IF pc = 5 THEN 7 - k ELSE AsWord(6 - k)

Total(k, pc) == 1110 * k + CASE pc \in {5, 6} -> 0
                           [] pc = 7 -> 10
                           [] pc = 8 -> 110
                           [] pc = 9 -> 1110

Adding(k) ==
    /\ PC \in 5..9 /\ cycle_count = PC + 5 * k
    /\ R[2] = 10 /\ R[3] = 100 /\ R[4] = 1000
    /\ R[5] = Left(k, PC) /\ R[1] = Total(k, PC)

\* Behind the loop.
Showing ==
    /\ PC \in 10..15 /\ cycle_count = PC + 35
    /\ R[1] = 8880
    /\ PC = 11 => made = "nothing"
    /\ PC > 11 => R[4] = 8880
    /\ PC = 13 => R[2] = 1
    /\ PC = 15 => R[2] = 10

\* The state of the machine between two instructions of the program.
Progress3c ==
    /\ R[0] = 0 /\ made # "address"
    /\ nop_count = IF PC > 10 THEN 1 ELSE 0
    /\ output = IF PC > 13 THEN << <<"int", 8880>> >> ELSE <<>>
    /\ Setting \/ (\E k \in 0..7 : Adding(k)) \/ Showing

Inv3c ==
    ~stray /\ source = lab3c =>
        /\ status = "user" => Progress3c
        /\ status # "user" =>
              /\ status = "halted"
              /\ output = << <<"int", 8880>> >>
              /\ cycle_count = 51 /\ nop_count = 1

\* Small numbers are themselves when they are taken as words, and -1 is not.
LEMMA SmallWord ==
    ASSUME NEW n \in Nat, n <= 8880 PROVE AsWord(n) = n
<1>1. WordSize \in Nat /\ WordSize > 8880
    BY PipeSimAssumption, PipeSimLabsAssumption
<1> QED
    BY <1>1 DEF AsWord

LEMMA SmallSigned ==
    ASSUME NEW n \in 0..7 PROVE Signed(n) = n
<1>1. WordSize \in Nat /\ WordSize > 8880
    BY PipeSimAssumption, PipeSimLabsAssumption
<1> QED
    BY <1>1 DEF Signed

LEMMA MinusOne == Signed(AsWord(-1)) = -1
<1>1. WordSize \in Nat /\ WordSize > 8880
    BY PipeSimAssumption, PipeSimLabsAssumption
<1>2. AsWord(-1) = WordSize - 1
    BY <1>1 DEF AsWord
<1> QED
    BY <1>1, <1>2 DEF Signed

\* What the instructions of the loop make of the counter and the total.
LEMMA Lefts ==
    ASSUME NEW k \in 0..7
    PROVE  /\ AsWord(Left(k, 5) - 1) = Left(k, 6)
           /\ Left(k, 7) = Left(k, 6)
           /\ Left(k, 8) = Left(k, 7)
           /\ Left(k, 9) = Left(k, 8)
<1>1. 7 - k - 1 = 6 - k
    OBVIOUS
<1> QED
    BY <1>1 DEF Left

LEMMA Totals ==
    ASSUME NEW k \in 0..7
    PROVE  /\ Total(k, 6) = Total(k, 5)
           /\ Total(k, 6) + 10 = Total(k, 7) /\ Total(k, 7) \in Nat
           /\ Total(k, 7) <= 8880
           /\ Total(k, 7) + 100 = Total(k, 8) /\ Total(k, 8) \in Nat
           /\ Total(k, 8) <= 8880
           /\ Total(k, 8) + 1000 = Total(k, 9) /\ Total(k, 9) \in Nat
           /\ Total(k, 9) <= 8880
           /\ Total(k, 9) = Total(k + 1, 5)
BY DEF Total

\* The counter of the loop is negative after the last time around.
LEMMA CounterSign ==
    ASSUME NEW k \in 0..7
    PROVE  /\ k < 7 => Left(k, 9) = Left(k + 1, 5)
           /\ Signed(Left(k, 9)) >= Signed(0) <=> k < 7
<1>1. Signed(0) = 0
    BY SmallSigned
<1>2. CASE k < 7
  <2>1. 6 - k \in 0..7 /\ 6 - k \in Nat /\ 6 - k <= 8880 /\ 7 - (k + 1) = 6 - k
      BY <1>2
  <2>2. AsWord(6 - k) = 6 - k
      BY <2>1, SmallWord
  <2>3. Left(k, 9) = 6 - k /\ Left(k + 1, 5) = 6 - k
      BY <2>1, <2>2 DEF Left
  <2>4. Signed(6 - k) = 6 - k
      BY <2>1, SmallSigned
  <2> QED
      BY <1>1, <1>2, <2>1, <2>3, <2>4
<1>3. CASE k = 7
  <2>1. Left(k, 9) = AsWord(-1)
      BY <1>3 DEF Left
  <2>2. Signed(Left(k, 9)) = -1
      BY <2>1, MinusOne
  <2> QED
      BY <1>1, <1>3, <2>2
<1> QED
    BY <1>2, <1>3

\* The five registers are set, one after the other.
LEMMA SettingStep ==
    ASSUME IInv, Next, ~stray', Text3c(text), Progress3c, Setting
    PROVE  Progress3c' /\ status' = "user" /\ ~stray
<1>1. ASSUME NEW rd \in 1..5, NEW v, Reads(ir, "li", rd, 0, 0, v)
      PROVE  /\ Writes(rd, v) /\ Goes(PC + 1) /\ ~stray /\ made' = "result"
             /\ UNCHANGED <<output, nop_count>>
    BY <1>1, SetStep
<1>2. Len(text) = 16
    BY DEF Text3c
<1>3. CASE PC = 0
  <2>1. Reads(ir, "li", 1, 0, 0, 0)
      BY <1>3 DEF Text3c, ir
  <2> QED
      BY <1>1, <1>2, <1>3, <2>1 DEF Progress3c, Setting, Writes, Goes
<1>4. CASE PC = 1
  <2>1. Reads(ir, "li", 2, 0, 0, 10)
      BY <1>4 DEF Text3c, ir
  <2> QED
      BY <1>1, <1>2, <1>4, <2>1 DEF Progress3c, Setting, Writes, Goes
<1>5. CASE PC = 2
  <2>1. Reads(ir, "li", 3, 0, 0, 100)
      BY <1>5 DEF Text3c, ir
  <2> QED
      BY <1>1, <1>2, <1>5, <2>1 DEF Progress3c, Setting, Writes, Goes
<1>6. CASE PC = 3
  <2>1. Reads(ir, "li", 4, 0, 0, 1000)
      BY <1>6 DEF Text3c, ir
  <2> QED
      BY <1>1, <1>2, <1>6, <2>1 DEF Progress3c, Setting, Writes, Goes
<1>7. CASE PC = 4
  <2>1. Reads(ir, "li", 5, 0, 0, 7)
      BY <1>7 DEF Text3c, ir
  <2>2. Adding(0)'
      BY <1>1, <1>7, <2>1 DEF Setting, Writes, Goes, Adding, Left, Total
  <2> QED
      BY <1>1, <1>2, <1>7, <2>1, <2>2 DEF Progress3c, Writes, Goes
<1> QED
    BY <1>3, <1>4, <1>5, <1>6, <1>7 DEF Setting

\* An iteration of the loop adds 10, 100 and 1000.
LEMMA AddingStep ==
    ASSUME IInv, Next, ~stray', Text3c(text), Progress3c,
           NEW k \in 0..7, Adding(k)
    PROVE  Progress3c' /\ status' = "user" /\ ~stray
<1>1. ASSUME NEW op \in {"add", "subi"}, NEW rd \in 1..5, NEW rt, NEW imm,
             Reads(ir, op, rd, rd, rt, imm)
      PROVE  /\ Writes(rd, AsWord(CASE op = "add"  -> R[rd] + R[rt]
                                    [] op = "addi" -> R[rd] + imm
                                    [] op = "subi" -> R[rd] - imm))
             /\ Goes(PC + 1) /\ ~stray /\ made' = "result"
             /\ UNCHANGED <<output, nop_count>>
  <2>1. Ready(ir)
      BY <1>1 DEF Progress3c, Ready, Reads
  <2> QED
      BY <1>1, <2>1, AddStep
<1>2. /\ PC \in 5..9 /\ cycle_count = PC + 5 * k
      /\ R[0] = 0 /\ R[2] = 10 /\ R[3] = 100 /\ R[4] = 1000
      /\ R[5] = Left(k, PC) /\ R[1] = Total(k, PC)
    BY DEF Progress3c, Adding
<1>0. output = <<>> /\ nop_count = 0
    BY <1>2 DEF Progress3c
<1>3. ASSUME NEW n \in 5..9, Goes(n), made' # "address", R'[0] = 0, ~stray,
             UNCHANGED <<output, nop_count>>, NEW m \in 0..7, Adding(m)'
      PROVE  Progress3c' /\ status' = "user" /\ ~stray
  <2>1. PC' = n /\ n # 16 /\ output' = <<>> /\ nop_count' = 0
      BY <1>0, <1>2, <1>3 DEF Goes
  <2>2. status' = "user"
      BY <1>3, <2>1 DEF Goes, Text3c
  <2>3. Progress3c'
      BY <1>3, <2>1 DEF Progress3c
  <2> QED
      BY <1>3, <2>2, <2>3
<1>4. CASE PC = 5
  <2>1. Reads(ir, "subi", 5, 5, 0, 1)
      BY <1>4 DEF Text3c, ir
  <2>2. /\ Writes(5, AsWord(R[5] - 1))
        /\ Goes(6) /\ ~stray /\ made' = "result"
        /\ UNCHANGED <<output, nop_count>>
      BY <1>1, <1>4, <2>1
  <2>3. AsWord(R[5] - 1) = Left(k, 6) /\ R[1] = Total(k, 6)
      BY <1>2, <1>4, Lefts, Totals
  <2>4. Adding(k)' /\ R'[0] = 0
      BY <1>2, <1>4, <2>2, <2>3 DEF Adding, Writes, Goes
  <2> QED
      BY <1>3, <2>2, <2>4
<1>5. ASSUME NEW rt \in 2..4, Reads(ir, "add", 1, 1, rt, 0),
             NEW n \in 7..9, PC + 1 = n, Left(k, n) = Left(k, PC),
             R[1] + R[rt] = Total(k, n), Total(k, n) \in Nat, Total(k, n) <= 8880
      PROVE  Progress3c' /\ status' = "user" /\ ~stray
  <2>1. /\ Writes(1, AsWord(R[1] + R[rt]))
        /\ Goes(n) /\ ~stray /\ made' = "result"
        /\ UNCHANGED <<output, nop_count>>
      BY <1>1, <1>5
  <2>2. AsWord(R[1] + R[rt]) = Total(k, n)
      BY <1>5, SmallWord
  <2>3. /\ R'[1] = Total(k, n)
        /\ R'[0] = 0 /\ R'[2] = 10 /\ R'[3] = 100 /\ R'[4] = 1000
        /\ R'[5] = Left(k, n)
      BY <1>2, <1>5, <2>1, <2>2 DEF Writes
  <2>4. PC' = n /\ n \in 5..9 /\ cycle_count' = n + 5 * k
      BY <1>2, <1>5, <2>1 DEF Goes
  <2>5. Adding(k)'
      BY <2>3, <2>4 DEF Adding
  <2> QED
      BY <1>3, <2>1, <2>3, <2>5
<1>6. CASE PC = 6
  <2>1. Reads(ir, "add", 1, 1, 2, 0)
      BY <1>6 DEF Text3c, ir
  <2>2. R[1] + R[2] = Total(k, 7) /\ Total(k, 7) \in Nat
           /\ Total(k, 7) <= 8880
      BY <1>2, <1>6, Totals
  <2>3. PC + 1 = 7 /\ Left(k, 7) = Left(k, PC)
      BY <1>6, Lefts
  <2> QED
      BY <1>5, <2>1, <2>2, <2>3
<1>7. CASE PC = 7
  <2>1. Reads(ir, "add", 1, 1, 3, 0)
      BY <1>7 DEF Text3c, ir
  <2>2. R[1] + R[3] = Total(k, 8) /\ Total(k, 8) \in Nat
           /\ Total(k, 8) <= 8880
      BY <1>2, <1>7, Totals
  <2>3. PC + 1 = 8 /\ Left(k, 8) = Left(k, PC)
      BY <1>7, Lefts
  <2> QED
      BY <1>5, <2>1, <2>2, <2>3
<1>8. CASE PC = 8
  <2>1. Reads(ir, "add", 1, 1, 4, 0)
      BY <1>8 DEF Text3c, ir
  <2>2. R[1] + R[4] = Total(k, 9) /\ Total(k, 9) \in Nat
           /\ Total(k, 9) <= 8880
      BY <1>2, <1>8, Totals
  <2>3. PC + 1 = 9 /\ Left(k, 9) = Left(k, PC)
      BY <1>8, Lefts
  <2> QED
      BY <1>5, <2>1, <2>2, <2>3
<1>9. CASE PC = 9
  <2>1. Reads(ir, "bge", 5, 0, 0, 5) /\ "bge" \in Branches
      BY <1>9 DEF Text3c, ir, Branches
  <2>2. Taken(ir) <=> k < 7
    <3>1. R[5] = Left(k, 9) /\ R[0] = 0
        BY <1>2, <1>9
    <3>2. Taken(ir) <=> Signed(R[5]) >= Signed(0)
        BY <2>1, <3>1 DEF Taken, Reads
    <3> QED
        BY <3>1, <3>2, CounterSign
  <2>3. /\ Goes(IF Taken(ir) THEN 5 ELSE PC + 1) /\ ~stray
        /\ made' \in {"nothing", "operand"}
        /\ UNCHANGED <<R, output, nop_count>>
      BY <2>1, BranchStep
  <2>4. CASE k < 7
    <3>1. Goes(5)
        BY <2>2, <2>3, <2>4
    <3>2. R[5] = Left(k + 1, 5) /\ R[1] = Total(k + 1, 5)
        BY <1>2, <1>9, <2>4, Totals, CounterSign
    <3>3. Adding(k + 1)' /\ k + 1 \in 0..7
        BY <1>2, <1>9, <2>3, <2>4, <3>1, <3>2 DEF Adding, Goes
    <3> QED
        BY <1>2, <1>3, <2>3, <3>1, <3>3
  <2>5. CASE k = 7
    <3>1. Goes(10)
        BY <1>9, <2>2, <2>3, <2>5
    <3>2. R[1] = 8880
        BY <1>2, <1>9, <2>5 DEF Total
    <3>3. Showing'
        BY <1>2, <1>9, <2>3, <2>5, <3>1, <3>2 DEF Goes, Showing
    <3>4. Progress3c'
        BY <1>0, <1>2, <2>3, <3>1, <3>3 DEF Progress3c, Goes
    <3> QED
        BY <2>3, <3>1, <3>4 DEF Goes, Text3c
  <2> QED
      BY <2>4, <2>5
<1> QED
    BY <1>2, <1>4, <1>6, <1>7, <1>8, <1>9

\* The total is printed, and the program ends.
LEMMA ShowingStep ==
    ASSUME IInv, Next, ~stray', Text3c(text), Progress3c, Showing
    PROVE  /\ ~stray
           /\ \/ status' = "user" /\ Progress3c'
              \/ /\ status' = "halted"
                 /\ output' = << <<"int", 8880>> >>
                 /\ cycle_count' = 51 /\ nop_count' = 1
<1>1. ASSUME NEW v, Reads(ir, "li", 2, 0, 0, v)
      PROVE  /\ Writes(2, v) /\ Goes(PC + 1) /\ ~stray /\ made' = "result"
             /\ UNCHANGED <<output, nop_count>>
    BY <1>1, SetStep
<1>2. Len(text) = 16
    BY DEF Text3c
<1>3. CASE PC = 10
  <2>1. Reads(ir, "nop", 0, 0, 0, 0)
      BY <1>3 DEF Text3c, ir
  <2>2. /\ Goes(11) /\ ~stray /\ made' = "nothing"
        /\ nop_count' = nop_count + 1 /\ UNCHANGED <<R, output>>
      BY <1>3, <2>1, NopStep
  <2> QED
      BY <1>2, <1>3, <2>2 DEF Progress3c, Showing, Goes
<1>4. CASE PC = 11
  <2>1. Reads(ir, "add", 4, 0, 1, 0)
      BY <1>4 DEF Text3c, ir
  <2>2. Ready(ir)
      BY <1>4 DEF Showing, Ready
  <2>3. AsWord(R[0] + R[1]) = 8880
    <3>1. R[0] + R[1] = 8880 /\ 8880 \in Nat
        BY DEF Progress3c, Showing
    <3> QED
        BY <3>1, SmallWord
  <2>4. /\ Writes(4, AsWord(R[0] + R[1]))
        /\ Goes(12) /\ ~stray /\ made' = "result"
        /\ UNCHANGED <<output, nop_count>>
      BY <1>4, <2>1, <2>2, AddStep
  <2> QED
      BY <1>2, <1>4, <2>3, <2>4 DEF Progress3c, Showing, Goes, Writes
<1>5. CASE PC = 12
  <2>1. Reads(ir, "li", 2, 0, 0, 1)
      BY <1>5 DEF Text3c, ir
  <2> QED
      BY <1>1, <1>2, <1>5, <2>1 DEF Progress3c, Showing, Goes, Writes
<1>6. CASE PC = 13
  <2>1. Reads(ir, "syscall", 0, 0, 0, 0)
      BY <1>6 DEF Text3c, ir
  <2>2. R[2] = 1 /\ R[4] = 8880 /\ output = <<>>
      BY <1>6 DEF Progress3c, Showing
  <2>3. /\ Goes(14) /\ ~stray /\ made' = "nothing"
        /\ output' = Append(output, <<"int", R[4]>>)
        /\ UNCHANGED <<R, nop_count>>
    <3>1. R[2] = 1
        BY <2>2
    <3> QED
        BY <1>6, <2>1, <3>1, PrintStep
  <2>4. output' = << <<"int", 8880>> >>
      BY <2>2, <2>3
  <2> QED
      BY <1>2, <1>6, <2>3, <2>4 DEF Progress3c, Showing, Goes
<1>7. CASE PC = 14
  <2>1. Reads(ir, "li", 2, 0, 0, 10)
      BY <1>7 DEF Text3c, ir
  <2> QED
      BY <1>1, <1>2, <1>7, <2>1 DEF Progress3c, Showing, Goes, Writes
<1>8. CASE PC = 15
  <2>1. Reads(ir, "syscall", 0, 0, 0, 0)
      BY <1>8 DEF Text3c, ir
  <2>2. R[2] = 10
      BY <1>8 DEF Showing
  <2> QED
      BY <1>8, <2>1, <2>2, ExitStep DEF Progress3c, Showing
<1> QED
    BY <1>3, <1>4, <1>5, <1>6, <1>7, <1>8 DEF Showing

\* What runs, if it is lab3c.s.
LEMMA Runs3c ==
    ASSUME IInv, source = lab3c PROVE Text3c(text)
<1>1. FILENAME \in DOMAIN Sources
    BY DEF IInv, TypeOK
<1>2. lab3c \in SourceFile
    BY <1>1, PipeSimAssumption DEF source, SourceFile
<1>3. text = init_segs(lab3c)
    BY <1>1 DEF text, TEXT_SEG, source
<1> QED
    BY <1>2, <1>3, TextOf3c

\* The invariant of lab3c.s holds at first, and is kept.
LEMMA Init3c == ASSUME Init PROVE Inv3c
<1>1. \A r \in 0..12 : r \in Register
    BY PipeSimLabsAssumption, PipeSimAssumption DEF Register
<1> QED
    BY <1>1 DEF Init, Inv3c, Progress3c, Setting

LEMMA Step3c == ASSUME IInv, Inv3c, [Next]_vars PROVE Inv3c'
<1> SUFFICES ASSUME ~stray', source' = lab3c
             PROVE  /\ status' = "user" => Progress3c'
                    /\ status' # "user" =>
                          /\ status' = "halted"
                          /\ output' = << <<"int", 8880>> >>
                          /\ cycle_count' = 51 /\ nop_count' = 1
    BY DEF Inv3c
<1>1. CASE Next
  <2>1. status = "user" /\ UNCHANGED FILENAME /\ ~stray
      BY <1>1, ActionOf DEF InCycle
  <2>2. source = lab3c
      BY <2>1 DEF source
  <2>3. Text3c(text) /\ Progress3c
      BY <2>1, <2>2, Runs3c DEF Inv3c
  <2>4. Setting \/ (\E k \in 0..7 : Adding(k)) \/ Showing
      BY <2>3 DEF Progress3c
  <2> QED
      BY <1>1, <2>3, <2>4, SettingStep, AddingStep, ShowingStep
<1>2. CASE UNCHANGED vars
    BY <1>2 DEF vars, Inv3c, source, Progress3c, Setting, Adding, Showing
<1> QED
    BY <1>1, <1>2

\* lab3c.s prints 8880 and stops after 51 cycles, 50 of them instructions:
\* README.md:24-27 of comp4300/project3.
THEOREM Lab3cPrints == Spec => []Lab3cTotals
<1>1. Init => IInv /\ Inv3c
    BY InitIInv, Init3c
<1>2. IInv /\ Inv3c /\ [Next]_vars => IInv' /\ Inv3c'
    BY StepIInv, Step3c
<1>3. IInv /\ Inv3c => Lab3cTotals
  <2> SUFFICES ASSUME IInv, Inv3c, status # "user", ~stray, source = lab3c
               PROVE  /\ status = "halted"
                      /\ output = << <<"int", 8880>> >>
                      /\ <<cycle_count, instr_count, nop_count>> = <<51, 50, 1>>
      BY DEF Lab3cTotals
  <2>1. /\ status = "halted" /\ output = << <<"int", 8880>> >>
        /\ cycle_count = 51 /\ nop_count = 1
      BY DEF Inv3c
  <2>2. instr_count \in Nat /\ cycle_count = instr_count + nop_count
      BY <2>1 DEF IInv, TypeOK, CyclesAddUp
  <2> QED
      BY <2>1, <2>2
<1> QED
    BY <1>1, <1>2, <1>3, PTL DEF Spec

(***************************************************************************)
(* The line that lab3b.s reads                                             *)
(***************************************************************************)

\* Of a line, n characters are kept from the third cell on.  Behind the
\* newline there is a zero, or the data segment ends.
Held(n) ==
    /\ n + 2 < DATA_SEG_LENGTH
    /\ DATA_SEG[n + 2] = 10
    /\ \A k \in 0..(n - 1) : DATA_SEG[k + 2] \notin {0, 10}
    /\ n + 3 < DATA_SEG_LENGTH => DATA_SEG[n + 3] = 0

\* The data segment as the program finds it.
Zeroed == \A k \in 0..(DATA_SEG_LENGTH - 1) : DATA_SEG[k] = 0

\* The beginning of a sequence.
LEMMA Cut ==
    ASSUME NEW S, NEW s, s \in Seq(S), NEW m \in Nat, m <= Len(s),
           NEW part, part = SubSeq(s, 1, m)
    PROVE  /\ part \in Seq(S) /\ Len(part) = m
           /\ \A k \in 1..m : part[k] = s[k]
<1>1. DOMAIN s = 1..Len(s) /\ Len(s) \in Nat
    OBVIOUS
<1>2. \A k \in 1..m : s[k] \in S
    BY <1>1
<1> QED
    BY <1>1, <1>2

\* What system call 8 stores are characters and a newline.
LEMMA StoredLine ==
    ASSUME NEW line \in Lines, R[5] = 1024
    PROVE  \E n \in Nat :
               /\ Len(Stored(line)) = n + 1
               /\ DOMAIN Stored(line) = 1..(n + 1)
               /\ Stored(line)[n + 1] = 10
               /\ \A k \in 1..n : Stored(line)[k] \notin {0, 10}
<1> DEFINE size == Signed(R[5]) + 1
           kept == IF Len(line) <= size THEN line ELSE SubSeq(line, 1, size)
<1>1. line \in Seq(Word)
    BY PipeSimAssumption
<1>2. /\ Len(line) \in Nat /\ DOMAIN line = 1..Len(line)
      /\ \A k \in 1..Len(line) : line[k] \notin {0, 10}
  <2>1. Len(line) \in Nat /\ DOMAIN line = 1..Len(line)
      BY <1>1
  <2> QED
      BY <2>1, PipeSimLabsAssumption
<1>3. size \in Nat
  <2>1. WordSize \in Nat /\ WordSize > 8880
      BY PipeSimAssumption, PipeSimLabsAssumption
  <2> QED
      BY <2>1 DEF Signed
<1>4. Stored(line) = kept \o <<10>>
    BY DEF Stored
<1> HIDE DEF size
<1>5. /\ kept \in Seq(Word)
      /\ \A k \in 1..Len(kept) : kept[k] \notin {0, 10}
  <2>1. CASE Len(line) <= size
      BY <1>1, <1>2, <2>1
  <2>2. CASE ~(Len(line) <= size)
    <3>1. size <= Len(line)
        BY <1>2, <1>3, <2>2
    <3>2. kept = SubSeq(line, 1, size)
        BY <2>2, ZenonT(30)
    <3> HIDE DEF kept
    <3>3. kept \in Seq(Word)
        BY <1>1, <1>3, <3>1, <3>2, Cut
    <3>4. Len(kept) = size /\ \A k \in 1..size : kept[k] = line[k]
        BY <1>1, <1>3, <3>1, <3>2, Cut
    <3>5. \A k \in 1..size : kept[k] \notin {0, 10}
        BY <1>2, <1>3, <3>1, <3>4
    <3> QED
        BY <3>3, <3>4, <3>5
  <2> QED
      BY <2>1, <2>2
<1> HIDE DEF kept
<1>6. /\ Len(Stored(line)) = Len(kept) + 1 /\ Len(kept) \in Nat
      /\ DOMAIN Stored(line) = 1..(Len(kept) + 1)
      /\ Stored(line)[Len(kept) + 1] = 10
      /\ \A k \in 1..Len(kept) : Stored(line)[k] = kept[k]
    BY <1>4, <1>5
<1>7. \A k \in 1..Len(kept) : Stored(line)[k] \notin {0, 10}
    BY <1>5, <1>6
<1> QED
    BY <1>6, <1>7

\* System call 8 leaves a line in memory that was empty, or throws.
LEMMA ReadStep ==
    ASSUME IInv, Next, ~stray', Reads(ir, "syscall", 0, 0, 0, 0),
           R[2] = 8, R[4] = DataBase + 2, R[5] = 1024,
           Zeroed, status' # "threw"
    PROVE  /\ Goes(PC + 1) /\ ~stray
           /\ made' = "nothing"
           /\ UNCHANGED <<R, output, nop_count>>
           /\ \E n \in Nat : Held(n)'
<1>1. ir.op = "syscall"
    BY DEF Reads
<1>2. ReadString
    BY <1>1, ActionOf DEF Syscall
<1>3. PICK line \in Lines :
          LET chars == Stored(line)
              first == R[4] - DataBase
              fits == InData(R[4]) /\ InData(R[4] + Len(chars) - 1)
          IN  /\ DATA_SEG' = [k \in DOMAIN DATA_SEG |->
                     IF InData(R[4]) /\ k - first + 1 \in DOMAIN chars
                     THEN chars[k - first + 1] ELSE DATA_SEG[k]]
              /\ IF fits THEN SyscallCycle(FALSE)
                 ELSE Throw /\ UNCHANGED cycle_count
    BY <1>2, ZenonT(30) DEF ReadString
<1> DEFINE chars == Stored(line)
<1>4. PICK n \in Nat :
      /\ Len(chars) = n + 1 /\ DOMAIN chars = 1..(n + 1)
      /\ chars[n + 1] = 10 /\ \A k \in 1..n : chars[k] \notin {0, 10}
    BY StoredLine
<1>5. InData(R[4]) /\ InData(R[4] + Len(chars) - 1)
    BY <1>3, ZenonT(30) DEF Throw
<1>6. SyscallCycle(FALSE)
    BY <1>3, <1>5, ZenonT(30)
<1>7. DATA_SEG' = [k \in DOMAIN DATA_SEG |->
                      IF k - (R[4] - DataBase) + 1 \in DOMAIN chars
                      THEN chars[k - (R[4] - DataBase) + 1] ELSE DATA_SEG[k]]
    BY <1>3, <1>5
<1> HIDE DEF chars
<1>9. DataBase \in Nat /\ DATA_SEG_LENGTH \in Nat
      /\ DOMAIN DATA_SEG = 0..(DATA_SEG_LENGTH - 1)
    BY AssemblerAssumption, PipeSimAssumption DEF IInv, TypeOK
<1>8. R[4] + Len(chars) - 1 - DataBase = n + 2
    BY <1>4, <1>9
<1>10. R[4] - DataBase = 2 /\ n + 2 \in 0..(DATA_SEG_LENGTH - 1)
    BY <1>4, <1>5, <1>8, <1>9 DEF InData
<1>11. ASSUME NEW k \in 0..(DATA_SEG_LENGTH - 1)
       PROVE  DATA_SEG'[k] = IF k - 1 \in 1..(n + 1) THEN chars[k - 1] ELSE 0
  <2>1. DATA_SEG[k] = 0 /\ k \in DOMAIN DATA_SEG
      BY <1>9 DEF Zeroed
  <2>2. k - (R[4] - DataBase) + 1 = k - 1
      BY <1>10
  <2>3. DATA_SEG'[k] = IF k - (R[4] - DataBase) + 1 \in DOMAIN chars
                       THEN chars[k - (R[4] - DataBase) + 1] ELSE DATA_SEG[k]
      BY <1>7, <2>1
  <2> QED
      BY <1>4, <2>1, <2>2, <2>3
<1>12. Held(n)'
  <2>1. n + 2 < DATA_SEG_LENGTH
      BY <1>9, <1>10
  <2>2. DATA_SEG'[n + 2] = 10
    <3>1. n + 2 \in 0..(DATA_SEG_LENGTH - 1) /\ (n + 2) - 1 = n + 1 /\ n + 1 \in 1..(n + 1)
        BY <1>4, <1>10
    <3> QED
        BY <1>4, <1>11, <3>1
  <2>3. ASSUME NEW k \in 0..(n - 1) PROVE DATA_SEG'[k + 2] \notin {0, 10}
    <3>1. /\ k + 2 \in 0..(DATA_SEG_LENGTH - 1) /\ (k + 2) - 1 = k + 1
          /\ k + 1 \in 1..n /\ k + 1 \in 1..(n + 1)
        BY <1>4, <1>9, <1>10
    <3> QED
        BY <1>4, <1>11, <3>1
  <2>4. ASSUME n + 3 < DATA_SEG_LENGTH PROVE DATA_SEG'[n + 3] = 0
    <3>1. /\ n + 3 \in 0..(DATA_SEG_LENGTH - 1) /\ (n + 3) - 1 = n + 2
          /\ n + 2 \notin 1..(n + 1)
        BY <1>4, <1>9, <2>4
    <3> QED
        BY <1>11, <3>1
  <2> QED
      BY <2>1, <2>2, <2>3, <2>4 DEF Held
<1>13. InCycle /\ UNCHANGED <<nop_count, output>>
    BY <1>2 DEF ReadString
<1>14. Goes(PC + 1) /\ made' = "nothing" /\ UNCHANGED R
    BY <1>6, <1>13 DEF SyscallCycle, InCycle, EndCycle, Goes
<1> QED
    BY <1>12, <1>13, <1>14, ZenonT(30) DEF InCycle

(***************************************************************************)
(* The run of lab3b.s                                                      *)
(***************************************************************************)

\* The address and the contents of cell k of the line.
At(k) == DataBase + 2 + k
Cell(k) == DATA_SEG[k + 2]

\* A line of n characters reads the same from both ends; its first i
\* characters are those of the end.
Mirrored(n) == \A j \in 0..(n - 1) : Cell(j) = Cell(n - 1 - j)
Matched(n, i) == \A j \in 0..(i - 1) : Cell(j) = Cell(n - 1 - j)

Told(n) ==
    output = << <<"string", IF Mirrored(n) THEN DataBase + 0
                            ELSE DataBase + 1>> >>

\* Before a line is read.
Asking ==
    /\ PC \in 0..3
    /\ output = <<>> /\ Zeroed
    /\ PC > 0 => R[4] = DataBase + 2
    /\ PC > 1 => R[5] = 1024
    /\ PC > 2 => R[2] = 8

\* Register 10 looks for the end of the line, and is at cell i.
Measuring(n, i) ==
    /\ PC \in (4..11) \cup {13}
    /\ output = <<>>
    /\ PC > 4 => R[9] = At(0)
    /\ PC > 5 => R[10] = At(i) /\ i <= n + 1
    /\ PC \in {7, 8} => R[11] = Cell(i) /\ i + 2 < DATA_SEG_LENGTH
    /\ PC \in {9, 10} => i <= n
    /\ PC = 13 => i = n + 1

\* Registers 9 and 10 are i characters from the ends.
Comparing(n, i) ==
    /\ PC \in 14..24
    /\ output = <<>>
    /\ i <= n /\ Matched(n, i)
    /\ PC > 14 => 2 * i < n - 1
    /\ R[9] = At(IF PC > 22 THEN i + 1 ELSE i)
    /\ R[10] = At(IF PC > 23 THEN n - 1 - (i + 1) ELSE n - 1 - i)
    /\ PC \in 17..20 => R[11] = Cell(i)
    /\ PC \in 19..20 => R[12] = Cell(n - 1 - i)
    /\ PC > 20 => Cell(i) = Cell(n - 1 - i)

\* The verdict is given.
Telling(n) ==
    \/ /\ PC \in 26..28 /\ output = <<>> /\ Mirrored(n)
       /\ PC > 26 => R[4] = DataBase + 0
       /\ PC > 27 => R[2] = 4
    \/ /\ PC \in 31..33 /\ output = <<>> /\ ~Mirrored(n)
       /\ PC > 31 => R[4] = DataBase + 1
       /\ PC > 32 => R[2] = 4
    \/ /\ PC \in {29, 34, 36, 37} /\ Told(n)
       /\ PC = 37 => R[2] = 10

\* What the latch holds where it might be used.
Latch3b ==
    /\ made = "address" => PC \in {7, 17, 19}
    /\ PC = 6 /\ made = "result" => ex_mem.rd = 10
    /\ PC \in {16, 18} => made = "nothing"

\* The state of the machine between two instructions of the program.
Progress3b ==
    /\ Latch3b
    /\ \/ Asking
       \/ \E n \in Nat : /\ Held(n)
                         /\ \/ \E i \in Nat :
                                Measuring(n, i) \/ Comparing(n, i)
                            \/ Telling(n)

Inv3b ==
    ~stray /\ source = lab3b =>
        /\ status = "user" => Progress3b
        /\ status = "halted" => \E n \in Nat : Held(n) /\ Told(n)

\* A step of the program that goes well.
Proceeds(pc) == ~stray /\ Goes(pc) /\ Progress3b'

\* The line is asked for and read.
LEMMA AskingStep ==
    ASSUME IInv, Next, ~stray', status' # "threw", Text3b(text), Progress3b, Asking
    PROVE  Proceeds(PC + 1)
<1>1. ASSUME NEW rd \in 0..12, NEW op \in {"li", "la"}, NEW v,
             Reads(ir, op, rd, 0, 0, v)
      PROVE  /\ Writes(rd, v) /\ Goes(PC + 1) /\ ~stray /\ made' = "result"
             /\ UNCHANGED <<output, DATA_SEG>>
    BY <1>1, SetStep
<1>2. ASSUME PC \in 0..2, PC' = PC + 1, made' = "result", UNCHANGED DATA_SEG,
             output' = output, PC' > 0 => R'[4] = DataBase + 2,
             PC' > 1 => R'[5] = 1024, PC' > 2 => R'[2] = 8
      PROVE  Progress3b'
  <2>1. output' = <<>> /\ Zeroed'
      BY <1>2 DEF Asking, Zeroed
  <2>2. Latch3b'
      BY <1>2 DEF Latch3b
  <2> QED
      BY <1>2, <2>1, <2>2 DEF Progress3b, Asking
<1>3. CASE PC = 0
  <2>1. Reads(ir, "la", 4, 0, 0, DataBase + 2)
      BY <1>3 DEF Text3b, ir
  <2> QED
      BY <1>1, <1>2, <1>3, <2>1 DEF Asking, Writes, Goes, Proceeds
<1>4. CASE PC = 1
  <2>1. Reads(ir, "li", 5, 0, 0, 1024)
      BY <1>4 DEF Text3b, ir
  <2> QED
      BY <1>1, <1>2, <1>4, <2>1 DEF Asking, Writes, Goes, Proceeds
<1>5. CASE PC = 2
  <2>1. Reads(ir, "li", 2, 0, 0, 8)
      BY <1>5 DEF Text3b, ir
  <2> QED
      BY <1>1, <1>2, <1>5, <2>1 DEF Asking, Writes, Goes, Proceeds
<1>6. CASE PC = 3
  <2>1. Reads(ir, "syscall", 0, 0, 0, 0)
      BY <1>6 DEF Text3b, ir
  <2>2. R[2] = 8 /\ R[4] = DataBase + 2 /\ R[5] = 1024 /\ Zeroed
      BY <1>6 DEF Asking
  <2>3. /\ Goes(4) /\ ~stray /\ made' = "nothing" /\ UNCHANGED output
        /\ \E n \in Nat : Held(n)'
      BY <1>6, <2>1, <2>2, ReadStep
  <2>4. PICK n \in Nat : Held(n)'
      BY <2>3
  <2>5. PC' = 4 /\ output' = <<>>
      BY <2>3 DEF Asking, Goes
  <2>6. Measuring(n, 0)'
      BY <2>5 DEF Measuring
  <2>7. Latch3b'
      BY <2>3, <2>5 DEF Latch3b
  <2> QED
      BY <1>6, <2>3, <2>4, <2>6, <2>7 DEF Progress3b, Proceeds
<1> QED
    BY <1>3, <1>4, <1>5, <1>6 DEF Asking

(***************************************************************************)
(* Addresses                                                               *)
(***************************************************************************)

\* A number below half of the words is itself as a word and with a sign.
LEMMA SmallNumber ==
    ASSUME NEW n \in Nat, 2 * n < WordSize
    PROVE  AsWord(n) = n /\ Signed(n) = n
<1>1. WordSize \in Nat
    BY PipeSimAssumption
<1>2. n < WordSize
    BY <1>1
<1>3. n % WordSize = n
    BY <1>1, <1>2
<1> QED
    BY <1>1, <1>3 DEF AsWord, Signed

\* The address of a cell near the line is small.
LEMMA Address ==
    ASSUME NEW k \in Int, -1 <= k, k + 2 <= DATA_SEG_LENGTH
    PROVE  /\ At(k) \in Nat /\ At(k) = DataBase + 2 + k
           /\ AsWord(At(k)) = At(k) /\ Signed(At(k)) = At(k)
           /\ At(k) - DataBase = k + 2
<1>1. /\ DataBase \in Nat /\ DATA_SEG_LENGTH \in Nat /\ WordSize \in Nat
      /\ WordSize > 2 * (DataBase + DATA_SEG_LENGTH)
    BY AssemblerAssumption, PipeSimAssumption, PipeSimLabsAssumption
<1>2. At(k) \in Nat /\ 2 * At(k) < WordSize
    BY <1>1 DEF At
<1> QED
    BY <1>1, <1>2, SmallNumber DEF At

\* Cells have their addresses in a row.
LEMMA Neighbours ==
    ASSUME NEW k \in Int
    PROVE  At(k) + 1 = At(k + 1) /\ At(k) - 1 = At(k - 1) /\ At(k) - 2 = At(k - 2)
BY AssemblerAssumption DEF At

\* A line that is held lies in the data segment.
LEMMA LineFits ==
    ASSUME NEW n \in Nat, Held(n)
    PROVE  DATA_SEG_LENGTH \in Nat /\ n + 2 < DATA_SEG_LENGTH
BY PipeSimAssumption DEF Held

\* The line is where it was.
LEMMA LineStays ==
    ASSUME NEW n \in Nat, UNCHANGED DATA_SEG
    PROVE  /\ Held(n)' <=> Held(n)
           /\ Mirrored(n)' <=> Mirrored(n)
           /\ \A i \in Nat : Matched(n, i)' <=> Matched(n, i)
           /\ \A k : Cell(k)' = Cell(k)
BY DEF Held, Mirrored, Matched, Cell

(***************************************************************************)
(* The length of the line                                                  *)
(***************************************************************************)

\* The cell behind the newline is the first that is zero.
LEMMA FirstZero ==
    ASSUME NEW n \in Nat, Held(n), NEW i \in Nat, i <= n + 1,
           i + 2 < DATA_SEG_LENGTH
    PROVE  Cell(i) = 0 <=> i = n + 1
<1>1. CASE i < n
    BY <1>1 DEF Held, Cell
<1>2. CASE i = n
    BY <1>2 DEF Held, Cell
<1>3. CASE i = n + 1
  <2>1. n + 3 < DATA_SEG_LENGTH /\ i + 2 = n + 3
      BY <1>3, LineFits
  <2> QED
      BY <1>3, <2>1 DEF Held, Cell
<1> QED
    BY <1>1, <1>2, <1>3

\* While the line is measured, and the latch may be used.
LEMMA MeasuringOn ==
    ASSUME Text3b(text), NEW n \in Nat, Held(n), NEW i \in Nat,
           NEW pc \in 5..13, Goes(pc), ~stray, UNCHANGED DATA_SEG, Latch3b',
           Measuring(n, i)'
    PROVE  Proceeds(pc)
<1>1. Held(n)'
    BY LineStays
<1> QED
    BY <1>1 DEF Proceeds, Progress3b

\* The loop that looks for the end of the line, and the step behind it.
LEMMA MeasuringStep ==
    ASSUME IInv, Next, ~stray', status' # "threw", Text3b(text), Progress3b,
           NEW n \in Nat, Held(n), NEW i \in Nat, Measuring(n, i)
    PROVE  \E pc \in 0..37 : Proceeds(pc)
<1>1. /\ DATA_SEG_LENGTH \in Nat /\ n + 2 < DATA_SEG_LENGTH
      /\ output = <<>> /\ Latch3b
    BY LineFits DEF Progress3b, Measuring
<1>2. CASE PC = 4
  <2>1. Reads(ir, "la", 9, 0, 0, DataBase + 2)
      BY <1>2 DEF Text3b, ir
  <2>2. /\ Writes(9, DataBase + 2) /\ Goes(5) /\ ~stray /\ made' = "result"
        /\ UNCHANGED <<output, DATA_SEG>>
      BY <1>2, <2>1, SetStep
  <2>3. R'[9] = At(0) /\ PC' = 5 /\ output' = <<>>
    <3>1. DataBase + 2 = DataBase + 2 + 0
        BY AssemblerAssumption
    <3> QED
        BY <1>1, <2>2, <3>1 DEF At, Writes, Goes
  <2>4. Measuring(n, i)' /\ Latch3b'
      BY <2>2, <2>3 DEF Measuring, Latch3b
  <2> QED
      BY <2>2, <2>4, MeasuringOn
<1>3. CASE PC = 5
  <2>1. Reads(ir, "la", 10, 0, 0, DataBase + 2)
      BY <1>3 DEF Text3b, ir
  <2>2. /\ Writes(10, DataBase + 2) /\ Goes(6) /\ ~stray
        /\ made' = "result" /\ ex_mem'.rd = 10
        /\ UNCHANGED <<output, DATA_SEG>>
      BY <1>3, <2>1, SetStep
  <2>3. R'[9] = At(0) /\ R'[10] = At(0) /\ PC' = 6 /\ output' = <<>>
    <3>1. DataBase + 2 = DataBase + 2 + 0
        BY AssemblerAssumption
    <3> QED
        BY <1>1, <1>3, <2>2, <3>1 DEF At, Writes, Goes, Measuring
  <2>4. Measuring(n, 0)' /\ Latch3b'
      BY <2>2, <2>3 DEF Measuring, Latch3b
  <2> QED
      BY <2>2, <2>4, MeasuringOn
<1>4. CASE PC = 6
  <2>1. Reads(ir, "lb", 11, 10, 0, 0)
      BY <1>4 DEF Text3b, ir
  <2>2. Ready(ir)
      BY <1>1, <1>4, <2>1 DEF Latch3b, Ready, Reads
  <2>3. /\ InData(R[10])
        /\ Writes(11, DATA_SEG[R[10] - DataBase])
        /\ Goes(7) /\ ~stray /\ made' = "address"
        /\ UNCHANGED <<DATA_SEG, output>>
      BY <1>4, <2>1, <2>2, LoadStep
  <2>4. R[9] = At(0) /\ R[10] = At(i) /\ i <= n + 1
      BY <1>4 DEF Measuring
  <2>5. At(i) - DataBase = i + 2
      BY <1>1, <2>4, Address
  <2>6. i + 2 < DATA_SEG_LENGTH
      BY <1>1, <2>3, <2>4, <2>5 DEF InData
  <2>7. R'[11] = Cell(i)' /\ R'[9] = At(0) /\ R'[10] = At(i)
      BY <2>3, <2>4, <2>5 DEF Writes, Cell
  <2>8. Measuring(n, i)' /\ Latch3b'
      BY <1>1, <2>3, <2>4, <2>6, <2>7 DEF Measuring, Latch3b, Goes
  <2> QED
      BY <2>3, <2>8, MeasuringOn
<1>5. CASE PC = 7
  <2>1. Reads(ir, "nop", 0, 0, 0, 0)
      BY <1>5 DEF Text3b, ir
  <2>2. Goes(8) /\ ~stray /\ made' = "nothing" /\ UNCHANGED <<R, DATA_SEG, output>>
      BY <1>5, <2>1, NopStep
  <2>3. Measuring(n, i)' /\ Latch3b'
      BY <1>5, <2>2, LineStays DEF Measuring, Latch3b, Goes
  <2> QED
      BY <2>2, <2>3, MeasuringOn
<1>6. CASE PC = 8
  <2>1. Reads(ir, "beqz", 11, 0, 0, 13) /\ "beqz" \in Branches
      BY <1>6 DEF Text3b, ir, Branches
  <2>2. /\ R[9] = At(0) /\ R[10] = At(i) /\ i <= n + 1
        /\ R[11] = Cell(i) /\ i + 2 < DATA_SEG_LENGTH
      BY <1>6 DEF Measuring
  <2>3. Taken(ir) <=> i = n + 1
      BY <2>1, <2>2, FirstZero DEF Taken, Reads
  <2>4. /\ Goes(IF Taken(ir) THEN 13 ELSE PC + 1) /\ ~stray
        /\ made' \in {"nothing", "operand"}
        /\ UNCHANGED <<R, DATA_SEG, output>>
      BY <2>1, BranchStep
  <2>5. CASE i = n + 1
    <3>1. Goes(13)
        BY <2>3, <2>4, <2>5
    <3>2. Measuring(n, i)' /\ Latch3b'
        BY <1>1, <2>2, <2>4, <2>5, <3>1 DEF Measuring, Latch3b, Goes
    <3> QED
        BY <2>4, <3>1, <3>2, MeasuringOn
  <2>6. CASE i # n + 1
    <3>1. Goes(9)
        BY <1>6, <2>3, <2>4, <2>6
    <3>2. Measuring(n, i)' /\ Latch3b'
        BY <1>1, <2>2, <2>4, <2>6, <3>1 DEF Measuring, Latch3b, Goes
    <3> QED
        BY <2>4, <3>1, <3>2, MeasuringOn
  <2> QED
      BY <2>5, <2>6
<1>7. CASE PC = 9
  <2>1. Reads(ir, "nop", 0, 0, 0, 0)
      BY <1>7 DEF Text3b, ir
  <2>2. Goes(10) /\ ~stray /\ made' = "nothing" /\ UNCHANGED <<R, DATA_SEG, output>>
      BY <1>7, <2>1, NopStep
  <2>3. Measuring(n, i)' /\ Latch3b'
      BY <1>7, <2>2 DEF Measuring, Latch3b, Goes
  <2> QED
      BY <2>2, <2>3, MeasuringOn
<1>8. CASE PC = 10
  <2>1. Reads(ir, "addi", 10, 10, 0, 1)
      BY <1>8 DEF Text3b, ir
  <2>2. Ready(ir)
      BY <1>1, <1>8, <2>1 DEF Latch3b, Ready, Reads
  <2>3. /\ Writes(10, AsWord(R[10] + 1)) /\ Goes(11) /\ ~stray
        /\ made' = "result" /\ UNCHANGED <<DATA_SEG, output>>
      BY <1>8, <2>1, <2>2, AddStep
  <2>4. R[9] = At(0) /\ R[10] = At(i) /\ i <= n /\ i + 1 \in Nat
      BY <1>8 DEF Measuring
  <2>5. R[10] + 1 = At(i + 1)
      BY <2>4, Neighbours
  <2>6. AsWord(R[10] + 1) = At(i + 1)
      BY <1>1, <2>4, <2>5, Address
  <2>7. Measuring(n, i + 1)' /\ Latch3b'
      BY <1>1, <2>3, <2>4, <2>6 DEF Measuring, Latch3b, Goes, Writes
  <2> QED
      BY <2>3, <2>4, <2>7, MeasuringOn
<1>9. CASE PC = 11
  <2>1. Reads(ir, "b", 0, 0, 0, 6) /\ "b" \in Branches
      BY <1>9 DEF Text3b, ir, Branches
  <2>2. /\ Goes(6) /\ ~stray /\ made' \in {"nothing", "operand"}
        /\ UNCHANGED <<R, DATA_SEG, output>>
      BY <2>1, BranchStep DEF Taken, Reads
  <2>3. Measuring(n, i)' /\ Latch3b'
      BY <1>9, <2>2 DEF Measuring, Latch3b, Goes
  <2> QED
      BY <2>2, <2>3, MeasuringOn
<1>10. CASE PC = 13
  <2>1. Reads(ir, "subi", 10, 10, 0, 2)
      BY <1>10 DEF Text3b, ir
  <2>2. Ready(ir)
      BY <1>1, <1>10, <2>1 DEF Latch3b, Ready, Reads
  <2>3. /\ Writes(10, AsWord(R[10] - 2)) /\ Goes(14) /\ ~stray
        /\ made' = "result" /\ UNCHANGED <<DATA_SEG, output>>
      BY <1>10, <2>1, <2>2, AddStep
  <2>4. R[9] = At(0) /\ R[10] = At(n + 1)
      BY <1>10 DEF Measuring
  <2>5. R[10] - 2 = At(n - 1)
    <3>1. n + 1 \in Int /\ (n + 1) - 2 = n - 1
        OBVIOUS
    <3> QED
        BY <2>4, <3>1, Neighbours
  <2>6. AsWord(R[10] - 2) = At(n - 1)
      BY <1>1, <2>5, Address
  <2>7. Matched(n, 0)'
      BY DEF Matched
  <2>8. PC' = 14 /\ R'[9] = At(0) /\ R'[10] = At(n - 1) /\ output' = <<>>
      BY <1>1, <2>3, <2>4, <2>6 DEF Goes, Writes
  <2>9. Comparing(n, 0)' /\ Latch3b'
    <3>1. n - 1 - 0 = n - 1
        OBVIOUS
    <3> QED
        BY <2>3, <2>7, <2>8, <3>1 DEF Comparing, Latch3b
  <2>10. Held(n)'
      BY <2>3, LineStays
  <2> QED
      BY <2>3, <2>9, <2>10 DEF Proceeds, Progress3b
<1> QED
    BY <1>2, <1>3, <1>4, <1>5, <1>6, <1>7, <1>8, <1>9, <1>10 DEF Measuring

(***************************************************************************)
(* The comparison                                                          *)
(***************************************************************************)

\* While the line is compared, and when a verdict is found.
LEMMA ComparingOn ==
    ASSUME Text3b(text), NEW n \in Nat, Held(n), NEW i \in Nat,
           NEW pc \in 14..24, Goes(pc), ~stray, UNCHANGED DATA_SEG, Latch3b',
           Comparing(n, i)'
    PROVE  Proceeds(pc)
<1>1. Held(n)'
    BY LineStays
<1> QED
    BY <1>1 DEF Proceeds, Progress3b

LEMMA TellingOn ==
    ASSUME Text3b(text), NEW n \in Nat, Held(n),
           NEW pc \in 26..37, Goes(pc), ~stray, UNCHANGED DATA_SEG, Latch3b',
           Telling(n)'
    PROVE  Proceeds(pc)
<1>1. Held(n)'
    BY LineStays
<1> QED
    BY <1>1 DEF Proceeds, Progress3b

\* When the registers have met, every character was compared.
LEMMA Met ==
    ASSUME NEW n \in Nat, NEW i \in Nat, i <= n, Matched(n, i),
           ~(2 * i < n - 1)
    PROVE  Mirrored(n)
<1> SUFFICES ASSUME NEW j \in 0..(n - 1) PROVE Cell(j) = Cell(n - 1 - j)
    BY DEF Mirrored
<1> DEFINE other == n - 1 - j
<1>1. other \in 0..(n - 1) /\ n - 1 - other = j
    OBVIOUS
<1>2. CASE j < i
    BY <1>2 DEF Matched
<1>3. CASE other < i
  <2>1. other \in 0..(i - 1)
      BY <1>1, <1>3
  <2> HIDE DEF other
  <2>2. Cell(other) = Cell(j)
      BY <1>1, <2>1 DEF Matched
  <2> QED
      BY <2>2 DEF other
<1>4. CASE ~(j < i) /\ ~(other < i)
  <2>1. other = j
      BY <1>4
  <2> QED
      BY <2>1
<1> QED
    BY <1>2, <1>3, <1>4

\* What is compared may go on being compared.
LEMMA MatchedNext ==
    ASSUME NEW n \in Nat, NEW i \in Nat, Matched(n, i), Cell(i) = Cell(n - 1 - i)
    PROVE  Matched(n, i + 1)
<1> SUFFICES ASSUME NEW j \in 0..((i + 1) - 1) PROVE Cell(j) = Cell(n - 1 - j)
    BY DEF Matched
<1>1. CASE j < i
    BY <1>1 DEF Matched
<1>2. CASE j = i
    BY <1>2
<1> QED
    BY <1>1, <1>2

\* The loop that compares.
LEMMA ComparingStep ==
    ASSUME IInv, Next, ~stray', status' # "threw", Text3b(text), Progress3b,
           NEW n \in Nat, Held(n), NEW i \in Nat, Comparing(n, i)
    PROVE  \E pc \in 0..37 : Proceeds(pc)
<1>1. /\ DATA_SEG_LENGTH \in Nat /\ n + 2 < DATA_SEG_LENGTH
      /\ output = <<>> /\ Latch3b /\ i <= n /\ Matched(n, i)
    BY LineFits DEF Progress3b, Comparing
<1> DEFINE last == n - 1 - i
<1>2. last \in Int /\ -1 <= last /\ last + 2 <= DATA_SEG_LENGTH
    BY <1>1
<1>3. ASSUME PC \in 14..22 PROVE R[9] = At(i) /\ R[10] = At(last)
    BY <1>3 DEF Comparing
<1>4. ASSUME PC \in 15..24 PROVE 2 * i < n - 1 /\ last \in Nat /\ last < n
    BY <1>1, <1>4 DEF Comparing
<1>5. UNCHANGED DATA_SEG =>
        /\ Matched(n, i)' /\ Cell(i)' = Cell(i) /\ Cell(last)' = Cell(last)
    BY <1>1, LineStays
<1>6. ASSUME UNCHANGED DATA_SEG, NEW pc \in 15..22, PC' = pc, output' = <<>>,
             2 * i < n - 1, R'[9] = At(i), R'[10] = At(last),
             pc \in 17..20 => R'[11] = Cell(i),
             pc \in 19..20 => R'[12] = Cell(last),
             pc > 20 => Cell(i) = Cell(last)
      PROVE  Comparing(n, i)'
    BY <1>1, <1>5, <1>6 DEF Comparing
<1>7. ASSUME NEW pc \in {16, 18, 20, 22}, PC + 1 = pc, Reads(ir, "nop", 0, 0, 0, 0)
      PROVE  Proceeds(pc)
  <2>1. Goes(pc) /\ ~stray /\ made' = "nothing" /\ UNCHANGED <<R, DATA_SEG, output>>
      BY <1>7, NopStep
  <2>2. PC \in {15, 17, 19, 21} /\ PC' = pc /\ output' = <<>>
      BY <1>1, <1>7, <2>1 DEF Goes, Comparing
  <2>3. R'[9] = At(i) /\ R'[10] = At(last) /\ 2 * i < n - 1
      BY <1>3, <1>4, <2>1, <2>2
  <2>4. /\ pc \in 17..20 => R'[11] = Cell(i)
        /\ pc \in 19..20 => R'[12] = Cell(last)
        /\ pc > 20 => Cell(i) = Cell(last)
      BY <1>7, <2>1, <2>2 DEF Comparing
  <2>5. Comparing(n, i)' /\ Latch3b'
      BY <1>6, <1>7, <2>1, <2>2, <2>3, <2>4 DEF Latch3b
  <2> QED
      BY <1>7, <2>1, <2>5, ComparingOn
<1>8. CASE PC = 14
  <2>1. Reads(ir, "bge", 9, 0, 10, 26) /\ "bge" \in Branches
      BY <1>8 DEF Text3b, ir, Branches
  <2>2. R[9] = At(i) /\ R[10] = At(last)
      BY <1>3, <1>8
  <2>3. Taken(ir) <=> ~(2 * i < n - 1)
    <3>1. Taken(ir) <=> Signed(At(i)) >= Signed(At(last))
        BY <2>1, <2>2 DEF Taken, Reads
    <3>2. Signed(At(i)) = DataBase + 2 + i
        BY <1>1, Address
    <3>3. Signed(At(last)) = DataBase + 2 + last
        BY <1>2, Address
    <3> QED
        BY <3>1, <3>2, <3>3, AssemblerAssumption
  <2>4. /\ Goes(IF Taken(ir) THEN 26 ELSE PC + 1) /\ ~stray
        /\ made' \in {"nothing", "operand"}
        /\ UNCHANGED <<R, DATA_SEG, output>>
      BY <2>1, BranchStep
  <2>5. CASE 2 * i < n - 1
    <3>1. Goes(15)
        BY <1>8, <2>3, <2>4, <2>5
    <3>2. PC' = 15 /\ output' = <<>> /\ Latch3b'
        BY <1>1, <2>4, <3>1 DEF Goes, Latch3b
    <3>3. Comparing(n, i)'
        BY <1>6, <2>2, <2>4, <2>5, <3>2
    <3>4. Proceeds(15)
        BY <2>4, <3>1, <3>2, <3>3, ComparingOn
    <3> QED
        BY <3>4
  <2>6. CASE ~(2 * i < n - 1)
    <3>1. Goes(26)
        BY <2>3, <2>4, <2>6
    <3>2. PC' = 26 /\ output' = <<>> /\ Latch3b'
        BY <1>1, <2>4, <3>1 DEF Goes, Latch3b
    <3>3. Mirrored(n)'
        BY <1>1, <2>4, <2>6, Met, LineStays
    <3>4. Telling(n)'
        BY <3>2, <3>3 DEF Telling
    <3> QED
        BY <2>4, <3>1, <3>2, <3>4, TellingOn
  <2> QED
      BY <2>5, <2>6
<1>9. CASE PC = 15
  <2>1. Reads(ir, "nop", 0, 0, 0, 0)
      BY <1>9 DEF Text3b, ir
  <2> QED
      BY <1>7, <1>9, <2>1
<1>10. CASE PC = 16
  <2>1. Reads(ir, "lb", 11, 9, 0, 0)
      BY <1>10 DEF Text3b, ir
  <2>2. Ready(ir)
      BY <1>1, <1>10 DEF Latch3b, Ready
  <2>3. /\ Writes(11, DATA_SEG[R[9] - DataBase])
        /\ Goes(17) /\ ~stray /\ made' = "address"
        /\ UNCHANGED <<DATA_SEG, output>>
      BY <1>10, <2>1, <2>2, LoadStep
  <2>4. R[9] = At(i) /\ R[10] = At(last) /\ 2 * i < n - 1
      BY <1>3, <1>4, <1>10
  <2>5. R[9] - DataBase = i + 2
      BY <1>1, <2>4, Address
  <2>6. R'[11] = Cell(i) /\ R'[9] = At(i) /\ R'[10] = At(last)
      BY <2>3, <2>4, <2>5 DEF Writes, Cell
  <2>7. PC' = 17 /\ output' = <<>> /\ Latch3b'
      BY <1>1, <2>3 DEF Goes, Latch3b
  <2>8. Comparing(n, i)'
      BY <1>6, <2>3, <2>4, <2>6, <2>7
  <2>9. Proceeds(17)
      BY <2>3, <2>7, <2>8, ComparingOn
  <2> QED
      BY <2>9
<1>11. CASE PC = 17
  <2>1. Reads(ir, "nop", 0, 0, 0, 0)
      BY <1>11 DEF Text3b, ir
  <2> QED
      BY <1>7, <1>11, <2>1
<1>12. CASE PC = 18
  <2>1. Reads(ir, "lb", 12, 10, 0, 0)
      BY <1>12 DEF Text3b, ir
  <2>2. Ready(ir)
      BY <1>1, <1>12 DEF Latch3b, Ready
  <2>3. /\ Writes(12, DATA_SEG[R[10] - DataBase])
        /\ Goes(19) /\ ~stray /\ made' = "address"
        /\ UNCHANGED <<DATA_SEG, output>>
      BY <1>12, <2>1, <2>2, LoadStep
  <2>4. /\ R[9] = At(i) /\ R[10] = At(last) /\ 2 * i < n - 1
        /\ R[11] = Cell(i)
      BY <1>3, <1>4, <1>12 DEF Comparing
  <2>5. R[10] - DataBase = last + 2
      BY <1>2, <2>4, Address
  <2>6. /\ R'[11] = Cell(i) /\ R'[12] = Cell(last)
        /\ R'[9] = At(i) /\ R'[10] = At(last)
      BY <2>3, <2>4, <2>5 DEF Writes, Cell
  <2>7. PC' = 19 /\ output' = <<>> /\ Latch3b'
      BY <1>1, <2>3 DEF Goes, Latch3b
  <2>8. Comparing(n, i)'
      BY <1>6, <2>3, <2>4, <2>6, <2>7
  <2>9. Proceeds(19)
      BY <2>3, <2>7, <2>8, ComparingOn
  <2> QED
      BY <2>9
<1>13. CASE PC = 19
  <2>1. Reads(ir, "nop", 0, 0, 0, 0)
      BY <1>13 DEF Text3b, ir
  <2> QED
      BY <1>7, <1>13, <2>1
<1>14. CASE PC = 20
  <2>1. Reads(ir, "bne", 11, 0, 12, 31) /\ "bne" \in Branches
      BY <1>14 DEF Text3b, ir, Branches
  <2>2. /\ R[9] = At(i) /\ R[10] = At(last) /\ 2 * i < n - 1
        /\ R[11] = Cell(i) /\ R[12] = Cell(last)
      BY <1>3, <1>4, <1>14 DEF Comparing
  <2>3. Taken(ir) <=> Cell(i) # Cell(last)
      BY <2>1, <2>2 DEF Taken, Reads
  <2>4. /\ Goes(IF Taken(ir) THEN 31 ELSE PC + 1) /\ ~stray
        /\ made' \in {"nothing", "operand"}
        /\ UNCHANGED <<R, DATA_SEG, output>>
      BY <2>1, BranchStep
  <2>5. CASE Cell(i) = Cell(last)
    <3>1. Goes(21)
        BY <1>14, <2>3, <2>4, <2>5
    <3>2. PC' = 21 /\ output' = <<>> /\ Latch3b'
        BY <1>1, <2>4, <3>1 DEF Goes, Latch3b
    <3>3. Comparing(n, i)'
        BY <1>6, <2>2, <2>4, <2>5, <3>2
    <3>4. Proceeds(21)
        BY <2>4, <3>1, <3>2, <3>3, ComparingOn
    <3> QED
        BY <3>4
  <2>6. CASE Cell(i) # Cell(last)
    <3>1. Goes(31)
        BY <2>3, <2>4, <2>6
    <3>2. PC' = 31 /\ output' = <<>> /\ Latch3b'
        BY <1>1, <2>4, <3>1 DEF Goes, Latch3b
    <3>3. ~Mirrored(n)
      <4>1. i \in 0..(n - 1)
          BY <2>2
      <4> QED
          BY <2>6, <4>1 DEF Mirrored
    <3>4. Telling(n)'
        BY <2>4, <3>2, <3>3, LineStays DEF Telling
    <3> QED
        BY <2>4, <3>1, <3>2, <3>4, TellingOn
  <2> QED
      BY <2>5, <2>6
<1>15. CASE PC = 21
  <2>1. Reads(ir, "nop", 0, 0, 0, 0)
      BY <1>15 DEF Text3b, ir
  <2> QED
      BY <1>7, <1>15, <2>1
<1>16. CASE PC = 22
  <2>1. Reads(ir, "addi", 9, 9, 0, 1)
      BY <1>16 DEF Text3b, ir
  <2>2. Ready(ir)
      BY <1>1, <1>16, <2>1 DEF Latch3b, Ready, Reads
  <2>3. /\ Writes(9, AsWord(R[9] + 1)) /\ Goes(23) /\ ~stray
        /\ made' = "result" /\ UNCHANGED <<DATA_SEG, output>>
      BY <1>16, <2>1, <2>2, AddStep
  <2>4. R[9] = At(i) /\ R[10] = At(last) /\ 2 * i < n - 1
      BY <1>3, <1>4, <1>16
  <2>5. R[9] + 1 = At(i + 1)
      BY <2>4, Neighbours
  <2>6. AsWord(R[9] + 1) = At(i + 1)
      BY <1>1, <2>4, <2>5, Address
  <2>7. /\ PC' = 23 /\ output' = <<>> /\ Latch3b'
        /\ R'[9] = At(i + 1) /\ R'[10] = At(last)
      BY <1>1, <2>3, <2>4, <2>6 DEF Goes, Latch3b, Writes
  <2>8. Cell(i) = Cell(last)
      BY <1>16 DEF Comparing
  <2>9. Comparing(n, i)'
      BY <1>1, <1>5, <2>3, <2>4, <2>7, <2>8 DEF Comparing
  <2>10. Proceeds(23)
      BY <2>3, <2>7, <2>9, ComparingOn
  <2> QED
      BY <2>10
<1>17. CASE PC = 23
  <2>1. Reads(ir, "subi", 10, 10, 0, 1)
      BY <1>17 DEF Text3b, ir
  <2>2. Ready(ir)
      BY <1>1, <1>17, <2>1 DEF Latch3b, Ready, Reads
  <2>3. /\ Writes(10, AsWord(R[10] - 1)) /\ Goes(24) /\ ~stray
        /\ made' = "result" /\ UNCHANGED <<DATA_SEG, output>>
      BY <1>17, <2>1, <2>2, AddStep
  <2>4. /\ R[9] = At(i + 1) /\ R[10] = At(last) /\ 2 * i < n - 1
        /\ Cell(i) = Cell(last)
      BY <1>4, <1>17 DEF Comparing
  <2> DEFINE before == n - 1 - (i + 1)
  <2>5. /\ before \in Int /\ -1 <= before /\ before + 2 <= DATA_SEG_LENGTH
        /\ last - 1 = before
      BY <1>1, <2>4
  <2>6. R[10] - 1 = At(before)
      BY <1>2, <2>4, <2>5, Neighbours
  <2>7. AsWord(R[10] - 1) = At(before)
      BY <2>5, <2>6, Address
  <2>8. /\ PC' = 24 /\ output' = <<>> /\ Latch3b'
        /\ R'[9] = At(i + 1) /\ R'[10] = At(before)
      BY <1>1, <2>3, <2>4, <2>7 DEF Goes, Latch3b, Writes
  <2>9. Comparing(n, i)'
      BY <1>1, <1>5, <2>3, <2>4, <2>8 DEF Comparing
  <2>10. Proceeds(24)
      BY <2>3, <2>8, <2>9, ComparingOn
  <2> QED
      BY <2>10
<1>18. CASE PC = 24
  <2>1. Reads(ir, "b", 0, 0, 0, 14) /\ "b" \in Branches
      BY <1>18 DEF Text3b, ir, Branches
  <2>2. /\ Goes(14) /\ ~stray /\ made' \in {"nothing", "operand"}
        /\ UNCHANGED <<R, DATA_SEG, output>>
      BY <2>1, BranchStep DEF Taken, Reads
  <2>3. /\ R[9] = At(i + 1) /\ R[10] = At(n - 1 - (i + 1)) /\ 2 * i < n - 1
        /\ Cell(i) = Cell(last)
      BY <1>4, <1>18 DEF Comparing
  <2>4. Matched(n, i + 1)' /\ i + 1 \in Nat /\ i + 1 <= n
      BY <1>1, <2>2, <2>3, MatchedNext, LineStays
  <2>5. PC' = 14 /\ output' = <<>> /\ Latch3b'
      BY <1>1, <2>2 DEF Goes, Latch3b
  <2>6. Comparing(n, i + 1)'
      BY <2>2, <2>3, <2>4, <2>5 DEF Comparing
  <2>7. Proceeds(14)
      BY <2>2, <2>4, <2>5, <2>6, ComparingOn
  <2> QED
      BY <2>7
<1>19. PC \in 14..24
    BY DEF Comparing
<1> QED
    BY <1>8, <1>9, <1>10, <1>11, <1>12, <1>13, <1>14, <1>15, <1>16, <1>17,
       <1>18, <1>19

(***************************************************************************)
(* The verdict                                                             *)
(***************************************************************************)

\* Before a verdict, or after it.
LEMMA TellingStep ==
    ASSUME IInv, Next, ~stray', status' # "threw", Text3b(text), Progress3b,
           NEW n \in Nat, Held(n), Telling(n)
    PROVE  \/ \E pc \in 0..37 : Proceeds(pc)
           \/ /\ ~stray /\ status' = "halted"
              /\ Held(n)' /\ Told(n)'
<1>1. Latch3b
    BY DEF Progress3b
<1>2. ASSUME NEW rd \in 0..12, NEW op \in {"li", "la"}, NEW v,
             Reads(ir, op, rd, 0, 0, v)
      PROVE  /\ Writes(rd, v) /\ Goes(PC + 1) /\ ~stray /\ made' = "result"
             /\ UNCHANGED <<output, DATA_SEG>>
    BY <1>2, SetStep
<1>3. CASE PC = 26
  <2>1. Reads(ir, "la", 4, 0, 0, DataBase + 0)
      BY <1>3 DEF Text3b, ir
  <2>2. /\ Writes(4, DataBase + 0) /\ Goes(27) /\ ~stray /\ made' = "result"
        /\ UNCHANGED <<output, DATA_SEG>>
      BY <1>2, <1>3, <2>1
  <2>3. PC' = 27 /\ R'[4] = DataBase + 0 /\ Latch3b'
      BY <2>2 DEF Goes, Writes, Latch3b
  <2>4. output = <<>> /\ Mirrored(n)
      BY <1>3 DEF Telling
  <2>5. output' = <<>> /\ Mirrored(n)'
      BY <2>2, <2>4, LineStays
  <2>6. Telling(n)'
      BY <2>3, <2>5 DEF Telling
  <2>7. Proceeds(27)
      BY <2>2, <2>3, <2>6, TellingOn
  <2> QED
      BY <2>7
<1>4. CASE PC = 27
  <2>1. Reads(ir, "li", 2, 0, 0, 4)
      BY <1>4 DEF Text3b, ir
  <2>2. /\ Writes(2, 4) /\ Goes(28) /\ ~stray /\ made' = "result"
        /\ UNCHANGED <<output, DATA_SEG>>
      BY <1>2, <1>4, <2>1
  <2>3. output = <<>> /\ Mirrored(n) /\ R[4] = DataBase + 0
      BY <1>4 DEF Telling
  <2>4. PC' = 28 /\ R'[2] = 4 /\ R'[4] = DataBase + 0 /\ Latch3b'
      BY <2>2, <2>3 DEF Goes, Writes, Latch3b
  <2>5. output' = <<>> /\ Mirrored(n)'
      BY <2>2, <2>3, LineStays
  <2>6. Telling(n)'
      BY <2>4, <2>5 DEF Telling
  <2>7. Proceeds(28)
      BY <2>2, <2>4, <2>6, TellingOn
  <2> QED
      BY <2>7
<1>5. ASSUME NEW pc \in {29, 34}, PC + 1 = pc, output = <<>>, R[2] = 4,
             R[4] = IF Mirrored(n) THEN DataBase + 0 ELSE DataBase + 1,
             Reads(ir, "syscall", 0, 0, 0, 0)
      PROVE  Proceeds(pc)
  <2>1. /\ Goes(pc) /\ ~stray /\ made' = "nothing"
        /\ output' = Append(output, << IF R[2] = 1 THEN "int" ELSE "string",
                                       R[4] >>)
        /\ UNCHANGED <<R, DATA_SEG>>
      BY <1>5, PrintStep
  <2>2. output' = << << "string", R[4] >> >>
    <3>1. (IF R[2] = 1 THEN "int" ELSE "string") = "string"
        BY <1>5
    <3>2. output' = Append(<<>>, <<"string", R[4]>>)
        BY <1>5, <2>1, <3>1
    <3> QED
        BY <3>2
  <2>3. Mirrored(n)' <=> Mirrored(n)
      BY <2>1, LineStays
  <2>4. Told(n)'
    <3>1. CASE Mirrored(n)
        BY <1>5, <2>2, <2>3, <3>1 DEF Told
    <3>2. CASE ~Mirrored(n)
        BY <1>5, <2>2, <2>3, <3>2 DEF Told
    <3> QED
        BY <3>1, <3>2
  <2>5. PC' = pc /\ Latch3b'
      BY <1>5, <2>1 DEF Goes, Latch3b
  <2>6. Telling(n)'
      BY <1>5, <2>4, <2>5 DEF Telling
  <2> QED
      BY <1>5, <2>1, <2>5, <2>6, TellingOn
<1>6. CASE PC = 28
  <2>1. Reads(ir, "syscall", 0, 0, 0, 0)
      BY <1>6 DEF Text3b, ir
  <2>2. output = <<>> /\ Mirrored(n) /\ R[4] = DataBase + 0 /\ R[2] = 4
      BY <1>6 DEF Telling
  <2>3. Proceeds(29)
      BY <1>5, <1>6, <2>1, <2>2
  <2> QED
      BY <2>3
<1>7. CASE PC = 31
  <2>1. Reads(ir, "la", 4, 0, 0, DataBase + 1)
      BY <1>7 DEF Text3b, ir
  <2>2. /\ Writes(4, DataBase + 1) /\ Goes(32) /\ ~stray /\ made' = "result"
        /\ UNCHANGED <<output, DATA_SEG>>
      BY <1>2, <1>7, <2>1
  <2>3. PC' = 32 /\ R'[4] = DataBase + 1 /\ Latch3b'
      BY <2>2 DEF Goes, Writes, Latch3b
  <2>4. output = <<>> /\ ~Mirrored(n)
      BY <1>7 DEF Telling
  <2>5. output' = <<>> /\ ~Mirrored(n)'
      BY <2>2, <2>4, LineStays
  <2>6. Telling(n)'
      BY <2>3, <2>5 DEF Telling
  <2>7. Proceeds(32)
      BY <2>2, <2>3, <2>6, TellingOn
  <2> QED
      BY <2>7
<1>8. CASE PC = 32
  <2>1. Reads(ir, "li", 2, 0, 0, 4)
      BY <1>8 DEF Text3b, ir
  <2>2. /\ Writes(2, 4) /\ Goes(33) /\ ~stray /\ made' = "result"
        /\ UNCHANGED <<output, DATA_SEG>>
      BY <1>2, <1>8, <2>1
  <2>3. output = <<>> /\ ~Mirrored(n) /\ R[4] = DataBase + 1
      BY <1>8 DEF Telling
  <2>4. PC' = 33 /\ R'[2] = 4 /\ R'[4] = DataBase + 1 /\ Latch3b'
      BY <2>2, <2>3 DEF Goes, Writes, Latch3b
  <2>5. output' = <<>> /\ ~Mirrored(n)'
      BY <2>2, <2>3, LineStays
  <2>6. Telling(n)'
      BY <2>4, <2>5 DEF Telling
  <2>7. Proceeds(33)
      BY <2>2, <2>4, <2>6, TellingOn
  <2> QED
      BY <2>7
<1>9. CASE PC = 33
  <2>1. Reads(ir, "syscall", 0, 0, 0, 0)
      BY <1>9 DEF Text3b, ir
  <2>2. output = <<>> /\ ~Mirrored(n) /\ R[4] = DataBase + 1 /\ R[2] = 4
      BY <1>9 DEF Telling
  <2>3. Proceeds(34)
      BY <1>5, <1>9, <2>1, <2>2
  <2> QED
      BY <2>3
<1>10. CASE PC \in {29, 34}
  <2>1. Reads(ir, "b", 0, 0, 0, 36) /\ "b" \in Branches
      BY <1>10 DEF Text3b, ir, Branches
  <2>2. /\ Goes(36) /\ ~stray /\ made' \in {"nothing", "operand"}
        /\ UNCHANGED <<R, DATA_SEG, output>>
      BY <2>1, BranchStep DEF Taken, Reads
  <2>3. Told(n)
      BY <1>10 DEF Telling
  <2>4. Told(n)'
      BY <2>2, <2>3, LineStays DEF Told
  <2>5. PC' = 36 /\ Latch3b'
      BY <2>2 DEF Goes, Latch3b
  <2>6. Telling(n)'
      BY <2>4, <2>5 DEF Telling
  <2>7. Proceeds(36)
      BY <2>2, <2>5, <2>6, TellingOn
  <2> QED
      BY <2>7
<1>11. CASE PC = 36
  <2>1. Reads(ir, "li", 2, 0, 0, 10)
      BY <1>11 DEF Text3b, ir
  <2>2. /\ Writes(2, 10) /\ Goes(37) /\ ~stray /\ made' = "result"
        /\ UNCHANGED <<output, DATA_SEG>>
      BY <1>2, <1>11, <2>1
  <2>3. Told(n)
      BY <1>11 DEF Telling
  <2>4. Told(n)'
      BY <2>2, <2>3, LineStays DEF Told
  <2>5. PC' = 37 /\ R'[2] = 10 /\ Latch3b'
      BY <2>2 DEF Goes, Writes, Latch3b
  <2>6. Telling(n)'
      BY <2>4, <2>5 DEF Telling
  <2>7. Proceeds(37)
      BY <2>2, <2>5, <2>6, TellingOn
  <2> QED
      BY <2>7
<1>12. CASE PC = 37
  <2>1. Reads(ir, "syscall", 0, 0, 0, 0)
      BY <1>12 DEF Text3b, ir
  <2>2. R[2] = 10 /\ Told(n)
      BY <1>12 DEF Telling
  <2>3. status' = "halted" /\ ~stray /\ UNCHANGED <<DATA_SEG, output>>
      BY <2>1, <2>2, ExitStep
  <2>4. Held(n)' /\ Told(n)'
      BY <2>2, <2>3, LineStays DEF Told
  <2> QED
      BY <2>3, <2>4
<1>13. PC \in (26..29) \cup (31..34) \cup {36, 37}
    BY DEF Telling
<1> QED
    BY <1>3, <1>4, <1>6, <1>7, <1>8, <1>9, <1>10, <1>11, <1>12, <1>13

(***************************************************************************)
(* What lab3b.s prints                                                     *)
(***************************************************************************)

\* What runs, if it is lab3b.s.
LEMMA Runs3b ==
    ASSUME IInv, source = lab3b PROVE lab3b \in SourceFile /\ Text3b(text)
<1>1. FILENAME \in DOMAIN Sources
    BY DEF IInv, TypeOK
<1>2. lab3b \in SourceFile
    BY <1>1, PipeSimAssumption DEF source, SourceFile
<1>3. text = init_segs(lab3b)
    BY <1>1 DEF text, TEXT_SEG, source
<1> QED
    BY <1>2, <1>3, TextOf3b

\* The invariant of lab3b.s holds at first, and is kept.
LEMMA Init3b == ASSUME Init PROVE Inv3b
<1>1. Asking /\ Latch3b
    BY DEF Init, Asking, Zeroed, Latch3b
<1>2. status = "user"
    BY DEF Init
<1> QED
    BY <1>1, <1>2 DEF Inv3b, Progress3b

LEMMA Step3b == ASSUME IInv, Inv3b, [Next]_vars PROVE Inv3b'
<1> SUFFICES ASSUME ~stray', source' = lab3b
             PROVE  /\ status' = "user" => Progress3b'
                    /\ status' = "halted" => \E n \in Nat :
                           Held(n)' /\ Told(n)'
    BY DEF Inv3b
<1>1. CASE Next /\ status' # "threw"
  <2>1. status = "user" /\ UNCHANGED FILENAME /\ ~stray
    <3>1. status = "user" /\ UNCHANGED FILENAME /\ ~stray
        BY <1>1, ActionOf DEF InCycle
    <3> QED
        BY <3>1
  <2>2. source = lab3b
      BY <2>1 DEF source
  <2>3. Text3b(text) /\ Progress3b
      BY <2>1, <2>2, Runs3b DEF Inv3b
  <2>4. ASSUME NEW pc \in 0..37, Proceeds(pc)
        PROVE  status' = "user" /\ Progress3b'
    <3>1. Len(text) = 38
        BY <2>3 DEF Text3b
    <3> QED
        BY <2>4, <3>1 DEF Proceeds, Goes
  <2>5. CASE Asking
    <3>1. Proceeds(PC + 1)
        BY <1>1, <2>3, <2>5, AskingStep
    <3>2. PC + 1 \in 0..37
        BY <2>5 DEF Asking
    <3> QED
        BY <2>4, <3>1, <3>2
  <2>6. CASE ~Asking
    <3>1. PICK n \in Nat : /\ Held(n)
                           /\ \/ \E i \in Nat :
                                  Measuring(n, i) \/ Comparing(n, i)
                              \/ Telling(n)
        BY <2>3, <2>6 DEF Progress3b
    <3>2. CASE Telling(n)
        BY <1>1, <2>3, <2>4, <3>1, <3>2, TellingStep
    <3>3. CASE ~Telling(n)
      <4>1. PICK i \in Nat : Measuring(n, i) \/ Comparing(n, i)
          BY <3>1, <3>3
      <4>2. \E pc \in 0..37 : Proceeds(pc)
          BY <1>1, <2>3, <3>1, <4>1, MeasuringStep, ComparingStep
      <4> QED
          BY <2>4, <4>2
    <3> QED
        BY <3>2, <3>3
  <2> QED
      BY <2>5, <2>6
<1>2. CASE status' = "threw"
    BY <1>2
<1>3. CASE UNCHANGED vars
  <2>1. UNCHANGED <<stray, status, FILENAME, PC, R, made, ex_mem, output, DATA_SEG>>
      BY <1>3 DEF vars
  <2>2. ~stray /\ source = lab3b
      BY <2>1 DEF source
  <2>3. ASSUME NEW n \in Nat
        PROVE  /\ Held(n)' <=> Held(n)
               /\ Telling(n)' <=> Telling(n)
               /\ Told(n)' <=> Told(n)
      BY <2>1 DEF Held, Telling, Told, Mirrored, Cell
  <2>4. ASSUME NEW n \in Nat, NEW i \in Nat
        PROVE  /\ Measuring(n, i)' <=> Measuring(n, i)
               /\ Comparing(n, i)' <=> Comparing(n, i)
      BY <2>1 DEF Measuring, Comparing, Matched, At, Cell
  <2>5. (Asking' <=> Asking) /\ (Latch3b' <=> Latch3b)
      BY <2>1 DEF Asking, Zeroed, Latch3b
  <2> QED
      BY <2>1, <2>2, <2>3, <2>4, <2>5 DEF Inv3b, Progress3b
<1> QED
    BY <1>1, <1>2, <1>3

\* The line held is the line typed.
LEMMA HeldIsTyped ==
    ASSUME IInv, lab3b \in SourceFile, source = lab3b, NEW n \in Nat, Held(n)
    PROVE  IsPalindrome(Typed) <=> Mirrored(n)
<1> DEFINE first == DataAddress("string_space") - DataBase
           end == CHOOSE k \in first..(DATA_SEG_LENGTH - 1) :
                     DATA_SEG[k] = 10 /\ \A j \in first..(k - 1) : DATA_SEG[j] # 10
<1>1. first = 2
    BY DataOf3b, AssemblerAssumption DEF DataAddress
<1>2. DATA_SEG_LENGTH \in Nat /\ n + 2 < DATA_SEG_LENGTH
    BY LineFits
<1>3. n + 2 \in 2..(DATA_SEG_LENGTH - 1) /\ DATA_SEG[n + 2] = 10
    BY <1>2 DEF Held
<1>4. ASSUME NEW j \in 2..((n + 2) - 1) PROVE DATA_SEG[j] # 10
  <2>1. j - 2 \in 0..(n - 1) /\ (j - 2) + 2 = j
      OBVIOUS
  <2> QED
      BY <2>1 DEF Held
<1>5. ASSUME NEW k \in 2..(DATA_SEG_LENGTH - 1), DATA_SEG[k] = 10,
             \A j \in 2..(k - 1) : DATA_SEG[j] # 10
      PROVE  k = n + 2
  <2>1. ~(k < n + 2)
      BY <1>4, <1>5
  <2>2. ~(n + 2 < k)
      BY <1>3, <1>5
  <2> QED
      BY <1>2, <2>1, <2>2
<1>6. end = n + 2
    BY <1>1, <1>3, <1>4, <1>5
<1>7. Typed = [k \in 1..n |-> Cell(k - 1)]
  <2>1. Typed = [k \in 1..(end - first) |-> DATA_SEG[first + k - 1]]
      BY DEF Typed
  <2> HIDE DEF first, end
  <2>2. end - first = n
      BY <1>1, <1>6
  <2>3. ASSUME NEW k \in 1..n PROVE DATA_SEG[first + k - 1] = Cell(k - 1)
    <3>1. first + k - 1 = (k - 1) + 2
        BY <1>1
    <3> QED
        BY <3>1 DEF Cell
  <2> QED
      BY <2>1, <2>2, <2>3
<1> HIDE DEF first, end
<1>8. Len(Typed) = n /\ DOMAIN Typed = 1..n
    BY <1>7
<1>9. Reverse(Typed) = [k \in 1..n |-> Cell(n - k)]
  <2>1. Reverse(Typed) = [k \in 1..n |-> Typed[(n - k) + 1]]
      BY <1>8 DEF Reverse
  <2>2. ASSUME NEW k \in 1..n PROVE Typed[(n - k) + 1] = Cell(n - k)
    <3>1. (n - k) + 1 \in 1..n /\ ((n - k) + 1) - 1 = n - k
        OBVIOUS
    <3> QED
        BY <1>7, <3>1
  <2> QED
      BY <2>1, <2>2
<1>10. IsPalindrome(Typed) <=> \A k \in 1..n : Cell(k - 1) = Cell(n - k)
    BY <1>7, <1>9 DEF IsPalindrome
<1>11. (\A k \in 1..n : Cell(k - 1) = Cell(n - k)) => Mirrored(n)
  <2> SUFFICES ASSUME \A k \in 1..n : Cell(k - 1) = Cell(n - k),
                      NEW j \in 0..(n - 1)
               PROVE  Cell(j) = Cell(n - 1 - j)
      BY DEF Mirrored
  <2>1. j + 1 \in 1..n /\ (j + 1) - 1 = j /\ n - (j + 1) = n - 1 - j
      OBVIOUS
  <2>2. Cell((j + 1) - 1) = Cell(n - (j + 1))
      BY <2>1
  <2> QED
      BY <2>1, <2>2
<1>12. Mirrored(n) => \A k \in 1..n : Cell(k - 1) = Cell(n - k)
  <2> SUFFICES ASSUME Mirrored(n), NEW k \in 1..n
               PROVE  Cell(k - 1) = Cell(n - k)
      OBVIOUS
  <2>1. k - 1 \in 0..(n - 1) /\ n - 1 - (k - 1) = n - k
      OBVIOUS
  <2>2. Cell(k - 1) = Cell(n - 1 - (k - 1))
      BY <2>1 DEF Mirrored
  <2> QED
      BY <2>1, <2>2
<1> QED
    BY <1>10, <1>11, <1>12

\* lab3c.s prints 8880 after 51 cycles; lab3b.s, if it comes to its end, says
\* of the line that was typed whether it is a palindrome (lab3b.s:2-3),
\* whatever its characters and its length, and whatever the unassigned
\* fields of the latches hold (pipeSim.cpp:292), unless one names a register
\* that the next instruction uses.
THEOREM LabsPrint == Spec => []LabsPrintTheirResults
<1>1. Init => IInv /\ Inv3b
    BY InitIInv, Init3b
<1>2. IInv /\ Inv3b /\ [Next]_vars => IInv' /\ Inv3b'
    BY StepIInv, Step3b
<1>3. IInv /\ Inv3b => PalindromeVerdict
  <2> SUFFICES ASSUME IInv, Inv3b, status = "halted", ~stray, source = lab3b
               PROVE  output = << <<"string",
                          DataAddress(IF IsPalindrome(Typed) THEN "is_palin_msg"
                                      ELSE "not_palin_msg")>> >>
      BY DEF PalindromeVerdict
  <2>1. PICK n \in Nat : Held(n) /\ Told(n)
      BY DEF Inv3b
  <2>2. lab3b \in SourceFile
      BY Runs3b
  <2>3. IsPalindrome(Typed) <=> Mirrored(n)
      BY <2>1, <2>2, HeldIsTyped
  <2>4. /\ DataAddress("is_palin_msg") = DataBase + 0
        /\ DataAddress("not_palin_msg") = DataBase + 1
      BY <2>2, DataOf3b DEF DataAddress
  <2>5. CASE Mirrored(n)
      BY <2>1, <2>3, <2>4, <2>5 DEF Told
  <2>6. CASE ~Mirrored(n)
      BY <2>1, <2>3, <2>4, <2>6 DEF Told
  <2> QED
      BY <2>5, <2>6
<1>4. Lab3cTotals /\ PalindromeVerdict => LabsPrintTheirResults
    BY DEF LabsPrintTheirResults
<1> QED
    BY <1>1, <1>2, <1>3, <1>4, Lab3cPrints, PTL DEF Spec
=============================================================================
