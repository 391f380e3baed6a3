------------------------------- MODULE GprSim -------------------------------
(***************************************************************************)
(* comp4300/project2/src/gprSim.cpp: a machine with general purpose        *)
(* registers that counts instructions and cycles.  An action is one round  *)
(* of the loop of execute(), init() is done in the initial state.          *)
(*                                                                         *)
(* Left out: a line read by system call 8 into the text segment.           *)
(***************************************************************************)
EXTENDS GprAssembler

CONSTANTS
    WordSize,     \* the number of values of a word, 2^32
    R_LENGTH,     \* the number of registers, 32
    TextBase,     \* TEXT_SEG_BASE
    DATA_SEG_LENGTH,
    Sources,      \* the assembler files, numbered
    Lines,        \* what may be typed to each: sequences of bytes
    Junk,         \* what may be found where the simulator keeps nothing
    MaxIC         \* bound on IC

Word == 0..(WordSize - 1)
Register == 0..(R_LENGTH - 1)

\* Faulty: a system call costs nothing.
instruction_totals_Free ==
    [addi |-> 6, b |-> 4, beqz |-> 5, bge |-> 5, bne |-> 5, la |-> 5,
     lb |-> 6, li |-> 3, subi |-> 6, syscall |-> 0]

\* init_instr_table(): the cycles of an instruction.
instruction_totals ==
    [addi |-> 6, b |-> 4, beqz |-> 5, bge |-> 5, bne |-> 5, la |-> 5,
     lb |-> 6, li |-> 3, subi |-> 6, syscall |-> 8]

Instruction == [kind : {"instr"}, op : DOMAIN instruction_totals,
                rd : Register, rs : Register, rt : Register, imm : Word,
                label : STRING]

\* The text segment of each file, up to TEXT_TOP.
TEXT_SEG == [f \in DOMAIN Sources |-> init(Sources[f])]

\* The addresses of its messages.
Messages == [f \in DOMAIN Sources |-> string_table(Sources[f])]

ASSUME GprSimAssumption ==
    /\ WordSize \in Nat /\ WordSize > 256 /\ ImmSize <= WordSize
    /\ R_LENGTH = 32
    /\ TextBase \in Nat /\ TextBase < DataBase
    /\ DATA_SEG_LENGTH \in Nat
    /\ \A f \in DOMAIN Sources :
          /\ Sources[f] \in Seq(FileLine)
          /\ TEXT_SEG[f] \in Seq(Instruction)
    /\ \A f \in DOMAIN Sources : Lines[f] \subseteq Seq(0..255)
    /\ Junk \subseteq Word
    /\ MaxIC \in Nat

VARIABLES
    FILENAME,     \* the file named on the command line
    input,        \* the line that is typed
    PC,           \* the index of an instruction: PC - TEXT_SEG_BASE
    R,            \* the registers
    DATA_SEG,     \* the data segment
    cycles, IC,
    status,       \* "running", "complete", or "threw" after an exception
    output        \* the messages printed, named by their addresses

vars == <<FILENAME, input, PC, R, DATA_SEG, cycles, IC, status, output>>

source == Sources[FILENAME]
text == TEXT_SEG[FILENAME]

\* Two cells behind the segment are free: in a build by the Makefile the next
\* object is text_symbol_table, a map, whose first eight bytes are not used.
Cells == 0..(DATA_SEG_LENGTH + 1)

TypeOK ==
    /\ FILENAME \in DOMAIN Sources
    /\ input \in Lines[FILENAME]
    /\ PC \in Nat
    /\ status = "running" <=> PC < Len(text) /\ status # "threw"
    /\ R \in [Register -> Word]
    /\ DATA_SEG \in [Cells -> Word]
    /\ IC \in 0..MaxIC
    /\ cycles \in (3 * IC)..(8 * IC)
    /\ status \in {"running", "complete", "threw"}

Reached(pc) == IF pc < Len(text) THEN "running" ELSE "complete"

Init ==
    /\ FILENAME \in DOMAIN Sources
    /\ input \in Lines[FILENAME]
    /\ PC = 0
    /\ R = [r \in Register |-> 0]
    /\ DATA_SEG = [k \in Cells |-> 0]
    /\ cycles = 0
    /\ IC = 0
    /\ status = Reached(0)
    /\ output = <<>>

(***************************************************************************)
(* The parts of an iteration                                               *)
(***************************************************************************)
ir == text[PC + 1]

Executes(ops) ==
    /\ status = "running"
    /\ IC < MaxIC
    /\ ir.op \in ops
    /\ cycles' = cycles + instruction_totals[ir.op]
    /\ IC' = IC + 1
    /\ UNCHANGED <<FILENAME, input>>

\* The loop goes on at pc, or ends.
Continue(pc) == PC' = pc /\ status' = Reached(pc)

Throw == status' = "threw" /\ UNCHANGED PC

Signed(w) == IF 2 * w < WordSize THEN w ELSE w - WordSize

\* The words a read may return, none when it throws.  Of an instruction LB
\* sees the immediate, or a part of it.  Far beyond the segments, where there
\* is no test either, a read may also crash; here it finds Junk.
read(address) ==
    IF address - DataBase \in Cells THEN {DATA_SEG[address - DataBase]}
    ELSE IF address - TextBase + 1 \in DOMAIN text
         THEN {text[address - TextBase + 1].imm}
    ELSE IF address >= TextBase THEN Junk ELSE {}

\* A write may go one cell beyond the segment.
Writable(address) == address - DataBase \in 0..DATA_SEG_LENGTH

(***************************************************************************)
(* The instructions                                                        *)
(***************************************************************************)
Result ==
    CASE ir.op = "addi" -> (R[ir.rs] + ir.imm) % WordSize
      [] ir.op = "subi" -> (R[ir.rs] - ir.imm) % WordSize
      [] OTHER -> ir.imm

Arith ==
    /\ Executes({"addi", "subi", "li", "la"})
    /\ R' = [R EXCEPT ![ir.rd] = Result]
    /\ Continue(PC + 1)
    /\ UNCHANGED <<DATA_SEG, output>>

\* A cell holds one byte, and may hold more.
Load ==
    /\ Executes({"lb"})
    /\ \/ /\ \E w \in read(R[ir.rs]) : R' = [R EXCEPT ![ir.rd] = w % 256]
          /\ Continue(PC + 1)
       \/ read(R[ir.rs]) = {} /\ Throw /\ UNCHANGED R
    /\ UNCHANGED <<DATA_SEG, output>>

\* BEQZ looks at a byte, BGE and BNE at words.
Taken ==
    \/ ir.op = "b"
    \/ ir.op = "beqz" /\ R[ir.rd] % 256 = 0
    \/ ir.op = "bge" /\ Signed(R[ir.rd]) >= Signed(R[ir.rt])
    \/ ir.op = "bne" /\ R[ir.rd] # R[ir.rt]

Branch ==
    /\ Executes(Branches)
    /\ Continue(IF Taken THEN ir.imm ELSE PC + 1)
    /\ UNCHANGED <<R, DATA_SEG, output>>

\* Faulty: the buffer is not overrun.
Kept_Strict(line, size) ==
    IF Len(line) <= size THEN line ELSE SubSeq(line, 1, size)

\* System call 8 keeps the bytes up to the one with i > R[31], as words with
\* a sign, and puts a newline behind them.
Kept(line, size) ==
    IF Len(line) <= size + 1 THEN line ELSE SubSeq(line, 1, size + 1)

Char(byte) == IF byte < 128 THEN byte ELSE WordSize - 256 + byte

\* A run reads one line: a second call would get the same one again.
ReadString ==
    LET kept == Kept(input, Signed(R[31]))
        chars == [n \in 1..Len(kept) |-> Char(kept[n])] \o <<10>>
        first == R[30] - DataBase
    IN  /\ Executes({"syscall"})
        /\ R[29] = 8
        /\ DATA_SEG' = [k \in Cells |->
              IF k - first + 1 \in DOMAIN chars /\ Writable(k + DataBase)
              THEN chars[k - first + 1] ELSE DATA_SEG[k]]
        /\ IF Writable(R[30]) /\ Writable(R[30] + Len(chars) - 1)
           THEN Continue(PC + 1) ELSE Throw
        /\ UNCHANGED <<R, output>>

\* The message that an address stands for, 0 for the empty one.
Message(address) ==
    IF address \in Messages[FILENAME] THEN address ELSE 0

\* System call 4 prints; any other number than these two does nothing.
Syscall ==
    /\ Executes({"syscall"})
    /\ R[29] # 8
    /\ output' = IF R[29] = 4 THEN Append(output, Message(R[30])) ELSE output
    /\ Continue(PC + 1)
    /\ UNCHANGED <<R, DATA_SEG>>

Next == Arith \/ Load \/ Branch \/ ReadString \/ Syscall

Spec == Init /\ [][Next]_vars

\* execute() is a loop that nothing else holds up.
FairSpec == Spec /\ WF_vars(Next)

(***************************************************************************)
(* Properties                                                              *)
(***************************************************************************)

\* A branch goes to the instruction below its label, for the source at hand.
LabelsAreResolved == IC = 0 => LabelsAgree(source)

\* The pairs of equal letters from both ends, up to the first unequal one.
Pairs(line) ==
    LET unequal == {n \in 1..(Len(line) \div 2) :
                       line[n] # line[Len(line) + 1 - n]}
    IN  IF unequal = {} THEN Len(line) \div 2 ELSE Min(unequal) - 1

\* What a line of these bytes costs palindrome.s, counted by hand: four
\* instructions to measure each byte and the newline, seven to compare a
\* pair, and what comes before, between and after.
Totals(line) ==
    LET measured == Len(line) + 1
        pairs == Pairs(line)
        mismatch == line # Reverse(line)
    IN  << 15 + 4 * measured + 7 * pairs + (IF mismatch THEN 4 ELSE 1),
           77 + 21 * measured + 38 * pairs + (IF mismatch THEN 22 ELSE 5) >>

\* The size of the buffer, in the fourth line of palindrome.s.
bufferSize == IF source[4].kind = "datum" THEN source[4].size ELSE 0
RunsPalindrome == source = palindrome(bufferSize)

Reported ==
    LET line == SubSeq(input, 1, Min({Len(input), bufferSize + 1}))
        buffer == data_symbol(source, "string_space") - DataBase
        message == IF line = Reverse(line) THEN "is_palin_msg"
                   ELSE "not_palin_msg"
    IN  IF buffer + Len(line) <= DATA_SEG_LENGTH
        THEN /\ status = "complete"
             /\ output = <<data_symbol(source, message)>>
             /\ <<IC, cycles>> = Totals(line)
        ELSE status = "threw"

\* palindrome.s ends, with the message for the line, or for one byte more of
\* it than its buffer holds (palindrome.s:2-4), and with the totals that this
\* costs (gprSim.cpp:253-266), be it empty or as long as the data segment
\* allows; a longer one ends the simulator by an exception (mem.cpp:441).
PalindromeIsReported == RunsPalindrome => <>[]Reported
=============================================================================
