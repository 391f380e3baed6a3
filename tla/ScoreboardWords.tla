-------------------------- MODULE ScoreboardWords --------------------------
(***************************************************************************)
(* comp4300/project4/src/mem/mem.cpp and util/util.cpp: how a line becomes *)
(* an instruction word and how its fields are taken out again.  The passes *)
(* over the file are those of project3, with a few more instructions.      *)
(*                                                                         *)
(* A word is the set of the positions of its bits that are 1, so | is      *)
(* union.  A field is not cut to its five bits when it is put in: the      *)
(* number of a floating point register is 32 or more, and its upper bit    *)
(* becomes the lowest of the next field, or of the op-code.                *)
(***************************************************************************)
EXTENDS Assembler

CONSTANT R_LENGTH     \* the number of registers, 32

Word == SUBSET (0..31)

\* The word of a number below 2^16.
Bits(n) == {k \in 0..15 : (n \div 2^k) % 2 = 1}

Shift(word, k) == {p + k : p \in word} \cap 0..31

\* A field has at most six bits.
getBits(word, min, max) ==
    LET bit(k) == IF min + k \in word \cap min..max THEN 2^k ELSE 0
    IN  bit(0) + bit(1) + bit(2) + bit(3) + bit(4) + bit(5)

(***************************************************************************)
(* Lines that project3 does not have                                       *)
(***************************************************************************)

\* parse_reg() of a floating point register.
F(n) == R_LENGTH + n

fadd(rd, rs, rt) == Instr("fadd", rd, rs, rt, 0, "")
fsub(rd, rs, rt) == Instr("fsub", rd, rs, rt, 0, "")
fmul(rd, rs, rt) == Instr("fmul", rd, rs, rt, 0, "")
ld(rd) == Instr("ld", rd, 0, 0, 0, "")
sd(rd) == Instr("sd", rd, 0, 0, 0, "")

(***************************************************************************)
(* Words                                                                   *)
(***************************************************************************)
OpCode ==
    [addi |-> 1, b |-> 2, beqz |-> 3, bge |-> 4, bne |-> 5, la |-> 6, lb |-> 7,
     li |-> 8, subi |-> 9, syscall |-> 10, nop |-> 11, add |-> 12, ld |-> 13,
     sd |-> 14, fadd |-> 15, fsub |-> 16, fmul |-> 17]

\* What is written to the text segment: an instruction or an odd line.
Line ==
    {Odd} \cup
    [kind : {"instr"}, op : DOMAIN OpCode, rd : Nat, rs : Nat, rt : Nat,
     imm : Int, label : STRING]

\* An op-code, three fields of five bits, and one of 16.
Fields(op, first, second, third, imm) ==
    Shift(Bits(OpCode[op]), 26) \cup Shift(Bits(first), 21)
        \cup Shift(Bits(second), 16) \cup Shift(Bits(third), 11)
        \cup Bits(imm % ImmSize)

\* Only ADD has its destination in the third field.
encode(src, l) ==
    LET offset_of == text_symbol_table(src, l.label)
    IN  CASE l.op = "add" -> Fields(l.op, l.rs, l.rt, l.rd, 0)
          [] l.op \in {"addi", "subi"} -> Fields(l.op, l.rs, l.rd, 0, l.imm)
          [] l.op = "b" -> Fields(l.op, 0, 0, 0, offset_of)
          [] l.op = "beqz" -> Fields(l.op, l.rd, 0, 0, offset_of)
          [] l.op \in {"bge", "bne"} -> Fields(l.op, l.rd, l.rt, 0, offset_of)
          [] l.op = "la" ->
                Fields(l.op, 0, l.rd, 0, data_symbol_table(src, l.label))
          [] l.op = "lb" -> Fields(l.op, 0, l.rd, l.rs, 0)
          [] l.op = "li" -> Fields(l.op, 0, l.rd, 0, l.imm)
          [] l.op \in {"fadd", "fsub", "fmul"} ->
                Fields(l.op, l.rs, l.rd, l.rt, 0)
          [] l.op \in {"syscall", "nop", "sd"} -> Fields(l.op, 0, 0, 0, 0)

\* The lines that are written to the text segment; an instruction in the
\* data segment is not.
Encoded_lines(src) ==
    LET encoded == Encoded(src)
        places == SelectSeq([p \in DOMAIN src |-> p], LAMBDA p : p \in encoded)
    IN  [n \in DOMAIN places |-> src[places[n]]]

\* The word of an LD, or of an odd line, is never assigned.
IsUnset(l) == l.kind = "odd" \/ l.op = "ld"

\* What the text segment may hold, where a word that is not assigned is one
\* of junk.
Texts(src, junk) ==
    LET lines == Encoded_lines(src)
        unset == {n \in DOMAIN lines : IsUnset(lines[n])}
        word == [n \in DOMAIN lines \ unset |-> encode(src, lines[n])]
    IN  {[n \in DOMAIN lines |-> IF n \in unset THEN w[n] ELSE word[n]] :
            w \in [unset -> junk]}
=============================================================================
