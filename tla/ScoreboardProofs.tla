-------------------------- MODULE ScoreboardProofs --------------------------
(***************************************************************************)
(* Proofs about Scoreboard: its types, what the boards show of a program,  *)
(* and that the test for hazards that is commented out would be enough.    *)
(* They rest on what the fields of a word are, and on one invariant: a     *)
(* unit that is not busy has not been touched, and the integer unit is the *)
(* only one that ever is.                                                  *)
(***************************************************************************)
EXTENDS Scoreboard, TLAPS

(***************************************************************************)
(* Fields of words                                                         *)
(***************************************************************************)

\* A field is a number of as many bits as it has.
LEMMA FieldsAreNumbers ==
    ASSUME NEW word
    PROVE  /\ getBits(word, 26, 31) \in 0..63
           /\ getBits(word, 21, 25) \in 0..31
           /\ getBits(word, 16, 20) \in 0..31
           /\ getBits(word, 11, 15) \in 0..31
<1>1. 2^0 = 1 /\ 2^1 = 2 /\ 2^2 = 4 /\ 2^3 = 8 /\ 2^4 = 16 /\ 2^5 = 32
  BY SMT
<1>2. getBits(word, 26, 31) \in 0..63
  BY <1>1, SMT DEF getBits
<1>3. getBits(word, 21, 25) \in 0..31
  BY <1>1, SMT DEF getBits
<1>4. getBits(word, 16, 20) \in 0..31
  BY <1>1, SMT DEF getBits
<1>5. getBits(word, 11, 15) \in 0..31
  BY <1>1, SMT DEF getBits
<1>6. QED
  BY <1>2, <1>3, <1>4, <1>5

\* The bits of a number of five bits, and no others.
LEMMA BitsOfSmallNumbers ==
    ASSUME NEW n \in 0..31
    PROVE  /\ Bits(n) \subseteq 0..4
           /\ (IF 0 \in Bits(n) THEN 1 ELSE 0) + (IF 1 \in Bits(n) THEN 2 ELSE 0)
                + (IF 2 \in Bits(n) THEN 4 ELSE 0)
                + (IF 3 \in Bits(n) THEN 8 ELSE 0)
                + (IF 4 \in Bits(n) THEN 16 ELSE 0) = n
<1>1. /\ 2^0 = 1 /\ 2^1 = 2 /\ 2^2 = 4 /\ 2^3 = 8 /\ 2^4 = 16 /\ 2^5 = 32
      /\ 2^6 = 64 /\ 2^7 = 128 /\ 2^8 = 256 /\ 2^9 = 512 /\ 2^10 = 1024
      /\ 2^11 = 2048 /\ 2^12 = 4096 /\ 2^13 = 8192 /\ 2^14 = 16384
      /\ 2^15 = 32768
  BY SMT
<1>2. Bits(n) \subseteq 0..4
  <2>1. /\ n \div 32 = 0 /\ n \div 64 = 0 /\ n \div 128 = 0
        /\ n \div 256 = 0 /\ n \div 512 = 0 /\ n \div 1024 = 0
        /\ n \div 2048 = 0 /\ n \div 4096 = 0 /\ n \div 8192 = 0
        /\ n \div 16384 = 0 /\ n \div 32768 = 0 /\ 0 % 2 = 0
    BY SMT
  <2>2. /\ 5 \notin Bits(n) /\ 6 \notin Bits(n) /\ 7 \notin Bits(n)
        /\ 8 \notin Bits(n) /\ 9 \notin Bits(n) /\ 10 \notin Bits(n)
        /\ 11 \notin Bits(n) /\ 12 \notin Bits(n) /\ 13 \notin Bits(n)
        /\ 14 \notin Bits(n) /\ 15 \notin Bits(n)
    BY <1>1, <2>1 DEF Bits
  <2>3. \A k \in Bits(n) : k \in 0..15
    BY Zenon DEF Bits
  <2>4. QED
    BY <2>2, <2>3
<1>3. /\ 0 \in Bits(n) <=> (n \div 1) % 2 = 1
      /\ 1 \in Bits(n) <=> (n \div 2) % 2 = 1
      /\ 2 \in Bits(n) <=> (n \div 4) % 2 = 1
      /\ 3 \in Bits(n) <=> (n \div 8) % 2 = 1
      /\ 4 \in Bits(n) <=> (n \div 16) % 2 = 1
  BY <1>1 DEF Bits
<1>4. QED
  BY <1>2, <1>3, SMT

\* A register's number has five bits.
Five == 0..31

\* The op-code and the next two fields of a word.
HasFields(word, op, first, second) ==
    /\ getBits(word, 26, 31) = OpCode[op]
    /\ getBits(word, 21, 25) = first
    /\ getBits(word, 16, 20) = second

\* What is put into the first three fields of a word is taken out again.
LEMMA FieldsComeBack ==
    ASSUME NEW op \in DOMAIN OpCode, NEW first \in Five, NEW second \in Five,
           NEW third \in Five, NEW imm
    PROVE  HasFields(Fields(op, first, second, third, imm), op, first, second)
<1> USE DEF Five
<1> DEFINE word == Fields(op, first, second, third, imm)
<1>1. OpCode[op] \in 0..31
  BY DEF OpCode
<1>2. /\ Bits(OpCode[op]) \subseteq 0..4 /\ Bits(first) \subseteq 0..4
      /\ Bits(second) \subseteq 0..4 /\ Bits(third) \subseteq 0..4
  BY <1>1, BitsOfSmallNumbers
<1>3. Bits(imm % ImmSize) \subseteq 0..15
  BY DEF Bits
<1>4. \A p \in 0..31 :
         p \in word <=> \/ p - 26 \in Bits(OpCode[op]) \/ p - 21 \in Bits(first)
                        \/ p - 16 \in Bits(second) \/ p - 11 \in Bits(third)
                        \/ p \in Bits(imm % ImmSize)
  <2>1. ASSUME NEW p \in 0..31, NEW B, NEW k \in Nat, B \subseteq 0..15
        PROVE  p \in Shift(B, k) <=> p - k \in B
    BY <2>1 DEF Shift
  <2> DEFINE a == Bits(OpCode[op])
             b1 == Bits(first)
             c == Bits(second)
             d == Bits(third)
             e == Bits(imm % ImmSize)
  <2>2. word = Shift(a, 26) \cup Shift(b1, 21) \cup Shift(c, 16)
                 \cup Shift(d, 11) \cup e
    BY DEF Fields
  <2>3. /\ a \subseteq 0..15 /\ b1 \subseteq 0..15 /\ c \subseteq 0..15
        /\ d \subseteq 0..15
    BY <1>2
  <2> HIDE DEF word, a, b1, c, d, e
  <2>4. \A p \in 0..31 :
           p \in word <=> \/ p - 26 \in a \/ p - 21 \in b1 \/ p - 16 \in c
                          \/ p - 11 \in d \/ p \in e
    BY <2>1, <2>2, <2>3
  <2>5. QED
    BY <2>4, Zenon DEF a, b1, c, d, e
<1>5. \A p \in 26..31 : p \in word <=> p - 26 \in Bits(OpCode[op])
  BY <1>2, <1>3, <1>4
<1>6. \A p \in 21..25 : p \in word <=> p - 21 \in Bits(first)
  BY <1>2, <1>3, <1>4
<1>7. \A p \in 16..20 : p \in word <=> p - 16 \in Bits(second)
  BY <1>2, <1>3, <1>4
<1>8. 2^0 = 1 /\ 2^1 = 2 /\ 2^2 = 4 /\ 2^3 = 8 /\ 2^4 = 16 /\ 2^5 = 32
  BY SMT
<1> HIDE DEF word
<1>9. getBits(word, 26, 31) = OpCode[op]
  <2>1. /\ 26 \in word <=> 0 \in Bits(OpCode[op])
        /\ 27 \in word <=> 1 \in Bits(OpCode[op])
        /\ 28 \in word <=> 2 \in Bits(OpCode[op])
        /\ 29 \in word <=> 3 \in Bits(OpCode[op])
        /\ 30 \in word <=> 4 \in Bits(OpCode[op])
        /\ 31 \notin word
    BY <1>2, <1>5
  <2>2. getBits(word, 26, 31) =
           (IF 26 \in word THEN 1 ELSE 0) + (IF 27 \in word THEN 2 ELSE 0)
             + (IF 28 \in word THEN 4 ELSE 0) + (IF 29 \in word THEN 8 ELSE 0)
             + (IF 30 \in word THEN 16 ELSE 0) + (IF 31 \in word THEN 32 ELSE 0)
    BY <1>8 DEF getBits
  <2>3. QED
    BY <1>1, <2>1, <2>2, BitsOfSmallNumbers
<1>10. getBits(word, 21, 25) = first
  <2>1. /\ 21 \in word <=> 0 \in Bits(first)
        /\ 22 \in word <=> 1 \in Bits(first)
        /\ 23 \in word <=> 2 \in Bits(first)
        /\ 24 \in word <=> 3 \in Bits(first)
        /\ 25 \in word <=> 4 \in Bits(first)
    BY <1>6
  <2>2. getBits(word, 21, 25) =
           (IF 21 \in word THEN 1 ELSE 0) + (IF 22 \in word THEN 2 ELSE 0)
             + (IF 23 \in word THEN 4 ELSE 0) + (IF 24 \in word THEN 8 ELSE 0)
             + (IF 25 \in word THEN 16 ELSE 0)
    BY <1>8 DEF getBits
  <2>3. QED
    BY <2>1, <2>2, BitsOfSmallNumbers
<1>11. getBits(word, 16, 20) = second
  <2>1. /\ 16 \in word <=> 0 \in Bits(second)
        /\ 17 \in word <=> 1 \in Bits(second)
        /\ 18 \in word <=> 2 \in Bits(second)
        /\ 19 \in word <=> 3 \in Bits(second)
        /\ 20 \in word <=> 4 \in Bits(second)
    BY <1>7
  <2>2. getBits(word, 16, 20) =
           (IF 16 \in word THEN 1 ELSE 0) + (IF 17 \in word THEN 2 ELSE 0)
             + (IF 18 \in word THEN 4 ELSE 0) + (IF 19 \in word THEN 8 ELSE 0)
             + (IF 20 \in word THEN 16 ELSE 0)
    BY <1>8 DEF getBits
  <2>3. QED
    BY <2>1, <2>2, BitsOfSmallNumbers
<1>12. QED
  BY <1>9, <1>10, <1>11 DEF word, HasFields

\* Each line that is written has one word, which is its encoding or, if it is
\* never assigned, one of junk.
LEMMA LinesHaveWords ==
    ASSUME NEW src \in Sources, NEW t \in Texts(src, Junk)
    PROVE  LET ls == Encoded_lines(src)
           IN  /\ ls \in Seq(Line)
               /\ t \in Seq(Word) /\ Len(t) = Len(ls)
               /\ DOMAIN t = 1..Len(ls) /\ DOMAIN ls = 1..Len(ls)
               /\ \A n \in 1..Len(ls) :
                     ~IsUnset(ls[n]) => t[n] = encode(src, ls[n])
<1> DEFINE ls == Encoded_lines(src)
           unset == {n \in DOMAIN ls : IsUnset(ls[n])}
           word == [n \in DOMAIN ls \ unset |-> encode(src, ls[n])]
<1>1. ls \in Seq(Line) /\ DOMAIN ls = 1..Len(ls) /\ Len(ls) \in Nat
  BY SourcesAssumption
<1>2. PICK w \in [unset -> Junk] :
         t = [n \in DOMAIN ls |-> IF n \in unset THEN w[n] ELSE word[n]]
  BY DEF Texts
<1>3. ASSUME NEW n \in DOMAIN ls, n \notin unset
      PROVE  t[n] = encode(src, ls[n]) /\ t[n] \in Word
  <2>1. t[n] = encode(src, ls[n])
    BY <1>2, <1>3
  <2>2. ls[n] \in Line /\ ls[n].kind # "odd" /\ ls[n].op # "ld"
    BY <1>1, <1>3 DEF IsUnset
  <2>3. ls[n].op \in DOMAIN OpCode
    BY <2>2 DEF Line, Odd
  <2>4. \A op, a, b1, c, d : Fields(op, a, b1, c, d) \in Word
    BY DEF Fields, Shift, Bits, Word
  <2>5. encode(src, ls[n]) \in Word
    BY <2>2, <2>3, <2>4, Zenon DEF encode, OpCode
  <2>6. QED
    BY <2>1, <2>5
<1>4. ASSUME NEW n \in DOMAIN ls
      PROVE  t[n] \in Word
  BY <1>2, <1>3, <1>4, ScoreboardAssumption
<1>5. t \in [1..Len(ls) -> Word]
  BY <1>1, <1>2, <1>4
<1>6. t \in Seq(Word) /\ Len(t) = Len(ls)
  BY <1>1, <1>5
<1>7. \A n \in 1..Len(ls) : ~IsUnset(ls[n]) => t[n] = encode(src, ls[n])
  BY <1>1, <1>3
<1>8. QED
  BY <1>1, <1>5, <1>6, <1>7

\* The fields of a plain line's word are what the line says about itself.
LEMMA PlainWords ==
    ASSUME NEW src, NEW l \in Line, PlainLine(l)
    PROVE  LET word == encode(src, l)
           IN  /\ l.op \in DOMAIN OpCode /\ l.op # "ld"
               /\ getBits(word, 26, 31) = OpCode[l.op]
               /\ getBits(word, 21, 25) =
                     (IF l.op \in {"add", "addi", "subi", "fadd", "fsub", "fmul"}
                      THEN l.rs ELSE FirstOf(l))
               /\ getBits(word, 16, 20) = DestOf(l)
<1>1. l.kind # "odd" /\ l.op # "ld" /\ l # Odd
  BY DEF PlainLine, IsUnset, Odd
<1>2. l.op \in DOMAIN OpCode
  BY <1>1 DEF Line
<1>3. l.rd \in Five /\ l.rs \in Five /\ l.rt \in Five /\ 0 \in Five
  BY ScoreboardAssumption DEF PlainLine, Five
<1> DEFINE Result(first, second) ==
              HasFields(encode(src, l), l.op, first, second)
<1>4. ASSUME NEW first \in Five, NEW second \in Five, NEW third \in Five,
             NEW imm, encode(src, l) = Fields(l.op, first, second, third, imm)
      PROVE  Result(first, second)
  BY <1>2, <1>4, FieldsComeBack, Zenon
<1> DEFINE off == text_symbol_table(src, l.label)
<1>5. CASE l.op = "add"
  <2>1. encode(src, l) = Fields(l.op, l.rs, l.rt, l.rd, 0)
    BY <1>5, Zenon DEF encode
  <2>2. Result(l.rs, l.rt)
    BY <1>3, <1>4, <2>1
  <2>3. QED
    BY <1>1, <1>2, <1>5, <2>2 DEF FirstOf, DestOf, HasFields
<1>6. CASE l.op \in {"addi", "subi"}
  <2>1. encode(src, l) = Fields(l.op, l.rs, l.rd, 0, l.imm)
    BY <1>6 DEF encode
  <2>2. Result(l.rs, l.rd)
    BY <1>3, <1>4, <2>1
  <2>3. QED
    BY <1>1, <1>2, <1>6, <2>2 DEF FirstOf, DestOf, HasFields
<1>7. CASE l.op = "b"
  <2>1. encode(src, l) = Fields(l.op, 0, 0, 0, off)
    BY <1>7 DEF encode
  <2>2. Result(0, 0)
    BY <1>3, <1>4, <2>1
  <2>3. QED
    BY <1>1, <1>2, <1>7, <2>2 DEF FirstOf, DestOf, HasFields
<1>8. CASE l.op = "beqz"
  <2>1. encode(src, l) = Fields(l.op, l.rd, 0, 0, off)
    BY <1>8 DEF encode
  <2>2. Result(l.rd, 0)
    BY <1>3, <1>4, <2>1
  <2>3. QED
    BY <1>1, <1>2, <1>8, <2>2 DEF FirstOf, DestOf, HasFields
<1>9. CASE l.op \in {"bge", "bne"}
  <2>1. encode(src, l) = Fields(l.op, l.rd, l.rt, 0, off)
    BY <1>9 DEF encode
  <2>2. Result(l.rd, l.rt)
    BY <1>3, <1>4, <2>1
  <2>3. QED
    BY <1>1, <1>2, <1>9, <2>2 DEF FirstOf, DestOf, HasFields
<1>10. CASE l.op = "la"
  <2>1. encode(src, l) = Fields(l.op, 0, l.rd, 0, data_symbol_table(src, l.label))
    BY <1>10 DEF encode
  <2>2. Result(0, l.rd)
    BY <1>3, <1>4, <2>1
  <2>3. QED
    BY <1>1, <1>2, <1>10, <2>2 DEF FirstOf, DestOf, HasFields
<1>11. CASE l.op = "lb"
  <2>1. encode(src, l) = Fields(l.op, 0, l.rd, l.rs, 0)
    BY <1>11 DEF encode
  <2>2. Result(0, l.rd)
    BY <1>3, <1>4, <2>1
  <2>3. QED
    BY <1>1, <1>2, <1>11, <2>2 DEF FirstOf, DestOf, HasFields
<1>12. CASE l.op = "li"
  <2>1. encode(src, l) = Fields(l.op, 0, l.rd, 0, l.imm)
    BY <1>12 DEF encode
  <2>2. Result(0, l.rd)
    BY <1>3, <1>4, <2>1
  <2>3. QED
    BY <1>1, <1>2, <1>12, <2>2 DEF FirstOf, DestOf, HasFields
<1>13. CASE l.op \in {"fadd", "fsub", "fmul"}
  <2>1. encode(src, l) = Fields(l.op, l.rs, l.rd, l.rt, 0)
    BY <1>13 DEF encode
  <2>2. Result(l.rs, l.rd)
    BY <1>3, <1>4, <2>1
  <2>3. QED
    BY <1>1, <1>2, <1>13, <2>2 DEF FirstOf, DestOf, HasFields
<1>14. CASE l.op \in {"syscall", "nop", "sd"}
  <2>1. encode(src, l) = Fields(l.op, 0, 0, 0, 0)
    BY <1>14 DEF encode
  <2>2. Result(0, 0)
    BY <1>3, <1>4, <2>1
  <2>3. QED
    BY <1>1, <1>2, <1>14, <2>2 DEF FirstOf, DestOf, HasFields
<1>15. QED
  BY <1>1, <1>2, <1>5, <1>6, <1>7, <1>8, <1>9, <1>10, <1>11, <1>12, <1>13,
     <1>14 DEF OpCode

(***************************************************************************)
(* Units                                                                   *)
(***************************************************************************)
Untouched == [x \in UnitFields |-> UNUSED]

\* BUSY is 1 or still UNUSED: no unit ever counts as free, and only the integer
\* unit, of which that is not asked, is ever used.
UnitsInv ==
    \A f \in Units :
        \/ fu_status[f]["BUSY"] = 1 /\ f = INTEGER_FU
        \/ fu_status[f] = Untouched

\* The op-codes of the words that the integer unit gets.
IntegerCodes == Codes({"b", "beqz", "bge", "bne", "li", "ld"})

\* A word is for the integer unit or for none.
LEMMA OnlyTheIntegerUnit ==
    ASSUME UnitsInv
    PROVE  get_fu = IF op_code \in IntegerCodes THEN INTEGER_FU ELSE UNUSED
<1>1. \A f \in Units : fu_status[f]["BUSY"] \in {1, UNUSED}
  BY DEF UnitsInv, Untouched, UnitFields
<1>2. ~IsFree(MULT1_FU) /\ ~IsFree(MULT2_FU) /\ ~IsFree(ADD_FU)
  BY <1>1 DEF IsFree, Units, INTEGER_FU, MULT1_FU, MULT2_FU, ADD_FU, DIVIDE_FU,
              UNUSED
<1>3. QED
  BY <1>2, Zenon DEF get_fu, IntegerCodes

\* The fields of the word at PC that go into a board.
LEMMA FieldsOfTheWord ==
    /\ op_code \in 0..63 /\ dest \in 0..31
    /\ getBits(instr, 21, 25) \in 0..31 /\ getBits(instr, 11, 15) \in 0..31
    /\ op_code \in IntegerCodes => op_code \in 0..31
    /\ dest \in Registers
<1>1. /\ op_code \in 0..63 /\ dest \in 0..31
      /\ getBits(instr, 21, 25) \in 0..31 /\ getBits(instr, 11, 15) \in 0..31
  <2> DEFINE w == instr
  <2> HIDE DEF w
  <2>1. /\ getBits(w, 26, 31) \in 0..63 /\ getBits(w, 21, 25) \in 0..31
        /\ getBits(w, 16, 20) \in 0..31 /\ getBits(w, 11, 15) \in 0..31
    BY FieldsAreNumbers
  <2>2. QED
    BY <2>1, Zenon DEF w, op_code, dest
<1>2. op_code \in IntegerCodes => op_code \in 0..31
  BY DEF IntegerCodes, Codes, OpCode
<1>3. dest \in Registers
  BY <1>1, ScoreboardAssumption DEF Registers, UNUSED
<1>4. QED
  BY <1>1, <1>2, <1>3

\* Fetching the operands changes no more than that they have been fetched, and
\* nothing of a unit that has not been touched.
LEMMA MaintainKeeps ==
    ASSUME NEW units \in [Units -> [UnitFields -> 0..31 \cup {UNUSED}]],
           NEW f \in Units
    PROVE  LET m == maintain_instr(units)
           IN  /\ m \in [Units -> [UnitFields -> 0..31 \cup {UNUSED}]]
               /\ \A x \in {"BUSY", "OP", "FI", "FJ"} : m[f][x] = units[f][x]
               /\ units[f]["FJ"] = UNUSED => m[f] = units[f]
<1> DEFINE Value == 0..31 \cup {UNUSED}
           m == maintain_instr(units)
           Fetched(g) == units[g]["FJ"] # UNUSED /\ units[g]["FK"] # UNUSED
           after(g) == IF Fetched(g)
                       THEN [units[g] EXCEPT !["RJ"] = 1, !["RK"] = 1]
                       ELSE units[g]
<1>1. /\ UnitFields = {"BUSY", "OP", "FI", "FJ", "FK", "QJ", "QK", "RJ", "RK"}
      /\ 1 \in Value
  BY DEF UnitFields
<1>2. CASE all_complete
  BY <1>1, <1>2, Zenon DEF maintain_instr
<1>3. CASE ~all_complete
  <2>1. m = [g \in Units |-> after(g)]
    BY <1>3, Zenon DEF maintain_instr
  <2>2. ASSUME NEW g \in Units
        PROVE  /\ after(g) \in [UnitFields -> Value]
               /\ \A x \in {"BUSY", "OP", "FI", "FJ"} : after(g)[x] = units[g][x]
               /\ units[g]["FJ"] = UNUSED => after(g) = units[g]
    <3> DEFINE unit == units[g]
    <3>1. unit \in [UnitFields -> Value]
      OBVIOUS
    <3> HIDE DEF unit, Value
    <3>2. [unit EXCEPT !["RJ"] = 1, !["RK"] = 1] \in [UnitFields -> Value]
      BY <1>1, <3>1
    <3>3. \A x \in {"BUSY", "OP", "FI", "FJ"} :
             [unit EXCEPT !["RJ"] = 1, !["RK"] = 1][x] = unit[x]
      BY <1>1, <3>1
    <3>4. QED
      BY <3>1, <3>2, <3>3, Zenon DEF unit
  <2> HIDE DEF after, m, Value
  <2>3. m \in [Units -> [UnitFields -> Value]] /\ m[f] = after(f)
    BY <2>1, <2>2, Zenon
  <2>4. QED
    BY <2>2, <2>3, Zenon DEF m, Value
<1>4. QED
  BY <1>2, <1>3

\* What a cycle does to the boards.
LEMMA CycleOnBoards ==
    ASSUME UnitsInv, Cycle, TypeOK
    PROVE  LET u == fu_status'[INTEGER_FU]
           IN  /\ fu_status' \in [Units -> [UnitFields -> 0..31 \cup {UNUSED}]]
               /\ \A f \in Units \ {INTEGER_FU} : fu_status'[f] = fu_status[f]
               /\ op_code \in IntegerCodes =>
                     /\ u["BUSY"] = 1 /\ u["OP"] = op_code /\ u["FI"] = dest
                     /\ u["FJ"] = getBits(instr, 21, 25)
               /\ op_code \notin IntegerCodes =>
                     \/ u = fu_status[INTEGER_FU]
                     \/ /\ fu_status[INTEGER_FU]["BUSY"] = 1
                        /\ \A x \in {"BUSY", "OP", "FI", "FJ"} :
                              u[x] = fu_status[INTEGER_FU][x]
               /\ res_status' \in [Registers -> Units \cup {UNUSED}]
               /\ \A d \in Registers \ {dest} : res_status'[d] = res_status[d]
               /\ res_status'[dest] =
                     IF op_code \in IntegerCodes THEN INTEGER_FU ELSE UNUSED
<1> DEFINE code == op_code
           to == dest
           j == getBits(instr, 21, 25)
           k == getBits(instr, 11, 15)
           Value == 0..31 \cup {UNUSED}
           units == Occupied
           u == fu_status'[INTEGER_FU]
<1>1. /\ to \in 0..31 /\ to \in Registers /\ j \in 0..31 /\ k \in 0..31
      /\ code \in IntegerCodes => code \in 0..31
  BY FieldsOfTheWord
<1>2. get_fu = IF code \in IntegerCodes THEN INTEGER_FU ELSE UNUSED
  BY OnlyTheIntegerUnit
<1>3. INTEGER_FU \in Units /\ INTEGER_FU # UNUSED
  BY DEF INTEGER_FU, DIVIDE_FU, Units, UNUSED
<1>4. fu_status \in [Units -> [UnitFields -> Value]]
  BY DEF TypeOK
<1>5. \A x \in {"BUSY", "OP", "FI", "FJ", "FK", "RJ", "RK"} : x \in UnitFields
  BY DEF UnitFields
<1> HIDE DEF code, to, j, k
<1>6. ASSUME code \in IntegerCodes
      PROVE  /\ units \in [Units -> [UnitFields -> Value]]
             /\ \A f \in Units \ {INTEGER_FU} : units[f] = fu_status[f]
             /\ units[INTEGER_FU]["BUSY"] = 1
             /\ units[INTEGER_FU]["OP"] = code
             /\ units[INTEGER_FU]["FI"] = to
             /\ units[INTEGER_FU]["FJ"] = j
  <2>1. units = [fu_status EXCEPT
                   ![INTEGER_FU]["BUSY"] = 1, ![INTEGER_FU]["OP"] = code,
                   ![INTEGER_FU]["FI"] = to, ![INTEGER_FU]["FJ"] = j,
                   ![INTEGER_FU]["FK"] = k]
    BY <1>2, <1>3, <1>6, Zenon DEF Occupied, code, to, j, k
  <2>2. /\ units \in [Units -> [UnitFields -> Value]]
        /\ \A f \in Units \ {INTEGER_FU} : units[f] = fu_status[f]
        /\ units[INTEGER_FU]["BUSY"] = 1
        /\ units[INTEGER_FU]["OP"] = code
        /\ units[INTEGER_FU]["FI"] = to
        /\ units[INTEGER_FU]["FJ"] = j
    BY <1>1, <1>3, <1>4, <1>5, <1>6, <2>1
  <2>3. QED
    BY <2>2
<1>7. ASSUME code \notin IntegerCodes
      PROVE  units = fu_status
  BY <1>2, <1>4, <1>7, Zenon DEF Occupied
<1>8. fu_status' = maintain_instr(units)
  BY DEF Cycle
<1>9. units \in [Units -> [UnitFields -> Value]]
  BY <1>4, <1>6, <1>7
<1> HIDE DEF units
<1>10. /\ fu_status' \in [Units -> [UnitFields -> Value]]
       /\ \A f \in Units :
             /\ \A x \in {"BUSY", "OP", "FI", "FJ"} :
                   fu_status'[f][x] = units[f][x]
             /\ units[f]["FJ"] = UNUSED => fu_status'[f] = units[f]
  BY <1>3, <1>8, <1>9, MaintainKeeps, Zenon
<1>11. \A f \in Units \ {INTEGER_FU} : fu_status'[f] = fu_status[f]
  <2>1. SUFFICES ASSUME NEW f \in Units, f # INTEGER_FU
                 PROVE  fu_status'[f] = fu_status[f]
    BY Zenon
  <2>2. units[f] = fu_status[f]
    BY <1>6, <1>7, <2>1
  <2>3. units[f]["FJ"] = UNUSED
    BY <1>5, <2>1, <2>2 DEF UnitsInv, Untouched
  <2>4. QED
    BY <1>10, <2>2, <2>3
<1>12. code \in IntegerCodes =>
          /\ u["BUSY"] = 1 /\ u["OP"] = code /\ u["FI"] = to /\ u["FJ"] = j
  BY <1>3, <1>6, <1>10, Zenon
<1>13. code \notin IntegerCodes =>
          \/ u = fu_status[INTEGER_FU]
          \/ /\ fu_status[INTEGER_FU]["BUSY"] = 1
             /\ \A x \in {"BUSY", "OP", "FI", "FJ"} :
                   u[x] = fu_status[INTEGER_FU][x]
  <2>1. SUFFICES ASSUME code \notin IntegerCodes
                 PROVE  \/ u = fu_status[INTEGER_FU]
                        \/ /\ fu_status[INTEGER_FU]["BUSY"] = 1
                           /\ \A x \in {"BUSY", "OP", "FI", "FJ"} :
                                 u[x] = fu_status[INTEGER_FU][x]
    BY Zenon
  <2>2. CASE fu_status[INTEGER_FU] = Untouched
    BY <1>3, <1>5, <1>7, <1>10, <2>1, <2>2 DEF Untouched
  <2>3. CASE fu_status[INTEGER_FU]["BUSY"] = 1
    BY <1>3, <1>7, <1>10, <2>1, <2>3, Zenon
  <2>4. QED
    BY <1>3, <2>2, <2>3, Zenon DEF UnitsInv
<1>14. res_status' = [res_status EXCEPT ![to] =
                        IF code \in IntegerCodes THEN INTEGER_FU ELSE UNUSED]
  BY <1>2, Zenon DEF Cycle, Reserved, to
<1>15. res_status \in [Registers -> Units \cup {UNUSED}]
  BY DEF TypeOK
<1>16. /\ res_status' \in [Registers -> Units \cup {UNUSED}]
       /\ \A d \in Registers \ {to} : res_status'[d] = res_status[d]
       /\ res_status'[to] =
             IF code \in IntegerCodes THEN INTEGER_FU ELSE UNUSED
  BY <1>1, <1>3, <1>14, <1>15
<1>17. QED
  BY <1>10, <1>11, <1>12, <1>13, <1>16, Zenon DEF code, to, j, Value

(***************************************************************************)
(* Types                                                                   *)
(***************************************************************************)

\* The text segment holds the words of the file, and while the program runs
\* a word is issued in each cycle.
ProgramInv ==
    /\ file \in Sources /\ text \in Texts(file, Junk)
    /\ status = "running" =>
          cycleCount = PC + 1 /\ Len(text) <= TEXT_SEG_LENGTH

TypeInv == TypeOK /\ UnitsInv /\ ProgramInv

\* In the beginning nothing has been touched.
LEMMA TypesInit == Init => TypeInv
<1> SUFFICES ASSUME Init
             PROVE  TypeInv
  OBVIOUS
<1>1. file \in Sources /\ text \in Texts(file, Junk)
  BY DEF Init
<1>2. /\ text \in Seq(Word) /\ Len(text) \in Nat
      /\ DOMAIN text = DOMAIN Encoded_lines(file)
  BY <1>1, LinesHaveWords
<1>3. /\ instr_status \in [0..(TEXT_SEG_LENGTH - 1) -> Nat]
      /\ fu_status \in [Units -> [UnitFields -> 0..31 \cup {UNUSED}]]
      /\ res_status \in [Registers -> Units \cup {UNUSED}]
  BY DEF Init
<1>4. /\ PC \in 0..TEXT_SEG_LENGTH
      /\ status = "running" => PC <= Len(text)
      /\ cycleCount \in 1..(Len(text) + 2)
      /\ status \in {"running", "halted", "threw"} /\ checked \in BOOLEAN
      /\ status = "running" =>
            cycleCount = PC + 1 /\ Len(text) <= TEXT_SEG_LENGTH
  BY <1>2, ScoreboardAssumption DEF Init
<1>5. UnitsInv
  BY DEF Init, UnitsInv, Untouched
<1>6. QED
  BY <1>1, <1>2, <1>3, <1>4, <1>5 DEF TypeInv, TypeOK, ProgramInv

\* Every step keeps the types.
LEMMA TypesStep == TypeInv /\ [Next]_vars => TypeInv'
<1> SUFFICES ASSUME TypeInv, [Next]_vars
             PROVE  TypeInv'
  OBVIOUS
<1>1. TypeOK /\ UnitsInv /\ ProgramInv
  BY DEF TypeInv
<1>2. Len(text) \in Nat
  BY <1>1 DEF TypeOK
<1>3. CASE Cycle
  <2>1. /\ text' = text /\ file' = file /\ status = "running"
        /\ PC < TEXT_SEG_LENGTH /\ cycleCount' = cycleCount + 1
        /\ instr_status' = [instr_status EXCEPT ![PC] = cycleCount]
        /\ \/ PC = Len(text) /\ status' = "halted" /\ PC' = PC
           \/ PC # Len(text) /\ status' = "running" /\ PC' = PC + 1
    BY <1>1, <1>3 DEF Cycle, HaltOrGoOn
  <2>2. /\ text \in Seq(Word) /\ DOMAIN text = DOMAIN Encoded_lines(file)
        /\ PC \in 0..TEXT_SEG_LENGTH /\ PC <= Len(text)
        /\ cycleCount = PC + 1 /\ Len(text) <= TEXT_SEG_LENGTH
        /\ instr_status \in [0..(TEXT_SEG_LENGTH - 1) -> Nat]
    BY <1>1, <2>1 DEF TypeOK, ProgramInv
  <2>3. /\ PC' \in 0..TEXT_SEG_LENGTH
        /\ status' = "running" => PC' <= Len(text)
        /\ cycleCount' \in 1..(Len(text) + 2)
        /\ status' = "running" => cycleCount' = PC' + 1
        /\ cycleCount \in Nat
    BY <1>2, <2>1, <2>2, ScoreboardAssumption
  <2>4. instr_status' \in [0..(TEXT_SEG_LENGTH - 1) -> Nat]
    BY <2>1, <2>2, <2>3
  <2>5. checked' \in BOOLEAN
    BY <1>3, Zenon DEF Cycle
  <2>6. /\ fu_status' \in [Units -> [UnitFields -> 0..31 \cup {UNUSED}]]
        /\ res_status' \in [Registers -> Units \cup {UNUSED}]
    BY <1>1, <1>3, CycleOnBoards, Zenon
  <2>7. TypeOK'
    BY <2>1, <2>2, <2>3, <2>4, <2>5, <2>6 DEF TypeOK
  <2>8. UnitsInv'
    <3>1. \A f \in Units \ {INTEGER_FU} : fu_status'[f] = Untouched
      BY <1>1, <1>3, CycleOnBoards, Zenon DEF UnitsInv
    <3>2. \/ fu_status'[INTEGER_FU]["BUSY"] = 1
          \/ fu_status'[INTEGER_FU] = fu_status[INTEGER_FU]
      BY <1>1, <1>3, CycleOnBoards, Zenon
    <3>3. QED
      BY <1>1, <3>1, <3>2, Zenon DEF UnitsInv
  <2>9. ProgramInv'
    BY <1>1, <2>1, <2>2, <2>3 DEF ProgramInv
  <2>10. QED
    BY <2>7, <2>8, <2>9, Zenon DEF TypeInv
<1>4. CASE Throw
  BY <1>1, <1>4 DEF Throw, TypeInv, TypeOK, UnitsInv, ProgramInv
<1>5. CASE UNCHANGED vars
  BY <1>1, <1>5 DEF vars, TypeInv, TypeOK, UnitsInv, ProgramInv
<1>6. QED
  BY <1>3, <1>4, <1>5 DEF Next

\* Of any program in which each line that is written is odd or an instruction,
\* the boards, the counters and the text segment keep their types: no field
\* of a word is cut, no register number is one that the boards do not have,
\* PC stays in the text segment.
THEOREM TypesAreKept == FairSpec => []TypeOK
<1>1. TypeInv => TypeOK
  BY DEF TypeInv
<1>2. QED
  BY <1>1, TypesInit, TypesStep, PTL DEF FairSpec

(***************************************************************************)
(* The test for hazards                                                    *)
(***************************************************************************)

\* A cycle whose word passes the test reserves a register that no unit has
\* for its destination, for a unit that has none.
LEMMA TestStep ==
    ASSUME TypeInv, TheTestSuffices, Cycle
    PROVE  TheTestSuffices'
<1>1. TypeOK /\ UnitsInv
  BY DEF TypeInv
<1> SUFFICES ASSUME checked', NEW f \in Units, NEW d \in Registers
             PROVE  res_status'[d] = f <=> fu_status'[f]["FI"] = d
  BY Zenon DEF TheTestSuffices
<1>2. checked /\ can_issue_instr
  BY DEF Cycle
<1>3. \A g \in Units, e \in Registers :
         res_status[e] = g <=> fu_status[g]["FI"] = e
  BY <1>2, Zenon DEF TheTestSuffices
<1>4. (\A g \in Units : fu_status[g]["FI"] # dest) /\ res_status[dest] = UNUSED
  BY <1>2, Zenon DEF can_issue_instr, check_for_waw, check_for_str_haz
<1>5. /\ INTEGER_FU \in Units /\ UNUSED \notin Units /\ UNUSED \notin Registers
      /\ dest \in Registers
  BY FieldsOfTheWord, ScoreboardAssumption
     DEF INTEGER_FU, DIVIDE_FU, Units, UNUSED, Registers
<1> DEFINE r(e) == res_status'[e]
           u(g) == fu_status'[g]["FI"]
<1>6. /\ \A g \in Units \ {INTEGER_FU} : u(g) = fu_status[g]["FI"]
      /\ \A e \in Registers \ {dest} : r(e) = res_status[e]
  BY <1>1, CycleOnBoards, Zenon
<1> DEFINE was(g) == fu_status[g]["FI"]
           old(e) == res_status[e]
<1>7. (old(d) = f <=> was(f) = d) /\ (old(d) = INTEGER_FU <=> was(INTEGER_FU) = d)
  BY <1>3, <1>5, Zenon
<1>8. (d # dest => r(d) = old(d)) /\ (f # INTEGER_FU => u(f) = was(f))
  BY <1>6, Zenon
<1>9. was(f) # dest /\ old(dest) = UNUSED
  BY <1>4, Zenon
<1>10. CASE op_code \in IntegerCodes
  <2>1. u(INTEGER_FU) = dest /\ r(dest) = INTEGER_FU
    BY <1>1, <1>10, CycleOnBoards, Zenon
  <2>2. fu_status[INTEGER_FU] = Untouched
    <3>1. fu_status[INTEGER_FU]["BUSY"] # 1
      BY <1>1, <1>2, <1>5, <1>10, OnlyTheIntegerUnit, Zenon DEF can_issue_instr
    <3>2. QED
      BY <1>1, <1>5, <3>1, Zenon DEF UnitsInv
  <2>3. was(INTEGER_FU) = UNUSED
    BY <2>2 DEF Untouched, UnitFields
  <2> HIDE DEF r, u, was, old
  <2>4. r(d) = f <=> u(f) = d
    BY <1>5, <1>7, <1>8, <1>9, <2>1, <2>3
  <2>5. QED
    BY <2>4, Zenon DEF r, u
<1>11. CASE op_code \notin IntegerCodes
  <2>1. r(dest) = UNUSED
    BY <1>1, <1>11, CycleOnBoards, Zenon
  <2>2. u(INTEGER_FU) = was(INTEGER_FU)
    BY <1>1, <1>11, CycleOnBoards, Zenon
  <2> HIDE DEF r, u, was, old
  <2>3. r(d) = f <=> u(f) = d
    BY <1>5, <1>7, <1>8, <1>9, <2>1, <2>2
  <2>4. QED
    BY <2>3, Zenon DEF r, u
<1>12. QED
  BY <1>10, <1>11

\* The test that is commented out would be enough: as long as it would have
\* let every word pass, a register is reserved for a unit just when the unit
\* has it for its destination, for programs of any length and any words.
THEOREM TestWouldSuffice == FairSpec => []TheTestSuffices
<1>1. Init => TheTestSuffices
  <2>1. UNUSED \notin Units /\ UNUSED \notin Registers
    BY ScoreboardAssumption DEF INTEGER_FU, DIVIDE_FU, Units, UNUSED, Registers
  <2>2. QED
    BY <2>1 DEF Init, TheTestSuffices, UnitFields
<1>2. TypeInv /\ TheTestSuffices /\ [Next]_vars => TheTestSuffices'
  <2> SUFFICES ASSUME TypeInv, TheTestSuffices, [Next]_vars
               PROVE  TheTestSuffices'
    OBVIOUS
  <2>1. CASE Throw
    BY <2>1, Zenon DEF Throw, TheTestSuffices
  <2>2. CASE UNCHANGED vars
    BY <2>2, Zenon DEF vars, TheTestSuffices
  <2>3. QED
    BY <2>1, <2>2, TestStep, Zenon DEF Next
<1>3. QED
  BY <1>1, <1>2, TypesInit, TypesStep, PTL DEF FairSpec

(***************************************************************************)
(* What the boards show                                                    *)
(***************************************************************************)

\* The last of the lines up to a line is that line.
LEMMA LastOfMore ==
    ASSUME NEW n \in Nat, NEW S, \A m \in S : m \in Nat /\ m < n
    PROVE  Max(S \cup {n}) = n
<1>1. n \in S \cup {n} /\ \A m \in S \cup {n} : n >= m
  OBVIOUS
<1>2. \A x \in S \cup {n} : (\A m \in S \cup {n} : x >= m) => x = n
  OBVIOUS
<1>3. QED
  BY <1>1, <1>2, Zenon DEF Max

\* A plain line, when its word is issued: its unit, register and operand.
LEMMA IssuedLine ==
    ASSUME TypeInv, Cycle, status' = "running",
           \A n \in DOMAIN lines : PlainLine(lines[n])
    PROVE  LET l == lines[PC + 1]
           IN  /\ PC \in Nat /\ PC + 1 \in DOMAIN lines /\ PC' = PC + 1
               /\ DOMAIN lines \subseteq Nat /\ file' = file
               /\ l.op \in DOMAIN OpCode
               /\ op_code = OpCode[l.op] /\ dest = DestOf(l)
               /\ ForInteger(l) <=> op_code \in IntegerCodes
               /\ ForInteger(l) => getBits(instr, 21, 25) = FirstOf(l)
<1> DEFINE n == PC + 1
           l == lines[n]
<1>1. TypeOK /\ file \in Sources /\ text \in Texts(file, Junk)
  BY DEF TypeInv, ProgramInv
<1>2. /\ PC \in Nat /\ file' = file /\ PC' = PC + 1 /\ PC # Len(text)
      /\ PC <= Len(text)
  BY <1>1 DEF Cycle, HaltOrGoOn, TypeOK
<1>3. /\ lines \in Seq(Line) /\ Len(text) = Len(lines) /\ Len(lines) \in Nat
      /\ DOMAIN lines = 1..Len(lines)
      /\ \A m \in 1..Len(lines) :
            ~IsUnset(lines[m]) => text[m] = encode(file, lines[m])
  BY <1>1, LinesHaveWords, SourcesAssumption DEF lines
<1>4. n \in 1..Len(lines) /\ n \in DOMAIN lines /\ PC < Len(text)
  BY <1>2, <1>3
<1>5. l \in Line /\ PlainLine(l) /\ ~IsUnset(l) /\ DOMAIN lines \subseteq Nat
  <2>1. l \in Line /\ DOMAIN lines \subseteq Nat
    BY <1>3, <1>4
  <2>2. PlainLine(l)
    BY <1>4, Zenon
  <2>3. QED
    BY <2>1, <2>2, Zenon DEF PlainLine
<1>6. instr = encode(file, l)
  BY <1>3, <1>4, <1>5, Zenon DEF instr
<1> HIDE DEF l
<1>7. /\ l.op \in DOMAIN OpCode /\ l.op # "ld"
      /\ getBits(instr, 26, 31) = OpCode[l.op]
      /\ getBits(instr, 16, 20) = DestOf(l)
      /\ l.op \notin {"add", "addi", "subi", "fadd", "fsub", "fmul"} =>
            getBits(instr, 21, 25) = FirstOf(l)
  BY <1>5, <1>6, PlainWords, Zenon
<1>8. op_code = OpCode[l.op] /\ dest = DestOf(l)
  BY <1>7, Zenon DEF op_code, dest
<1>9. ForInteger(l) <=> op_code \in IntegerCodes
  <2>1. \A o, p \in DOMAIN OpCode : OpCode[o] = OpCode[p] => o = p
    BY DEF OpCode
  <2>2. {"b", "beqz", "bge", "bne", "li", "ld"} \subseteq DOMAIN OpCode
    BY DEF OpCode
  <2> HIDE DEF OpCode
  <2>3. QED
    BY <1>7, <1>8, <2>1, <2>2 DEF ForInteger, IntegerCodes, Codes
<1>10. ForInteger(l) => getBits(instr, 21, 25) = FirstOf(l)
  BY <1>7 DEF ForInteger
<1>11. QED
  BY <1>2, <1>4, <1>5, <1>7, <1>8, <1>9, <1>10, Zenon DEF l

\* A cycle adds its line to the lines that the boards show.
LEMMA BoardsStep ==
    ASSUME TypeInv, BoardsShowTheLines, Cycle
    PROVE  BoardsShowTheLines'
<1> SUFFICES ASSUME status' = "running", \A k \in DOMAIN lines : PlainLine(lines[k])
             PROVE  BoardsShowTheLines'
  <2>1. lines' = lines
    BY DEF Cycle, lines
  <2>2. QED
    BY <2>1, Zenon DEF BoardsShowTheLines
<1> DEFINE n == PC + 1
           ls == lines
           l == ls[n]
           upto(k) == {m \in DOMAIN ls : m <= k}
           integers(k) == {m \in upto(k) : ForInteger(ls[m])}
           last(k, d) == {m \in upto(k) : DestOf(ls[m]) = d}
           u == fu_status[INTEGER_FU]
           v == fu_status'[INTEGER_FU]
           Shown(w, k) ==
              /\ integers(k) = {} => w["OP"] = UNUSED
              /\ integers(k) # {} =>
                    LET i == ls[Max(integers(k))]
                    IN  <<w["OP"], w["FI"], w["FJ"]>> =
                           <<OpCode[i.op], DestOf(i), FirstOf(i)>>
           Kept(r, k, d) ==
              r = INTEGER_FU <=>
                 last(k, d) # {} /\ ForInteger(ls[Max(last(k, d))])
<1>1. /\ PC \in Nat /\ n \in DOMAIN ls /\ PC' = n
      /\ DOMAIN ls \subseteq Nat /\ file' = file
      /\ l.op \in DOMAIN OpCode
      /\ op_code = OpCode[l.op] /\ dest = DestOf(l)
      /\ ForInteger(l) <=> op_code \in IntegerCodes
      /\ ForInteger(l) => getBits(instr, 21, 25) = FirstOf(l)
  BY IssuedLine, Zenon
<1>2. TypeOK /\ UnitsInv /\ status = "running"
  BY DEF TypeInv, Cycle
<1>3. /\ \A f \in Units \ {INTEGER_FU} : fu_status[f]["OP"] = UNUSED
      /\ Shown(u, PC)
      /\ \A d \in Registers : Kept(res_status[d], PC, d)
  BY <1>2, Zenon DEF BoardsShowTheLines, Issued
<1>4. lines' = ls
  BY <1>1, Zenon DEF lines
<1>5. SUFFICES /\ \A f \in Units \ {INTEGER_FU} : fu_status'[f]["OP"] = UNUSED
               /\ Shown(v, n)
               /\ \A d \in Registers : Kept(res_status'[d], n, d)
  BY <1>1, <1>4, Zenon DEF BoardsShowTheLines, Issued
<1>6. \A f \in Units \ {INTEGER_FU} : fu_status'[f]["OP"] = UNUSED
  BY <1>2, <1>3, CycleOnBoards, Zenon
<1>7. /\ upto(n) = upto(PC) \cup {n}
      /\ \A m \in upto(PC) : m \in Nat /\ m < n
  BY <1>1
<1>8. n \in Nat
  BY <1>1
<1> HIDE DEF n, ls, l, upto, u, v
<1>9. Shown(v, n)
  <2>1. CASE ForInteger(l)
    <3>1. integers(n) = integers(PC) \cup {n}
      BY <1>7, <2>1, Zenon DEF l
    <3>2. Max(integers(n)) = n /\ integers(n) # {}
      <4>1. \A m \in integers(PC) : m \in Nat /\ m < n
        BY <1>7
      <4>2. QED
        BY <1>8, <3>1, <4>1, LastOfMore, Zenon
    <3>3. v["OP"] = op_code /\ v["FI"] = dest /\ v["FJ"] = getBits(instr, 21, 25)
      BY <1>1, <1>2, <2>1, CycleOnBoards, Zenon DEF v
    <3>4. QED
      BY <1>1, <2>1, <3>2, <3>3, Zenon DEF l
  <2>2. CASE ~ForInteger(l)
    <3>1. integers(n) = integers(PC)
      BY <1>7, <2>2, Zenon DEF l
    <3>2. v["OP"] = u["OP"] /\ v["FI"] = u["FI"] /\ v["FJ"] = u["FJ"]
      BY <1>1, <1>2, <2>2, CycleOnBoards, Zenon DEF u, v
    <3>3. QED
      BY <1>3, <3>1, <3>2, Zenon
  <2>3. QED
    BY <2>1, <2>2
<1>10. ASSUME NEW d \in Registers
       PROVE  Kept(res_status'[d], n, d)
  <2>1. CASE d = dest
    <3>1. last(n, d) = last(PC, d) \cup {n}
      BY <1>1, <1>7, <2>1, Zenon DEF l
    <3>2. Max(last(n, d)) = n /\ last(n, d) # {}
      <4>1. \A m \in last(PC, d) : m \in Nat /\ m < n
        BY <1>7
      <4>2. QED
        BY <1>8, <3>1, <4>1, LastOfMore, Zenon
    <3>3. res_status'[d] = IF op_code \in IntegerCodes THEN INTEGER_FU ELSE UNUSED
      BY <1>2, <2>1, CycleOnBoards, Zenon
    <3>4. UNUSED # INTEGER_FU
      BY DEF UNUSED, INTEGER_FU
    <3>5. QED
      BY <1>1, <3>2, <3>3, <3>4, Zenon DEF l
  <2>2. CASE d # dest
    <3>1. last(n, d) = last(PC, d)
      BY <1>1, <1>7, <2>2, Zenon DEF l
    <3>2. res_status'[d] = res_status[d]
      BY <1>2, <2>2, CycleOnBoards, Zenon
    <3>3. QED
      BY <1>3, <3>1, <3>2, Zenon
  <2>3. QED
    BY <2>1, <2>2
<1>11. QED
  BY <1>6, <1>9, <1>10, Zenon

\* While a program without floating point registers runs, the boards show of
\* it what its own lines say: the integer unit has what the last of its lines
\* says, no other unit is ever used, and a register is reserved for it just
\* when the last line with that destination was for it.
THEOREM BoardsAreRight == FairSpec => []BoardsShowTheLines
<1>1. Init /\ TypeInv => BoardsShowTheLines
  <2> SUFFICES ASSUME Init, TypeInv
               PROVE  BoardsShowTheLines
    OBVIOUS
  <2>1. Issued = {}
    <3>1. DOMAIN lines = DOMAIN text /\ text \in Seq(Word) /\ PC = 0
      BY DEF TypeInv, TypeOK, Init, lines
    <3>2. QED
      BY <3>1 DEF Issued
  <2>2. INTEGER_FU \in Units /\ INTEGER_FU # UNUSED
    BY DEF INTEGER_FU, DIVIDE_FU, Units, UNUSED
  <2>3. /\ \A f \in Units : fu_status[f]["OP"] = UNUSED
        /\ \A d \in Registers : res_status[d] = UNUSED
    BY DEF Init, UnitFields
  <2>4. QED
    BY <2>1, <2>2, <2>3, Zenon DEF BoardsShowTheLines
<1>2. TypeInv /\ BoardsShowTheLines /\ [Next]_vars => BoardsShowTheLines'
  <2> SUFFICES ASSUME TypeInv, BoardsShowTheLines, [Next]_vars
               PROVE  BoardsShowTheLines'
    OBVIOUS
  <2>1. CASE Throw
    <3>1. status' # "running"
      BY <2>1 DEF Throw
    <3>2. QED
      BY <3>1, Zenon DEF BoardsShowTheLines
  <2>2. CASE UNCHANGED vars
    <3>1. /\ lines' = lines /\ Issued' = Issued /\ status' = status
          /\ fu_status' = fu_status /\ res_status' = res_status
      BY <2>2, Zenon DEF vars, lines, Issued
    <3>2. QED
      BY <3>1, Zenon DEF BoardsShowTheLines
  <2>3. QED
    BY <2>1, <2>2, BoardsStep, Zenon DEF Next
<1>3. QED
  BY <1>1, <1>2, TypesInit, TypesStep, PTL DEF FairSpec
=============================================================================
