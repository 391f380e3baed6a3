---------------------------- MODULE GprSimProofs ----------------------------
(***************************************************************************)
(* Proofs about GprSim, for every set of files, whatever is typed and      *)
(* whatever is found where the simulator keeps nothing.                    *)
(***************************************************************************)
EXTENDS GprSim, WellFoundedInduction, FiniteSetTheorems, SequenceTheorems,
        TLAPS

(***************************************************************************)
(* Finite sets of numbers                                                  *)
(***************************************************************************)

\* A set of numbers that is not empty has a least element.
LEMMA LeastElement ==
    ASSUME NEW T, T \subseteq Nat, T # {}
    PROVE  \E n \in T : \A m \in T : n <= m
<1>1. PICK n \in T : \A m \in T : <<m, n>> \notin OpToRel(<, Nat)
    BY NatLessThanWellFounded, WFMin, Zenon
<1>2. \A m \in T : ~(m < n)
    BY <1>1, Zenon DEF OpToRel
<1> QED
    BY <1>2

\* And one with a bound has a greatest.
LEMMA GreatestElement ==
    ASSUME NEW N \in Nat, NEW T, T \subseteq 1..N, T # {}
    PROVE  \E n \in T : \A m \in T : n >= m
<1> DEFINE U == {N - t : t \in T}
<1>1. U \subseteq Nat /\ U # {}
  <2>1. \A t \in T : N - t \in Nat
      OBVIOUS
  <2>2. PICK t \in T : TRUE
      OBVIOUS
  <2>3. N - t \in U
      OBVIOUS
  <2> QED
      BY <2>1, <2>3
<1>2. PICK u \in U : \A v \in U : u <= v
    BY <1>1, LeastElement
<1>3. PICK n \in T : u = N - n
    BY <1>2
<1>4. ASSUME NEW m \in T PROVE n >= m
  <2>1. N - n <= N - m
      BY <1>2, <1>3
  <2> QED
      BY <2>1
<1> QED
    BY <1>3, <1>4

(***************************************************************************)
(* The two passes of the assembler                                         *)
(***************************************************************************)

\* The lines of a source down to line p.
LEMMA Beginning ==
    ASSUME NEW src \in Seq(FileLine), NEW p \in DOMAIN src
    PROVE  LET part == SubSeq(src, 1, p)
           IN  /\ p \in Nat /\ p >= 1 /\ p <= Len(src)
               /\ DOMAIN src = 1..Len(src)
               /\ DOMAIN part = 1..p
               /\ \A q \in 1..p : part[q] = src[q]
<1>1. DOMAIN src = 1..Len(src) /\ Len(src) \in Nat
    OBVIOUS
<1>2. p \in 1..Len(src)
    BY <1>1
<1> QED
    BY <1>1, <1>2

\* They belong to the same segments there.
LEMMA BeginningSegments ==
    ASSUME NEW src \in Seq(FileLine), NEW p \in DOMAIN src,
           NEW kinds, NEW segment
    PROVE  LinesOf(SubSeq(src, 1, p), kinds, segment) =
               {q \in LinesOf(src, kinds, segment) : q <= p}
<1> DEFINE part == SubSeq(src, 1, p)
<1>1. /\ p \in Nat /\ p >= 1 /\ p <= Len(src) /\ DOMAIN src = 1..Len(src)
      /\ DOMAIN part = 1..p
      /\ \A q \in 1..p : part[q] = src[q]
    BY Beginning
<1> HIDE DEF part
<1>2. ASSUME NEW q \in 1..p
      PROVE  Segment(part, q) = Segment(src, q)
  <2>1. {r \in Directives(part) : r < q} = {r \in Directives(src) : r < q}
      BY <1>1 DEF Directives
  <2>2. ASSUME {r \in Directives(src) : r < q} # {}
        PROVE  part[Max({r \in Directives(src) : r < q})] =
                   src[Max({r \in Directives(src) : r < q})]
    <3> DEFINE above == {r \in Directives(src) : r < q}
    <3>1. ASSUME NEW m \in above, \A r \in above : m >= r
          PROVE  part[Max(above)] = src[Max(above)]
      <4>1. Max(above) \in above
          BY <3>1 DEF Max
      <4>2. Max(above) \in 1..p
          BY <4>1, <1>1 DEF Directives
      <4> QED
          BY <4>2, <1>1
    <3>2. above \subseteq 1..p /\ above # {}
        BY <2>2, <1>1 DEF Directives
    <3>3. \E m \in above : \A r \in above : m >= r
        BY <3>2, <1>1, GreatestElement
    <3> QED
        BY <3>1, <3>3
  <2> QED
      BY <2>1, <2>2 DEF Segment
<1>3. \A q \in 1..p : part[q].kind \in kinds <=> src[q].kind \in kinds
    BY <1>1
<1>4. LinesOf(part, kinds, segment)
          = {q \in 1..p : src[q].kind \in kinds /\ Segment(src, q) = segment}
    BY <1>1, <1>2, <1>3 DEF LinesOf
<1>5. {q \in LinesOf(src, kinds, segment) : q <= p}
          = {q \in 1..p : src[q].kind \in kinds /\ Segment(src, q) = segment}
    BY <1>1 DEF LinesOf
<1> QED
    BY <1>4, <1>5 DEF part

\* The lines that a pass takes are finitely many.
LEMMA LinesAreFinite ==
    ASSUME NEW src \in Seq(FileLine), NEW kinds, NEW segment
    PROVE  LET lines == LinesOf(src, kinds, segment)
           IN  /\ lines \subseteq 1..Len(src) /\ Len(src) \in Nat
               /\ IsFiniteSet(lines) /\ Cardinality(lines) \in Nat
<1>1. DOMAIN src = 1..Len(src) /\ Len(src) \in Nat
    OBVIOUS
<1>2. LinesOf(src, kinds, segment) \subseteq 1..Len(src)
    BY <1>1 DEF LinesOf
<1>3. IsFiniteSet(1..Len(src))
    BY <1>1, FS_Interval
<1>4. IsFiniteSet(LinesOf(src, kinds, segment))
    BY <1>2, <1>3, FS_Subset
<1> QED
    BY <1>1, <1>2, <1>4, FS_CardinalityType

\* The last line of a source that bears a name is the one that counts.
LEMMA LastDefinition ==
    ASSUME NEW src \in Seq(FileLine), NEW lines, lines \subseteq DOMAIN src,
           NEW p \in lines,
           \A q \in lines : q > p => src[q].name # src[p].name
    PROVE  /\ Defining(src, lines, src[p].name) # {}
           /\ Max(Defining(src, lines, src[p].name)) = p
<1> DEFINE S == Defining(src, lines, src[p].name)
<1>1. p \in S /\ p \in Nat /\ \A q \in S : q \in Nat
    BY Beginning DEF Defining
<1>2. \A q \in S : p >= q
    BY <1>1, Beginning DEF Defining
<1> HIDE DEF S
<1>3. \A m \in S : (\A q \in S : m >= q) => m = p
    BY <1>1, <1>2
<1>4. Max(S) = p
    BY <1>1, <1>2, <1>3 DEF Max
<1> QED
    BY <1>1, <1>4 DEF S

\* Each word of the text segment is that of one line.
LEMMA TextLength ==
    ASSUME NEW src \in Seq(FileLine)
    PROVE  Len(init(src)) = Cardinality(LinesEncoded(src))
<1> DEFINE N == Cardinality(LinesEncoded(src))
           S == {init(src)[n] : n \in 1..N}
<1>1. N \in Nat
    BY LinesAreFinite DEF LinesEncoded
<1>2. DOMAIN init(src) = 1..N
    BY DEF init
<1>3. init(src) \in [1..N -> S]
    BY <1>2 DEF init
<1> HIDE DEF N, S
<1>4. init(src) \in Seq(S)
    BY <1>1, <1>3, SeqDef
<1>5. DOMAIN init(src) = 1..Len(init(src)) /\ Len(init(src)) \in Nat
    BY <1>4, LenProperties
<1>6. Len(init(src)) = N
    BY <1>1, <1>2, <1>5
<1> QED
    BY <1>1, <1>6 DEF N

\* The first pass sees a file with CR LF throughout as it is.
LEMMA IndexedAsItIs ==
    ASSUME NEW src \in Seq(FileLine),
           \A p \in DOMAIN src : src[p].kind \notin {"text_lf", "data_lf"}
    PROVE  Indexed(src) = src
<1>1. DOMAIN Indexed(src) = DOMAIN src
    BY DEF Indexed
<1>2. \A p \in DOMAIN src : Indexed(src)[p] = src[p]
    BY DEF Indexed
<1>3. src = [p \in DOMAIN src |-> src[p]]
    OBVIOUS
<1>4. Indexed(src) = [p \in DOMAIN src |-> Indexed(src)[p]]
    BY DEF Indexed
<1> QED
    BY <1>1, <1>2, <1>3, <1>4

\* The two passes agree (mem.cpp:490 and 592) about every file with CR LF:
\* the symbol of a label is the number of words written for the lines above
\* it, whatever segments and lines without an instruction there are.
THEOREM PassesAgree ==
    ASSUME NEW src \in Seq(FileLine)
    PROVE  LabelsAgree(src)
<1> SUFFICES ASSUME \A p \in DOMAIN src :
                        src[p].kind \notin {"empty", "text_lf", "data_lf"},
                    NEW p \in LinesOf(src, {"label"}, "text"),
                    ~\E q \in (p + 1)..Len(src) :
                        src[q].kind = "label" /\ src[q].name = src[p].name
             PROVE  text_symbol(src, src[p].name) =
                        Len(init(SubSeq(src, 1, p)))
    BY DEF LabelsAgree
<1> DEFINE part == SubSeq(src, 1, p)
           labels == LinesOf(src, {"label"}, "text")
<1>1. p \in DOMAIN src /\ src[p].kind = "label"
    BY DEF LinesOf
<1>2. /\ p \in Nat /\ p >= 1 /\ p <= Len(src)
      /\ DOMAIN src = 1..Len(src) /\ Len(src) \in Nat
    BY <1>1, Beginning
<1>3. part \in Seq(FileLine)
  <2>1. \A q \in 1..p : src[q] \in FileLine
      BY <1>2
  <2> QED
      BY <1>2, <2>1
<1>4. Indexed(src) = src
    BY IndexedAsItIs
<1>5. labels \subseteq DOMAIN src /\ \A q \in labels : src[q].kind = "label"
    BY DEF LinesOf
<1>6. \A q \in labels : q > p => src[q].name # src[p].name
    BY <1>2, <1>5
<1>7. text_symbol(src, src[p].name) =
          Cardinality({q \in LinesCounted(src) : q < p})
  <2> HIDE DEF labels
  <2>1. /\ Defining(src, labels, src[p].name) # {}
        /\ Max(Defining(src, labels, src[p].name)) = p
      BY <1>5, <1>6, LastDefinition DEF labels
  <2> QED
      BY <1>4, <2>1 DEF text_symbol, labels
<1>8. LinesEncoded(part) = {q \in LinesEncoded(src) : q <= p}
    BY <1>1, BeginningSegments DEF LinesEncoded
<1>9. LinesEncoded(src) = LinesCounted(src)
    BY <1>4 DEF LinesEncoded, LinesCounted, LinesOf
<1>10. p \notin LinesCounted(src) /\ LinesCounted(src) \subseteq Nat
    BY <1>1, <1>2, <1>4 DEF LinesCounted, LinesOf
<1>11. LinesEncoded(part) = {q \in LinesCounted(src) : q < p}
    BY <1>2, <1>8, <1>9, <1>10
<1>12. Len(init(part)) = Cardinality(LinesEncoded(part))
    BY <1>3, TextLength
<1> QED
    BY <1>7, <1>11, <1>12

(***************************************************************************)
(* Words                                                                   *)
(***************************************************************************)

\* The remainder that wraps a result is a word.
LEMMA RemainderIsWord ==
    ASSUME NEW n \in Int PROVE n % WordSize \in Word
<1>1. WordSize \in Int /\ WordSize > 0
    BY GprSimAssumption
<1>2. n % WordSize \in Int /\ 0 <= n % WordSize /\ n % WordSize < WordSize
    BY <1>1
<1> QED
    BY <1>1, <1>2 DEF Word

\* A word is a number, and a byte of it is a word.
LEMMA WordIsInt ==
    ASSUME NEW w \in Word
    PROVE  w \in Nat /\ w \in Int /\ w % 256 \in Word
<1>1. WordSize \in Int /\ WordSize > 256
    BY GprSimAssumption
<1>2. w \in Nat
    BY <1>1 DEF Word
<1>3. w % 256 \in 0..255
    BY <1>2
<1> QED
    BY <1>1, <1>2, <1>3 DEF Word

\* A byte that is stored, and the newline, are words.
LEMMA CharIsWord ==
    /\ \A byte \in 0..255 : Char(byte) \in Word
    /\ 0 \in Word /\ 10 \in Word
<1>1. WordSize \in Int /\ WordSize > 256
    BY GprSimAssumption
<1> QED
    BY <1>1 DEF Word, Char

\* A word as a number with a sign.
LEMMA SignedIsInt == ASSUME NEW w \in Word PROVE Signed(w) \in Int
<1>1. WordSize \in Int
    BY GprSimAssumption
<1> QED
    BY <1>1, WordIsInt DEF Signed

(***************************************************************************)
(* An iteration                                                            *)
(***************************************************************************)

\* A machine that runs has an instruction to run.
LEMMA InstructionType ==
    ASSUME TypeOK, status = "running"
    PROVE  /\ text \in Seq(Instruction)
           /\ ir \in Instruction
           /\ ir.rd \in Register /\ ir.rs \in Register /\ ir.rt \in Register
           /\ ir.imm \in Word /\ ir.imm \in Nat
           /\ PC + 1 \in Nat
<1>1. text \in Seq(Instruction)
    BY GprSimAssumption DEF TypeOK, text
<1>2. PC \in Nat /\ PC < Len(text) /\ Len(text) \in Nat
    BY <1>1 DEF TypeOK
<1>3. PC + 1 \in DOMAIN text
    BY <1>1, <1>2
<1>4. ir \in Instruction
    BY <1>1, <1>3 DEF ir
<1> QED
    BY <1>1, <1>2, <1>4, WordIsInt DEF Instruction

\* Every instruction takes from three to eight cycles.
LEMMA CyclesOfInstruction ==
    \A op \in DOMAIN instruction_totals : instruction_totals[op] \in 3..8
BY DEF instruction_totals

\* What the loop counts stays within the bounds.
LEMMA TotalsType ==
    ASSUME TypeOK, NEW ops, Executes(ops)
    PROVE  /\ IC' \in 0..MaxIC
           /\ cycles' \in (3 * IC')..(8 * IC')
           /\ FILENAME' \in DOMAIN Sources /\ input' \in Lines[FILENAME']
           /\ text' = text /\ status = "running"
<1>1. status = "running" /\ IC < MaxIC /\ IC' = IC + 1
      /\ cycles' = cycles + instruction_totals[ir.op]
      /\ FILENAME' = FILENAME /\ input' = input
    BY DEF Executes
<1>2. MaxIC \in Nat
    BY GprSimAssumption
<1>3. IC \in Nat /\ cycles \in Int /\ 3 * IC <= cycles /\ cycles <= 8 * IC
    BY <1>2 DEF TypeOK
<1>4. instruction_totals[ir.op] \in 3..8
  <2>1. ir.op \in DOMAIN instruction_totals
      BY <1>1, InstructionType DEF Instruction
  <2> QED
      BY <2>1, CyclesOfInstruction
<1> DEFINE n == instruction_totals[ir.op]
<1> HIDE DEF n
<1>5. n \in Int /\ 3 <= n /\ n <= 8 /\ cycles' = cycles + n
    BY <1>1, <1>4 DEF n
<1>6. cycles' \in (3 * IC')..(8 * IC')
    BY <1>1, <1>3, <1>5
<1> QED
    BY <1>1, <1>2, <1>3, <1>6 DEF TypeOK, text

\* The part of the type invariant about what an iteration computes.
Contents ==
    /\ R \in [Register -> Word]
    /\ DATA_SEG \in [Cells -> Word]

\* The loop goes on or ends, and the invariant holds.
LEMMA ContinueType ==
    ASSUME TypeOK, NEW ops, Executes(ops), NEW pc \in Nat, Continue(pc),
           Contents'
    PROVE  TypeOK'
<1>1. text' = text
    BY TotalsType
<1>2. PC' \in Nat
    BY DEF Continue
<1>3. /\ status' = "running" <=> PC' < Len(text') /\ status' # "threw"
      /\ status' \in {"running", "complete", "threw"}
    BY <1>1 DEF Continue, Reached
<1> QED
    BY <1>2, <1>3, TotalsType DEF TypeOK, Contents

\* An exception stops the machine where it is.
LEMMA ThrowType ==
    ASSUME TypeOK, NEW ops, Executes(ops), Throw, Contents'
    PROVE  TypeOK'
<1>1. PC' \in Nat /\ status' = "threw"
    BY DEF Throw, TypeOK
<1> QED
    BY <1>1, TotalsType DEF TypeOK, Contents

\* ADDI, SUBI, LI and LA keep the type invariant.
LEMMA ArithType == ASSUME TypeOK, Arith PROVE TypeOK'
<1>1. Executes({"addi", "subi", "li", "la"}) /\ status = "running"
    BY DEF Arith, Executes
<1>2. /\ ir.rd \in Register /\ ir.rs \in Register
      /\ ir.imm \in Word /\ ir.imm \in Int /\ PC + 1 \in Nat
    BY <1>1, InstructionType
<1>3. R[ir.rs] \in Int
    BY <1>2, WordIsInt DEF TypeOK
<1>4. Result \in Word
  <2>1. R[ir.rs] + ir.imm \in Int /\ R[ir.rs] - ir.imm \in Int
      BY <1>2, <1>3
  <2>2. /\ (R[ir.rs] + ir.imm) % WordSize \in Word
        /\ (R[ir.rs] - ir.imm) % WordSize \in Word
      BY <2>1, RemainderIsWord
  <2> QED
      BY <1>2, <2>2 DEF Result
<1>5. Contents'
    BY <1>2, <1>4 DEF Arith, Contents, TypeOK
<1> QED
    BY <1>1, <1>2, <1>5, ContinueType DEF Arith

\* Whatever is read is a word.
LEMMA ReadType ==
    ASSUME TypeOK, status = "running", NEW address \in Word
    PROVE  read(address) \subseteq Word
<1>1. Junk \subseteq Word
    BY GprSimAssumption
<1>2. ASSUME address - DataBase \in Cells
      PROVE  DATA_SEG[address - DataBase] \in Word
    BY <1>2 DEF TypeOK
<1>3. ASSUME address - TextBase + 1 \in DOMAIN text
      PROVE  text[address - TextBase + 1].imm \in Word
  <2> DEFINE n == address - TextBase + 1
  <2> HIDE DEF n
  <2>1. n \in DOMAIN text
      BY <1>3 DEF n
  <2>2. text[n] \in Instruction
      BY <2>1, InstructionType
  <2> QED
      BY <2>2 DEF Instruction, n
<1> QED
    BY <1>1, <1>2, <1>3 DEF read

\* LB keeps the type invariant, whether its address is good or not.
LEMMA LoadType == ASSUME TypeOK, Load PROVE TypeOK'
<1>1. Executes({"lb"}) /\ status = "running"
    BY DEF Load, Executes
<1>2. ir.rd \in Register /\ ir.rs \in Register /\ PC + 1 \in Nat
    BY <1>1, InstructionType
<1>3. CASE \E w \in read(R[ir.rs]) :
              R' = [R EXCEPT ![ir.rd] = w % 256] /\ Continue(PC + 1)
  <2>1. PICK w \in read(R[ir.rs]) :
            R' = [R EXCEPT ![ir.rd] = w % 256] /\ Continue(PC + 1)
      BY <1>3
  <2>2. w % 256 \in Word
      BY <1>1, <1>2, <2>1, ReadType, WordIsInt DEF TypeOK
  <2>3. Contents'
      BY <1>2, <2>1, <2>2 DEF Load, Contents, TypeOK
  <2> QED
      BY <1>1, <1>2, <2>1, <2>3, ContinueType
<1>4. CASE Throw /\ UNCHANGED R
  <2>1. Contents'
      BY <1>4 DEF Load, Contents, TypeOK
  <2> QED
      BY <1>1, <1>4, <2>1, ThrowType
<1> QED
    BY <1>3, <1>4 DEF Load

\* So does a branch.
LEMMA BranchType == ASSUME TypeOK, Branch PROVE TypeOK'
<1>1. Executes(Branches) /\ status = "running"
    BY DEF Branch, Executes
<1>2. ir.imm \in Nat /\ PC + 1 \in Nat
    BY <1>1, InstructionType
<1>3. Contents'
    BY DEF Branch, Contents, TypeOK
<1> QED
    BY <1>1, <1>2, <1>3, ContinueType DEF Branch

\* System call 8 keeps bytes of the line.
LEMMA KeptType ==
    ASSUME NEW Bytes, NEW bytes \in Seq(Bytes), NEW size \in Int
    PROVE  LET kept == Kept(bytes, size)
           IN  /\ kept \in Seq(Bytes) /\ Len(kept) \in Nat
               /\ \A n \in 1..Len(kept) : kept[n] \in Bytes
<1> DEFINE kept == Kept(bytes, size)
<1>1. kept \in Seq(Bytes)
  <2>1. CASE Len(bytes) <= size + 1
      BY <2>1 DEF Kept
  <2>2. CASE ~(Len(bytes) <= size + 1)
    <3>1. Len(bytes) \in Nat /\ size + 1 < Len(bytes)
        BY <2>2
    <3>2. \A n \in 1..(size + 1) : bytes[n] \in Bytes
        BY <3>1
    <3>3. SubSeq(bytes, 1, size + 1) \in Seq(Bytes)
        BY <3>1, <3>2
    <3> QED
        BY <2>2, <3>3 DEF Kept
  <2> QED
      BY <2>1, <2>2
<1> HIDE DEF kept
<1>2. Len(kept) \in Nat /\ \A n \in 1..Len(kept) : kept[n] \in Bytes
    BY <1>1
<1> QED
    BY <1>1, <1>2 DEF kept

\* System call 8 keeps the type invariant, also when the line does not fit.
LEMMA ReadStringType == ASSUME TypeOK, ReadString PROVE TypeOK'
<1> DEFINE kept == Kept(input, Signed(R[31]))
           line == [n \in 1..Len(kept) |-> Char(kept[n])]
           chars == line \o <<10>>
           first == R[30] - DataBase
<1>1. Executes({"syscall"}) /\ status = "running"
    BY DEF ReadString, Executes
<1>2. PC + 1 \in Nat
    BY <1>1, InstructionType
<1>3. Len(kept) \in Nat /\ \A n \in 1..Len(kept) : kept[n] \in 0..255
  <2>1. input \in Seq(0..255)
      BY GprSimAssumption DEF TypeOK
  <2>2. 31 \in Register
      BY GprSimAssumption DEF Register
  <2>3. Signed(R[31]) \in Int
      BY <2>2, SignedIsInt DEF TypeOK
  <2> QED
      BY <2>1, <2>3, KeptType
<1> HIDE DEF kept
<1>4. line \in Seq(Word)
  <2>1. \A n \in 1..Len(kept) : Char(kept[n]) \in Word
      BY <1>3, CharIsWord
  <2>2. line \in [1..Len(kept) -> Word]
      BY <2>1
  <2> QED
      BY <1>3, <2>2, SeqDef
<1> HIDE DEF line
<1>5. chars \in Seq(Word)
  <2>1. <<10>> \in Seq(Word)
      BY CharIsWord
  <2> QED
      BY <1>4, <2>1
<1>6. /\ DATA_SEG' = [k \in Cells |->
              IF k - first + 1 \in DOMAIN chars /\ Writable(k + DataBase)
              THEN chars[k - first + 1] ELSE DATA_SEG[k]]
      /\ Continue(PC + 1) \/ Throw
      /\ UNCHANGED R
    BY DEF ReadString, kept, line
<1> HIDE DEF chars, first
<1>7. \A n \in DOMAIN chars : chars[n] \in Word
    BY <1>5
<1>8. Contents'
    BY <1>6, <1>7 DEF Contents, TypeOK
<1> QED
    BY <1>1, <1>2, <1>6, <1>8, ContinueType, ThrowType

\* So do the other system calls.
LEMMA SyscallType == ASSUME TypeOK, Syscall PROVE TypeOK'
<1>1. Executes({"syscall"}) /\ status = "running"
    BY DEF Syscall, Executes
<1>2. PC + 1 \in Nat
    BY <1>1, InstructionType
<1>3. Contents'
    BY DEF Syscall, Contents, TypeOK
<1> QED
    BY <1>1, <1>2, <1>3, ContinueType DEF Syscall

\* The first state.
LEMMA InitType == ASSUME Init PROVE TypeOK
<1>1. text \in Seq(Instruction)
    BY GprSimAssumption DEF Init, text
<1>2. Len(text) \in Nat /\ MaxIC \in Nat
    BY <1>1, GprSimAssumption
<1>3. /\ status = "running" <=> PC < Len(text) /\ status # "threw"
      /\ status \in {"running", "complete", "threw"}
    BY DEF Init, Reached
<1>4. R \in [Register -> Word] /\ DATA_SEG \in [Cells -> Word]
    BY CharIsWord DEF Init
<1>5. IC \in 0..MaxIC /\ cycles \in (3 * IC)..(8 * IC) /\ PC \in Nat
    BY <1>2 DEF Init
<1> QED
    BY <1>3, <1>4, <1>5 DEF Init, TypeOK

LEMMA StepType == ASSUME TypeOK, [Next]_vars PROVE TypeOK'
<1>1. CASE Arith
    BY <1>1, ArithType
<1>2. CASE Load
    BY <1>2, LoadType
<1>3. CASE Branch
    BY <1>3, BranchType
<1>4. CASE ReadString
    BY <1>4, ReadStringType
<1>5. CASE Syscall
    BY <1>5, SyscallType
<1>6. CASE UNCHANGED vars
    BY <1>6 DEF vars, TypeOK, text
<1> QED
    BY <1>1, <1>2, <1>3, <1>4, <1>5, <1>6 DEF Next

(***************************************************************************)
(* Theorems                                                                *)
(***************************************************************************)

\* Registers and memory hold words whatever is read from beyond them, the
\* machine runs exactly as long as there is an instruction to run, and every
\* instruction counted has been charged its cycles (gprSim.cpp:54-270).
THEOREM TypeCorrect == Spec => []TypeOK
<1>1. Init => TypeOK
    BY InitType
<1>2. TypeOK /\ [Next]_vars => TypeOK'
    BY StepType
<1> QED
    BY <1>1, <1>2, PTL DEF Spec

\* Every branch of a file with CR LF goes to the instruction below its label.
THEOREM LabelsResolved == Spec => []LabelsAreResolved
<1>1. ASSUME NEW f \in DOMAIN Sources
      PROVE  LabelsAgree(Sources[f])
    BY PassesAgree, GprSimAssumption
<1>2. TypeOK => LabelsAreResolved
    BY <1>1 DEF TypeOK, LabelsAreResolved, source
<1> QED
    BY <1>2, TypeCorrect, PTL
=============================================================================
