--------------------------- MODULE StackSimProofs ---------------------------
(***************************************************************************)
(* Proofs about the machines of project1, for every file, all sizes of the *)
(* segments and every content of the memory beside them.  The types of the *)
(* stack machine and the cleanness of its stack come first; from them, that*)
(* it is a calculator as long as its file keeps to the segments: every step*)
(* of StackSim is a step of Calculator or changes nothing there.  The last *)
(* part adds the accumulator machine.                                      *)
(***************************************************************************)
EXTENDS Quadratic, FiniteSetTheorems, SequenceTheorems, TLAPS

(***************************************************************************)
(* Words                                                                   *)
(***************************************************************************)

\* The assumptions, put into the shape that the provers need.
LEMMA Constants ==
    /\ AddressSize \in Nat /\ AddressSize > 0
    /\ WordSize \in Nat /\ WordSize > 0 /\ WordSize = 256 * AddressSize
    /\ TEXT_SEG_LENGTH \in Nat /\ DATA_SEG_LENGTH \in Nat
    /\ STACK_SEG_LENGTH \in Nat
    /\ TEXT_SEG_BASE \in Nat /\ DATA_SEG_BASE \in Nat /\ STACK_SEG_BASE \in Nat
    /\ TEXT_SEG_BASE > 0
    /\ TEXT_SEG_BASE + TEXT_SEG_LENGTH + DATA_SEG_LENGTH + STACK_SEG_LENGTH + 1
           < DATA_SEG_BASE
    /\ DATA_SEG_BASE + DATA_SEG_LENGTH + STACK_SEG_LENGTH + 1 < STACK_SEG_BASE
    /\ STACK_SEG_BASE + STACK_SEG_LENGTH < AddressSize
    /\ Junk \subseteq Word
BY SegmentedMemoryAssumption DEF WordSize

\* A word is a number, and zero is a word.
LEMMA WordIsNat == 0 \in Word /\ \A w \in Word : w \in Nat
BY Constants DEF Word

\* A remainder that wraps a result is a word.
LEMMA RemainderIsWord ==
    ASSUME NEW n \in Int PROVE n % WordSize \in Word
BY Constants DEF Word

\* A quotient of two words is a word.
LEMMA QuotientIsWord ==
    ASSUME NEW v \in Word, NEW w \in Word, w # 0
    PROVE  v \div w \in Word
<1> DEFINE q == v \div w
           r == v % w
<1>1. v \in Nat /\ w \in Nat /\ w > 0 /\ v < WordSize
    BY WordIsNat, Constants DEF Word
<1>2. q \in Int /\ r \in Int /\ v = w * q + r /\ 0 <= r /\ r < w
    BY <1>1, Z3
<1>3. q >= 0
  <2>1. SUFFICES ASSUME q <= -1 PROVE FALSE
      BY <1>2
  <2>2. w * q <= -w
      BY <2>1, <1>1, <1>2, Z3
  <2> QED
      BY <2>2, <1>1, <1>2
<1>4. q <= w * q
    BY <1>1, <1>2, <1>3, Z3
<1>5. q <= v
    BY <1>1, <1>2, <1>4
<1> QED
    BY <1>1, <1>2, <1>3, <1>5, Constants DEF Word

\* What an operator leaves is a word.
LEMMA ResultIsWord ==
    ASSUME NEW op \in Operators, NEW val2 \in Word, NEW val1 \in Word,
           op = DIV => val1 # 0
    PROVE  Result(op, val2, val1) \in Word
<1>1. val1 \in Int /\ val2 \in Int
    BY WordIsNat
<1>2. val2 * val1 \in Int
    BY <1>1
<1>3. /\ (val2 + val1) % WordSize \in Word
      /\ (val2 - val1) % WordSize \in Word
      /\ (val2 * val1) % WordSize \in Word
    BY <1>1, <1>2, RemainderIsWord
<1>4. op = DIV => val2 \div val1 \in Word
    BY QuotientIsWord
<1> QED
    BY <1>3, <1>4 DEF Result, Operators, ADD, SUB, MULT, DIV

\* The two parts of an instruction word.
LEMMA Parts ==
    ASSUME NEW op \in Nat, NEW a \in Address
    PROVE  /\ OpOf(op * AddressSize + a) = op
           /\ AddressOf(op * AddressSize + a) = a
<1> DEFINE n == op * AddressSize + a
           q == n \div AddressSize
           r == n % AddressSize
<1>1. /\ AddressSize \in Nat /\ AddressSize > 0
      /\ a \in Nat /\ a < AddressSize /\ n \in Nat
    BY Constants DEF Address
<1>2. q \in Int /\ r \in Int /\ n = AddressSize * q + r /\ 0 <= r /\ r < AddressSize
    BY <1>1, Z3
<1>3. AddressSize * (q - op) = a - r
    BY <1>1, <1>2, Z3
<1>4. q = op
  <2>1. CASE q > op
    <3>1. AddressSize * (q - op) >= AddressSize
        BY <2>1, <1>1, <1>2, Z3
    <3> QED
        BY <3>1, <1>1, <1>2, <1>3
  <2>2. CASE q < op
    <3>1. AddressSize * (q - op) <= -AddressSize
        BY <2>2, <1>1, <1>2, Z3
    <3> QED
        BY <3>1, <1>1, <1>2, <1>3
  <2> QED
      BY <2>1, <2>2, <1>2
<1>5. r = a
    BY <1>1, <1>2, <1>3, <1>4, Z3
<1> QED
    BY <1>4, <1>5 DEF OpOf, AddressOf

(***************************************************************************)
(* Memory                                                                  *)
(***************************************************************************)

\* The cell that a write to an address goes to.
Target(m, address) == CellOf(IF InStackSeg(address) THEN m.TOS ELSE address)

Room == STACK_SEG_BASE + STACK_SEG_LENGTH + 1

\* An address belongs to one segment, and a write that is let through finds
\* a cell, in the stack segment one below its bound.
LEMMA TargetIsCell ==
    ASSUME NEW m \in Memory, NEW address \in Nat, Writable(m, address)
    PROVE  /\ Target(m, address) \in Cells
           /\ InStackSeg(address) =>
                 /\ STACK_SEG_BASE <= m.TOS /\ m.TOS < Room
                 /\ Target(m, address) = FirstOfStack + (m.TOS - STACK_SEG_BASE)
           /\ InTextSeg(address) => Target(m, address) = address - TEXT_SEG_BASE
           /\ InDataSeg(address) =>
                 Target(m, address) = TEXT_SEG_LENGTH + address - DATA_SEG_BASE
<1>1. m.TOS \in Nat
    BY DEF Memory
<1>2. CASE InStackSeg(address)
  <2>1. m.TOS - STACK_SEG_BASE \in 0..STACK_SEG_LENGTH
      BY <1>2, Constants DEF Writable, InStackSeg, InTextSeg, InDataSeg
  <2>2. STACK_SEG_BASE <= m.TOS /\ m.TOS < Room
      BY <2>1, <1>1, Constants DEF Room
  <2>3. Target(m, address) = FirstOfStack + (m.TOS - STACK_SEG_BASE)
      BY <1>2, <2>2, <1>1, Constants
         DEF Target, CellOf, InTextSeg, InDataSeg, FirstOfStack
  <2>4. Target(m, address) \in Cells
      BY <2>1, <2>3, <1>1, Constants DEF Cells, FirstOfStack
  <2> QED
      BY <1>2, <2>2, <2>3, <2>4, Constants DEF InStackSeg, InTextSeg, InDataSeg
<1>3. CASE ~InStackSeg(address)
  <2>1. Target(m, address) = CellOf(address)
      BY <1>3 DEF Target
  <2>2. \/ InTextSeg(address) /\ address - TEXT_SEG_BASE <= TEXT_SEG_LENGTH
        \/ InDataSeg(address) /\ address - DATA_SEG_BASE <= DATA_SEG_LENGTH
      BY <1>3 DEF Writable
  <2>3. ASSUME InTextSeg(address)
        PROVE  /\ CellOf(address) = address - TEXT_SEG_BASE
               /\ CellOf(address) \in Cells
    <3>1. address - TEXT_SEG_BASE <= TEXT_SEG_LENGTH
        BY <2>2, <2>3, Constants DEF InTextSeg, InDataSeg
    <3> QED
        BY <2>3, <3>1, Constants DEF InTextSeg, CellOf, Cells
  <2>4. ASSUME InDataSeg(address)
        PROVE  /\ CellOf(address) = TEXT_SEG_LENGTH + address - DATA_SEG_BASE
               /\ CellOf(address) \in Cells
    <3>1. address - DATA_SEG_BASE <= DATA_SEG_LENGTH
        BY <2>2, <2>4, Constants DEF InTextSeg, InDataSeg
    <3> QED
        BY <2>4, <3>1, Constants DEF InTextSeg, InDataSeg, CellOf, Cells
  <2> QED
      BY <1>3, <2>1, <2>2, <2>3, <2>4
<1> QED
    BY <1>2, <1>3

\* What a write makes of the memory.
LEMMA WriteType ==
    ASSUME NEW m \in Memory, NEW address \in Nat, NEW data \in Word,
           Writable(m, address)
    PROVE  LET w == write(m, address, data)
           IN  /\ w \in Memory
               /\ w.cell = [m.cell EXCEPT ![Target(m, address)] = data]
               /\ w.TOS = m.TOS + (IF InStackSeg(address) THEN 1 ELSE 0)
               /\ w.TEXT_TOP = m.TEXT_TOP
                                  + (IF InTextSeg(address) THEN 1 ELSE 0)
<1> DEFINE done == put(m, address, data)
           w == write(m, address, data)
<1>1. Target(m, address) \in Cells
    BY TargetIsCell
<1>2. /\ done \in Memory
      /\ done.cell = [m.cell EXCEPT ![Target(m, address)] = data]
      /\ done.TOS = m.TOS /\ done.TEXT_TOP = m.TEXT_TOP
      /\ done.DATA_TOP = m.DATA_TOP
    BY <1>1 DEF put, Target, Memory
<1>3. m.TOS \in Nat /\ m.TEXT_TOP \in Nat /\ m.DATA_TOP \in Nat
    BY DEF Memory
<1>4. CASE InTextSeg(address)
  <2>1. w = [done EXCEPT !.TEXT_TOP = @ + 1]
      BY <1>4 DEF write
  <2>2. ~InStackSeg(address)
      BY <1>4, Constants DEF InTextSeg, InStackSeg
  <2> QED
      BY <1>2, <1>3, <1>4, <2>1, <2>2 DEF Memory
<1>5. CASE ~InTextSeg(address) /\ InDataSeg(address)
  <2>1. w = [done EXCEPT !.DATA_TOP = @ + 1]
      BY <1>5 DEF write
  <2>2. ~InStackSeg(address)
      BY <1>5, Constants DEF InDataSeg, InStackSeg
  <2> QED
      BY <1>2, <1>3, <1>5, <2>1, <2>2 DEF Memory
<1>6. CASE ~InTextSeg(address) /\ ~InDataSeg(address)
  <2>1. w = [done EXCEPT !.TOS = @ + 1]
      BY <1>6 DEF write
  <2>2. InStackSeg(address)
      BY <1>6 DEF Writable
  <2> QED
      BY <1>2, <1>3, <1>6, <2>1, <2>2 DEF Memory
<1> QED
    BY <1>4, <1>5, <1>6

\* A read returns a word.
LEMMA ReadType ==
    ASSUME NEW m \in Memory, NEW address \in Int, NEW val \in read(m, address)
    PROVE  val \in Word
<1>1. IsCell(address) => m.cell[CellOf(address)] \in Word
    BY DEF IsCell, Memory
<1> QED
    BY <1>1, Constants DEF read

\* The address part of a word is an address.
LEMMA AddressOfType ==
    ASSUME NEW instr \in Word PROVE AddressOf(instr) \in Address
BY WordIsNat, Constants DEF AddressOf, Address

\* A line is encoded as a word.
LEMMA EncodeType ==
    ASSUME NEW l \in Lines, l.kind = "instr"
    PROVE  /\ l.op \in OpCodes /\ l.address \in Address
           /\ encode(l) \in Word
           /\ OpOf(encode(l)) = l.op
           /\ AddressOf(encode(l)) =
                 IF l.op \in {SUB, DIV, END} THEN 0 ELSE l.address
<1>1. l.op \in OpCodes /\ l.address \in Address
    BY DEF Lines
<1>2. l.op \in Nat /\ l.op <= 255
    BY <1>1 DEF OpCodes, ADD, SUB, MULT, DIV, PUSH, POP, LOAD, STORE, END
<1> DEFINE a == IF l.op \in {SUB, DIV, END} THEN 0 ELSE l.address
<1>3. a \in Address
    BY <1>1, Constants DEF Address
<1>4. OpOf(encode(l)) = l.op /\ AddressOf(encode(l)) = a
    BY <1>2, <1>3, Parts DEF encode
<1>5. encode(l) \in Word
  <2>1. l.op * AddressSize \in Nat /\ l.op * AddressSize <= 255 * AddressSize
      BY <1>2, Constants, Z3
  <2> QED
      BY <2>1, <1>3, Constants DEF encode, Word, Address
<1> QED
    BY <1>1, <1>4, <1>5

(***************************************************************************)
(* Types                                                                   *)
(***************************************************************************)

\* What the type invariant says of a memory.
Sized(m) == m \in Memory /\ m.TOS <= Room

\* The lines of a file.
LEMMA LineType ==
    ASSUME TypeOK
    PROVE  /\ Len(file) \in Nat /\ DOMAIN file = 1..Len(file)
           /\ line \in Nat /\ 1 <= line /\ line <= Len(file) + 1
           /\ \A n \in DOMAIN file : file[n] \in Lines
<1>1. file \in Seq(Lines) /\ line \in 1..(Len(file) + 1)
    BY DEF TypeOK
<1>2. Len(file) \in Nat
    BY <1>1
<1> QED
    BY <1>1, <1>2

\* The memory while a file is loaded or run.
LEMMA MemoryType ==
    ASSUME TypeOK, status # "answered"
    PROVE  /\ mem \in Memory /\ mem.cell \in [Cells -> Word]
           /\ mem.TOS \in Nat /\ STACK_SEG_BASE <= mem.TOS /\ mem.TOS <= Room
           /\ mem.TEXT_TOP \in Nat
           /\ Depth \in Nat /\ Depth <= STACK_SEG_LENGTH + 1
<1>1. /\ mem \in Memory /\ mem.TOS \in Nat /\ mem.cell \in [Cells -> Word]
      /\ mem.TEXT_TOP \in Nat
    BY DEF TypeOK, Memory
<1>2. ~(mem.TOS < STACK_SEG_BASE) /\ mem.TOS <= Room
    BY DEF TypeOK, Room
<1>3. STACK_SEG_BASE <= mem.TOS
    BY <1>1, <1>2, Constants
<1> QED
    BY <1>1, <1>2, <1>3, Constants DEF Depth, Room

\* A line that is written keeps the types; so does one that is not.
LEMMA PlaceType ==
    ASSUME TypeOK, status = "loading", line <= Len(file),
           NEW address \in Nat, NEW data \in Word, Place(address, data)
    PROVE  TypeOK'
<1>1. CASE Throw
    BY <1>1 DEF TypeOK, Throw
<1>2. CASE /\ Writable(mem, address)
           /\ mem' = write(mem, address, data)
           /\ line' = line + 1
           /\ UNCHANGED <<file, segment, PC, status, answer>>
  <2>1. /\ mem \in Memory /\ mem.TOS \in Nat
        /\ STACK_SEG_BASE <= mem.TOS /\ mem.TOS <= Room
      BY MemoryType
  <2>2. mem' \in Memory /\ mem'.TOS = mem.TOS + (IF InStackSeg(address) THEN 1 ELSE 0)
      BY <1>2, <2>1, WriteType
  <2>3. InStackSeg(address) => mem.TOS < Room
      BY <1>2, <2>1, TargetIsCell
  <2>4. Room \in Nat
      BY Constants DEF Room
  <2>5. mem'.TOS <= Room /\ mem'.TOS >= STACK_SEG_BASE /\ mem'.TOS \in Nat
    <3>1. CASE InStackSeg(address)
        BY <2>1, <2>2, <2>3, <2>4, <3>1, Constants
    <3>2. CASE ~InStackSeg(address)
        BY <2>1, <2>2, <2>4, <3>2, Constants
    <3> QED
        BY <3>1, <3>2
  <2>6. ~(mem'.TOS < STACK_SEG_BASE)
      BY <2>5, Constants
  <2>7. line' \in 1..(Len(file') + 1)
      BY <1>2, LineType
  <2> QED
      BY <1>2, <2>2, <2>5, <2>6, <2>7 DEF TypeOK, Room
<1> QED
    BY <1>1, <1>2 DEF Place

\* A line that tells what the next ones are.
LEMMA TurnType ==
    ASSUME TypeOK, line <= Len(file), NEW d, d \in {"text", "data", "none"}, Turn(d)
    PROVE  TypeOK'
<1>1. line' \in 1..(Len(file) + 1)
    BY LineType DEF Turn
<1>2. file' = file
    BY DEF Turn
<1> QED
    BY <1>1, <1>2 DEF TypeOK, Turn

\* Loading keeps the types.
LEMMA ReadLineType == ASSUME TypeOK, ReadLine PROVE TypeOK'
<1> DEFINE l == file[line]
<1>1. status = "loading" /\ line <= Len(file)
    BY DEF ReadLine
<1>2. l \in Lines
    BY <1>1, LineType
<1>3. CASE l.kind \in {"text", "data"} /\ Turn(l.kind)
    BY <1>1, <1>3, TurnType
<1>4. CASE Turn("none")
    BY <1>1, <1>4, TurnType
<1>5. CASE l.kind = "datum" /\ Place(l.address, l.word)
  <2>1. l.address \in Nat /\ l.word \in Word
      BY <1>2, <1>5, Constants DEF Lines, Address
  <2> QED
      BY <1>1, <1>5, <2>1, PlaceType
<1>6. CASE l.kind = "instr" /\ Place(mem.TEXT_TOP, encode(l))
  <2>1. mem.TEXT_TOP \in Nat /\ encode(l) \in Word
      BY <1>1, <1>2, <1>6, EncodeType, MemoryType
  <2> QED
      BY <1>1, <1>6, <2>1, PlaceType
<1>7. CASE Throw
    BY <1>1, <1>7 DEF TypeOK, Throw
<1>8. CASE \E word \in Junk : Place(mem.TEXT_TOP, word)
  <2>1. PICK word \in Junk : Place(mem.TEXT_TOP, word)
      BY <1>8
  <2>2. mem.TEXT_TOP \in Nat /\ word \in Word
      BY <1>1, Constants, MemoryType
  <2> QED
      BY <1>1, <2>1, <2>2, PlaceType
<1> QED
    BY <1>3, <1>4, <1>5, <1>6, <1>7, <1>8 DEF ReadLine

\* An instruction that leaves a memory of the right size keeps the types.
LEMMA ProceedType ==
    ASSUME TypeOK, status = "running", NEW m, Sized(m),
           STACK_SEG_BASE <= m.TOS, Proceed(m)
    PROVE  TypeOK'
<1>1. mem' \in Memory /\ mem'.TOS <= STACK_SEG_BASE + STACK_SEG_LENGTH + 1
    BY DEF Sized, Room, Proceed
<1>2. ~(mem'.TOS < STACK_SEG_BASE)
  <2>1. m.TOS \in Nat
      BY DEF Sized, Memory
  <2> QED
      BY <2>1, Constants DEF Proceed
<1>3. PC' \in Nat /\ PC' >= TEXT_SEG_BASE
  <2>1. PC \in Nat /\ PC >= TEXT_SEG_BASE
      BY DEF TypeOK
  <2> QED
      BY <2>1, Constants DEF Proceed
<1>4. /\ status' = "running" => PC' < mem'.TEXT_TOP
      /\ status' \in {"running", "complete"}
    BY DEF Proceed
<1> QED
    BY <1>1, <1>2, <1>3, <1>4 DEF TypeOK, Proceed

\* A push.
LEMMA PushResult ==
    ASSUME TypeOK, status = "running", NEW instr \in Word, Push(instr)
    PROVE  \E val \in Word :
              /\ val \in read(mem, AddressOf(instr))
              /\ mem.TOS < Room
              /\ LET m == write(mem, mem.TOS, val)
                 IN  /\ Proceed(m)
                     /\ Sized(m)
                     /\ m.TOS = mem.TOS + 1
                     /\ m.TEXT_TOP = mem.TEXT_TOP
                     /\ m.cell = [mem.cell EXCEPT ![FirstOfStack + Depth] = val]
<1>1. PICK val \in read(mem, AddressOf(instr)) :
          Proceed(write(mem, mem.TOS, val))
    BY DEF Push
<1>2. AddressOf(instr) \in Int
    BY AddressOfType, Constants DEF Address
<1>3. val \in Word
    BY <1>2, MemoryType, ReadType
<1>4. InStackSeg(mem.TOS) /\ ~InTextSeg(mem.TOS) /\ Writable(mem, mem.TOS)
    BY MemoryType, Constants DEF InStackSeg, InTextSeg, Push
<1>5. mem.TOS < Room /\ Target(mem, mem.TOS) = FirstOfStack + Depth
    BY <1>4, MemoryType, TargetIsCell DEF Depth
<1> DEFINE m == write(mem, mem.TOS, val)
<1>6. /\ m \in Memory /\ m.TOS = mem.TOS + 1 /\ m.TEXT_TOP = mem.TEXT_TOP
      /\ m.cell = [mem.cell EXCEPT ![FirstOfStack + Depth] = val]
  <2>1. /\ m \in Memory
        /\ m.cell = [mem.cell EXCEPT ![Target(mem, mem.TOS)] = val]
        /\ m.TOS = mem.TOS + (IF InStackSeg(mem.TOS) THEN 1 ELSE 0)
        /\ m.TEXT_TOP = mem.TEXT_TOP + (IF InTextSeg(mem.TOS) THEN 1 ELSE 0)
      BY <1>3, <1>4, MemoryType, WriteType
  <2>2. mem.TEXT_TOP \in Nat
      BY MemoryType DEF Memory
  <2> QED
      BY <1>4, <1>5, <2>1, <2>2
<1>7. Sized(m)
    BY <1>5, <1>6, MemoryType, Constants DEF Sized, Room
<1> QED
    BY <1>1, <1>3, <1>5, <1>6, <1>7

\* The word k positions above the base of the stack.
Stacked(k) == mem.cell[FirstOfStack + k]

\* An address of the stack segment and its cell.
LEMMA StackCell ==
    ASSUME NEW m, NEW k \in 0..STACK_SEG_LENGTH
    PROVE  /\ CellOf(STACK_SEG_BASE + k) = FirstOfStack + k
           /\ FirstOfStack + k \in Cells
           /\ read(m, STACK_SEG_BASE + k) = {m.cell[FirstOfStack + k]}
<1>1. CellOf(STACK_SEG_BASE + k) = FirstOfStack + k
    BY Constants DEF CellOf, InTextSeg, InDataSeg, FirstOfStack
<1>2. FirstOfStack + k \in Cells
    BY Constants DEF FirstOfStack, Cells
<1>3. IsCell(STACK_SEG_BASE + k)
    BY <1>1, <1>2, Constants DEF IsCell
<1> QED
    BY <1>1, <1>2, <1>3 DEF read

\* The memory after --TOS.
LEMMA BelowType ==
    ASSUME NEW m \in Memory, m.TOS >= 1
    PROVE  /\ Below(m) \in Memory
           /\ Below(m).TOS = m.TOS - 1
           /\ Below(m).cell = m.cell /\ Below(m).TEXT_TOP = m.TEXT_TOP
BY DEF Below, Memory

\* A pop.
LEMMA PopResult ==
    ASSUME TypeOK, status = "running", NEW instr \in Word, Pop(instr)
    PROVE  LET a == AddressOf(instr)
               cleared == [mem.cell EXCEPT ![FirstOfStack + Depth - 1] = 0]
           IN  /\ Depth >= 1 /\ Stacked(Depth - 1) \in Word
               /\ Writable(Below(mem), a)
               /\ \E m : /\ Proceed(m)
                         /\ Sized(m)
                         /\ m.TOS = mem.TOS - 1 + (IF InStackSeg(a) THEN 1 ELSE 0)
                         /\ m.TEXT_TOP = mem.TEXT_TOP
                                            + (IF InTextSeg(a) THEN 1 ELSE 0)
                         /\ m.cell = [cleared EXCEPT ![Target(Below(mem), a)]
                                         = Stacked(Depth - 1)]
<1> DEFINE a == AddressOf(instr)
           below == Below(mem)
           reset == [below EXCEPT !.cell[CellOf(below.TOS)] = 0]
           cleared == [mem.cell EXCEPT ![FirstOfStack + Depth - 1] = 0]
           val == Stacked(Depth - 1)
           m == write(reset, a, val)
<1>1. /\ mem.TOS > STACK_SEG_BASE /\ Writable(below, a)
      /\ \E val1 \in read(mem, below.TOS) : Proceed(write(reset, a, val1))
    BY DEF Pop
<1>2. Depth \in Nat /\ Depth >= 1 /\ Depth <= STACK_SEG_LENGTH + 1
    BY <1>1, MemoryType, Constants DEF Depth
<1>3. below \in Memory /\ below.TOS = mem.TOS - 1 /\ below.cell = mem.cell
      /\ below.TEXT_TOP = mem.TEXT_TOP
    BY <1>1, MemoryType, BelowType, Constants
<1>4. below.TOS = STACK_SEG_BASE + (Depth - 1) /\ Depth - 1 \in 0..STACK_SEG_LENGTH
    BY <1>2, <1>3, MemoryType, Constants DEF Depth
<1>5. /\ CellOf(below.TOS) = FirstOfStack + (Depth - 1)
      /\ FirstOfStack + (Depth - 1) \in Cells
      /\ read(mem, below.TOS) = {mem.cell[FirstOfStack + (Depth - 1)]}
    BY <1>4, StackCell
<1>6. val \in Word /\ Proceed(m)
    BY <1>1, <1>5, MemoryType DEF Stacked
<1>7. FirstOfStack + Depth - 1 = FirstOfStack + (Depth - 1)
    BY <1>2, Constants DEF FirstOfStack
<1>8. /\ reset \in Memory /\ reset.TOS = below.TOS /\ reset.cell = cleared
      /\ reset.TEXT_TOP = mem.TEXT_TOP
  <2>1. reset = [below EXCEPT !.cell =
                    [below.cell EXCEPT ![FirstOfStack + (Depth - 1)] = 0]]
      BY <1>3, <1>5 DEF Memory
  <2> QED
      BY <2>1, <1>3, <1>5, <1>7, WordIsNat DEF Memory
<1>9. Writable(reset, a) /\ Target(reset, a) = Target(below, a)
    BY <1>1, <1>8 DEF Writable, Target
<1>10. a \in Nat
    BY AddressOfType, Constants DEF Address
<1>11. /\ m \in Memory
       /\ m.cell = [reset.cell EXCEPT ![Target(reset, a)] = val]
       /\ m.TOS = reset.TOS + (IF InStackSeg(a) THEN 1 ELSE 0)
       /\ m.TEXT_TOP = reset.TEXT_TOP + (IF InTextSeg(a) THEN 1 ELSE 0)
    BY <1>6, <1>8, <1>9, <1>10, WriteType
<1>12. m.TOS <= Room
    BY <1>3, <1>8, <1>11, MemoryType, Constants DEF Room
<1> QED
    BY <1>1, <1>2, <1>3, <1>6, <1>8, <1>9, <1>11, <1>12 DEF Sized

\* An operator.
LEMMA OperateResult ==
    ASSUME TypeOK, status = "running", NEW instr \in Word, Operate(instr)
    PROVE  LET val1 == Stacked(Depth - 1)
               val2 == Stacked(Depth - 2)
               result == Result(OpOf(instr), val2, val1)
           IN  /\ Depth >= 2 /\ val1 \in Word /\ val2 \in Word
               /\ OpOf(instr) = DIV => val1 # 0
               /\ result \in Word
               /\ \E m : /\ Proceed(m)
                         /\ Sized(m)
                         /\ m.TOS = mem.TOS - 1
                         /\ m.TEXT_TOP = mem.TEXT_TOP
                         /\ m.cell = [[mem.cell EXCEPT
                                          ![FirstOfStack + Depth - 1] = 0]
                                        EXCEPT ![FirstOfStack + Depth - 2] = result]
<1> DEFINE first == Below(mem)
           cleared == put(first, first.TOS, 0)
           second == Below(cleared)
           val1 == Stacked(Depth - 1)
           val2 == Stacked(Depth - 2)
           result == Result(OpOf(instr), val2, val1)
           m == write(second, second.TOS, result)
<1>1. /\ OpOf(instr) \in Operators
      /\ Writable(first, first.TOS) /\ Writable(second, second.TOS)
      /\ \E v1 \in read(mem, first.TOS), v2 \in read(mem, second.TOS) :
            /\ OpOf(instr) = DIV => v1 # 0
            /\ Proceed(write(second, second.TOS, Result(OpOf(instr), v2, v1)))
    BY DEF Operate
<1>2. first \in Memory /\ first.TOS = mem.TOS - 1 /\ first.cell = mem.cell
      /\ first.TEXT_TOP = mem.TEXT_TOP
    BY MemoryType, BelowType, Constants
<1>3. mem.TOS - 1 >= STACK_SEG_BASE
    BY <1>1, <1>2, MemoryType, Constants
       DEF Writable, InTextSeg, InDataSeg, InStackSeg
<1>4. Depth - 1 \in 0..STACK_SEG_LENGTH /\ first.TOS = STACK_SEG_BASE + (Depth - 1)
    BY <1>2, <1>3, MemoryType, Constants DEF Depth
<1>5. /\ CellOf(first.TOS) = FirstOfStack + (Depth - 1)
      /\ FirstOfStack + (Depth - 1) \in Cells
      /\ read(mem, first.TOS) = {val1}
    BY <1>4, StackCell DEF Stacked
<1>6. InStackSeg(first.TOS)
    BY <1>2, <1>3 DEF InStackSeg
<1>7. cleared = [first EXCEPT !.cell =
                    [mem.cell EXCEPT ![FirstOfStack + (Depth - 1)] = 0]]
    BY <1>2, <1>5, <1>6 DEF put, Memory
<1>8. /\ cleared \in Memory /\ cleared.TOS = mem.TOS - 1
      /\ cleared.TEXT_TOP = mem.TEXT_TOP
      /\ cleared.cell = [mem.cell EXCEPT ![FirstOfStack + (Depth - 1)] = 0]
    BY <1>2, <1>5, <1>7, WordIsNat DEF Memory
<1>9. /\ second \in Memory /\ second.TOS = mem.TOS - 2
      /\ second.cell = cleared.cell /\ second.TEXT_TOP = mem.TEXT_TOP
    BY <1>3, <1>8, MemoryType, BelowType, Constants
<1>10. mem.TOS - 2 >= STACK_SEG_BASE
    BY <1>1, <1>3, <1>9, MemoryType, Constants
       DEF Writable, InTextSeg, InDataSeg, InStackSeg
<1>11. /\ Depth - 2 \in 0..STACK_SEG_LENGTH /\ Depth >= 2 /\ Depth \in Nat
       /\ second.TOS = STACK_SEG_BASE + (Depth - 2)
    BY <1>9, <1>10, MemoryType, Constants DEF Depth
<1>12. /\ CellOf(second.TOS) = FirstOfStack + (Depth - 2)
       /\ FirstOfStack + (Depth - 2) \in Cells
       /\ read(mem, second.TOS) = {val2}
    BY <1>11, StackCell DEF Stacked
<1>13. val1 \in Word /\ val2 \in Word
    BY <1>5, <1>12, MemoryType DEF Stacked
<1>14. (OpOf(instr) = DIV => val1 # 0) /\ Proceed(m)
    BY <1>1, <1>5, <1>12
<1>15. result \in Word
    BY <1>1, <1>13, <1>14, ResultIsWord
<1>16. /\ InStackSeg(second.TOS) /\ ~InTextSeg(second.TOS)
       /\ second.TOS \in Nat
    BY <1>9, <1>10, MemoryType, Constants DEF InStackSeg, InTextSeg
<1>17. Target(second, second.TOS) = FirstOfStack + (Depth - 2)
    BY <1>12, <1>16 DEF Target
<1>18. /\ m \in Memory
       /\ m.cell = [second.cell EXCEPT ![FirstOfStack + (Depth - 2)] = result]
       /\ m.TOS = second.TOS + 1
       /\ m.TEXT_TOP = mem.TEXT_TOP
  <2>1. /\ m \in Memory
        /\ m.cell = [second.cell EXCEPT ![Target(second, second.TOS)] = result]
        /\ m.TOS = second.TOS + (IF InStackSeg(second.TOS) THEN 1 ELSE 0)
        /\ m.TEXT_TOP = second.TEXT_TOP + (IF InTextSeg(second.TOS) THEN 1 ELSE 0)
      BY <1>1, <1>9, <1>15, <1>16, WriteType
  <2> QED
      BY <2>1, <1>9, <1>16, <1>17, MemoryType
<1>19. m.TOS = mem.TOS - 1 /\ m.TOS <= Room
    BY <1>9, <1>18, MemoryType, Constants DEF Room
<1>20. /\ FirstOfStack + Depth - 1 = FirstOfStack + (Depth - 1)
       /\ FirstOfStack + Depth - 2 = FirstOfStack + (Depth - 2)
    BY <1>11, Constants DEF FirstOfStack
<1>21. m.cell = [[mem.cell EXCEPT ![FirstOfStack + Depth - 1] = 0]
                    EXCEPT ![FirstOfStack + Depth - 2] = result]
    BY <1>8, <1>9, <1>18, <1>20
<1> QED
    BY <1>11, <1>13, <1>14, <1>15, <1>18, <1>19, <1>21 DEF Sized

\* The end: what is printed is the top of the stack, if there is one.
LEMMA EndResult ==
    ASSUME TypeOK, status = "running", NEW instr \in Word, EndInstr(instr)
    PROVE  /\ answer' \in Word /\ status' = "answered"
           /\ Depth >= 1 => answer' = Stacked(Depth - 1)
           /\ mem' = Below(mem) /\ mem' \in Memory /\ mem'.TOS = mem.TOS - 1
           /\ mem'.cell = mem.cell /\ mem'.TEXT_TOP = mem.TEXT_TOP
           /\ UNCHANGED <<file, line, segment, PC>>
<1>1. PICK val \in read(mem, mem.TOS - 1) : Printout(Below(mem), val)
    BY DEF EndInstr
<1>2. mem.TOS - 1 \in Int /\ mem.TOS >= 1
    BY MemoryType, Constants
<1>3. val \in Word
    BY <1>2, MemoryType, ReadType
<1>4. /\ Below(mem) \in Memory /\ Below(mem).TOS = mem.TOS - 1
      /\ Below(mem).cell = mem.cell /\ Below(mem).TEXT_TOP = mem.TEXT_TOP
    BY <1>2, MemoryType, BelowType
<1>5. ASSUME Depth >= 1 PROVE val = Stacked(Depth - 1)
  <2>1. Depth - 1 \in 0..STACK_SEG_LENGTH /\ mem.TOS - 1 = STACK_SEG_BASE + (Depth - 1)
      BY <1>5, MemoryType, Constants DEF Depth
  <2>2. read(mem, mem.TOS - 1) = {mem.cell[FirstOfStack + (Depth - 1)]}
      BY <2>1, StackCell
  <2> QED
      BY <2>2 DEF Stacked
<1> QED
    BY <1>1, <1>3, <1>4, <1>5 DEF Printout

\* Executing keeps the types.
LEMMA ExecuteType == ASSUME TypeOK, execute PROVE TypeOK'
<1>1. status = "running"
    BY DEF execute
<1>2. PICK instr \in read(mem, PC) :
          Push(instr) \/ Pop(instr) \/ Operate(instr) \/ EndInstr(instr)
            \/ Break(instr)
    BY DEF execute
<1>3. PC \in Int
    BY DEF TypeOK
<1>4. instr \in Word
    BY <1>1, <1>2, <1>3, MemoryType, ReadType
<1>5. CASE Push(instr)
  <2>1. PICK m : Proceed(m) /\ Sized(m) /\ m.TOS = mem.TOS + 1
      BY <1>1, <1>4, <1>5, PushResult
  <2>2. STACK_SEG_BASE <= m.TOS
      BY <1>1, <2>1, MemoryType, Constants
  <2> QED
      BY <1>1, <2>1, <2>2, ProceedType
<1>6. CASE Pop(instr)
  <2>1. /\ Depth >= 1
        /\ \E m : /\ Proceed(m) /\ Sized(m)
                  /\ m.TOS = mem.TOS - 1
                                + (IF InStackSeg(AddressOf(instr)) THEN 1 ELSE 0)
      BY <1>1, <1>4, <1>6, PopResult
  <2>2. PICK m : /\ Proceed(m) /\ Sized(m)
                 /\ m.TOS = mem.TOS - 1
                               + (IF InStackSeg(AddressOf(instr)) THEN 1 ELSE 0)
      BY <2>1
  <2>3. mem.TOS \in Nat /\ mem.TOS - 1 >= STACK_SEG_BASE
      BY <1>1, <2>1, MemoryType, Constants DEF Depth
  <2>4. STACK_SEG_BASE <= m.TOS
      BY <2>2, <2>3, Constants
  <2> QED
      BY <1>1, <2>2, <2>4, ProceedType
<1>7. CASE Operate(instr)
  <2>1. Depth >= 2 /\ \E m : Proceed(m) /\ Sized(m) /\ m.TOS = mem.TOS - 1
      BY <1>1, <1>4, <1>7, OperateResult
  <2>2. PICK m : Proceed(m) /\ Sized(m) /\ m.TOS = mem.TOS - 1
      BY <2>1
  <2>3. STACK_SEG_BASE <= m.TOS
      BY <1>1, <2>1, <2>2, MemoryType, Constants DEF Depth
  <2> QED
      BY <1>1, <2>2, <2>3, ProceedType
<1>8. CASE EndInstr(instr)
  <2>1. /\ answer' \in Word /\ status' = "answered" /\ mem' \in Memory
        /\ mem'.TOS = mem.TOS - 1 /\ UNCHANGED <<file, line, segment, PC>>
      BY <1>1, <1>4, <1>8, EndResult
  <2>2. mem'.TOS <= STACK_SEG_BASE + STACK_SEG_LENGTH + 1
      BY <1>1, <2>1, MemoryType, Constants DEF Room
  <2> QED
      BY <2>1, <2>2 DEF TypeOK
<1>9. CASE Break(instr)
  <2>1. Fail
      BY <1>9 DEF Break
  <2>2. ~(mem.TOS < STACK_SEG_BASE)
      BY <1>1 DEF TypeOK
  <2> QED
      BY <2>1, <2>2 DEF TypeOK, Fail
<1> QED
    BY <1>2, <1>5, <1>6, <1>7, <1>8, <1>9

\* The beginning of execution keeps the types.
LEMMA StartType == ASSUME TypeOK, Start PROVE TypeOK'
<1>1. ~(mem.TOS < STACK_SEG_BASE) /\ UNCHANGED <<file, line, segment, mem, PC, answer>>
    BY DEF TypeOK, Start
<1>2. /\ status' \in {"running", "complete"}
      /\ status' = "running" => PC' < mem'.TEXT_TOP
    BY DEF Start
<1> QED
    BY <1>1, <1>2 DEF TypeOK

LEMMA InitType == ASSUME Init PROVE TypeOK
<1>1. mem \in Memory /\ mem.TOS = STACK_SEG_BASE
    BY WordIsNat, Constants DEF Init, Memory
<1>2. ~(mem.TOS < STACK_SEG_BASE) /\ mem.TOS <= STACK_SEG_BASE + STACK_SEG_LENGTH + 1
    BY <1>1, Constants
<1>3. line \in 1..(Len(file) + 1)
    BY DEF Init
<1>4. PC \in Nat /\ PC >= TEXT_SEG_BASE
    BY Constants DEF Init
<1> QED
    BY <1>1, <1>2, <1>3, <1>4, WordIsNat DEF Init, TypeOK

LEMMA NextType == ASSUME TypeOK, [Next]_vars PROVE TypeOK'
<1>1. CASE ReadLine
    BY <1>1, ReadLineType
<1>2. CASE Start
    BY <1>2, StartType
<1>3. CASE execute
    BY <1>3, ExecuteType
<1>4. CASE UNCHANGED vars
    BY <1>4 DEF TypeOK, vars
<1> QED
    BY <1>1, <1>2, <1>3, <1>4 DEF Next

\* The stack pointer stays within the stack segment and the cell behind it
\* until the program ends, memory holds words, and the instruction at PC is
\* one below the top of the text segment: for every file, be it tame or not.
THEOREM TypeCorrect == Spec => []TypeOK
<1>1. Init => TypeOK
    BY InitType
<1>2. TypeOK /\ [Next]_vars => TypeOK'
    BY NextType
<1> QED
    BY <1>1, <1>2, PTL DEF Spec

(***************************************************************************)
(* The inductive invariant: of a tame file, the text segment holds the     *)
(* lines read so far and nothing else is written there or above the stack. *)
(***************************************************************************)

TextHoldsLines ==
    /\ TEXT_SEG_BASE <= mem.TEXT_TOP
    /\ mem.TEXT_TOP <= TEXT_SEG_BASE + TEXT_SEG_LENGTH
    /\ \A c \in 0..(mem.TEXT_TOP - TEXT_SEG_BASE - 1) :
          \E n \in DOMAIN file :
              IsInstr(file[n]) /\ mem.cell[c] = encode(file[n])

\* The instructions among the lines before one.
InstrLines(limit) == {n \in 1..(limit - 1) : IsInstr(file[n])}

LoadingAgrees ==
    status = "loading" =>
        /\ mem.TOS = STACK_SEG_BASE /\ PC = TEXT_SEG_BASE
        /\ segment # "none" => Belongs(line, segment)
        /\ mem.TEXT_TOP - TEXT_SEG_BASE <= Cardinality(InstrLines(line))

IInv == TypeOK /\ StackIsClean /\ (Tame => TextHoldsLines /\ LoadingAgrees)

\* A file does not change, nor what it is.
LEMMA FileStays ==
    ASSUME [Next]_vars
    PROVE  file' = file /\ Tame' = Tame
<1>1. file' = file
  <2>1. CASE UNCHANGED vars
      BY <2>1 DEF vars
  <2>2. ASSUME Throw PROVE file' = file
      BY <2>2 DEF Throw
  <2>3. ASSUME NEW a, NEW d, Place(a, d) PROVE file' = file
      BY <2>2, <2>3 DEF Place
  <2>4. ASSUME NEW d, Turn(d) PROVE file' = file
      BY <2>4 DEF Turn
  <2>5. CASE ReadLine
      BY <2>2, <2>3, <2>4, <2>5 DEF ReadLine
  <2>6. CASE Start
      BY <2>6 DEF Start
  <2>7. ASSUME NEW m, Proceed(m) PROVE file' = file
      BY <2>7 DEF Proceed
  <2>8. CASE execute
      BY <2>7, <2>8 DEF execute, Push, Pop, Operate, EndInstr, Printout, Break, Fail
  <2> QED
      BY <2>1, <2>5, <2>6, <2>8 DEF Next
<1> QED
    BY <1>1 DEF Tame, Belongs

\* A line behind another one of its block belongs to the block as well.
LEMMA BlockGoesOn ==
    ASSUME NEW n \in Nat, NEW d, Belongs(n, d), file[n].kind \in {"datum", "instr"}
    PROVE  Belongs(n + 1, d)
<1>1. PICK k \in 1..(n - 1) :
          /\ file[k].kind = d
          /\ \A j \in (k + 1)..(n - 1) : file[j].kind \in {"datum", "instr"}
    BY DEF Belongs
<1>2. k \in 1..((n + 1) - 1)
    OBVIOUS
<1>3. ASSUME NEW j \in (k + 1)..((n + 1) - 1)
      PROVE  file[j].kind \in {"datum", "instr"}
  <2>1. j = n \/ j \in (k + 1)..(n - 1)
      OBVIOUS
  <2> QED
      BY <1>1, <2>1
<1> QED
    BY <1>1, <1>2, <1>3 DEF Belongs

\* A directive begins a block.
LEMMA BlockBegins ==
    ASSUME NEW n \in Nat, n >= 1
    PROVE  Belongs(n + 1, file[n].kind)
<1>1. n \in 1..((n + 1) - 1) /\ (n + 1)..((n + 1) - 1) = {}
    OBVIOUS
<1> QED
    BY <1>1 DEF Belongs

\* How many instructions are read.
LEMMA InstrLinesGrow ==
    ASSUME NEW n \in Nat, n >= 1
    PROVE  /\ Cardinality(InstrLines(n)) \in Nat
           /\ Cardinality(InstrLines(n + 1)) \in Nat
           /\ Cardinality(InstrLines(n + 1)) =
                 Cardinality(InstrLines(n))
                    + (IF IsInstr(file[n]) THEN 1 ELSE 0)
<1>1. IsFiniteSet(1..(n - 1))
    BY FS_Interval
<1>2. InstrLines(n) \in SUBSET (1..(n - 1)) /\ n \notin InstrLines(n)
    BY DEF InstrLines
<1>3. IsFiniteSet(InstrLines(n))
    BY <1>1, <1>2, FS_Subset
<1>4. Cardinality(InstrLines(n)) \in Nat
    BY <1>3, FS_CardinalityType
<1>5. CASE IsInstr(file[n])
  <2>1. InstrLines(n + 1) = InstrLines(n) \cup {n}
      BY <1>5 DEF InstrLines
  <2>2. Cardinality(InstrLines(n + 1)) = Cardinality(InstrLines(n)) + 1
      BY <2>1, <1>2, <1>3, FS_AddElement
  <2> QED
      BY <2>2, <1>4, <1>5
<1>6. CASE ~IsInstr(file[n])
  <2>1. InstrLines(n + 1) = InstrLines(n)
      BY <1>6 DEF InstrLines
  <2> QED
      BY <2>1, <1>4, <1>6
<1> QED
    BY <1>5, <1>6

\* In a tame file there is room for the instruction that is read.
LEMMA RoomForInstr ==
    ASSUME TypeOK, Tame, NEW n \in Nat, n >= 1, n <= Len(file), IsInstr(file[n])
    PROVE  /\ Cardinality(InstrLines(n)) \in Nat
           /\ Cardinality(InstrLines(n)) + 1 <= TEXT_SEG_LENGTH
<1> DEFINE all == {k \in DOMAIN file : IsInstr(file[k])}
<1>1. DOMAIN file = 1..Len(file) /\ Len(file) \in Nat
    BY LineType
<1>2. IsFiniteSet(1..Len(file))
    BY <1>1, FS_Interval
<1>3. IsFiniteSet(all)
    BY <1>1, <1>2, FS_Subset
<1>4. InstrLines(n + 1) \in SUBSET all
    BY <1>1 DEF InstrLines
<1>5. Cardinality(InstrLines(n + 1)) <= Cardinality(all)
    BY <1>3, <1>4, FS_Subset
<1>6. Cardinality(all) <= TEXT_SEG_LENGTH /\ Cardinality(all) \in Nat
    BY <1>3, FS_CardinalityType DEF Tame
<1>7. /\ Cardinality(InstrLines(n)) \in Nat
      /\ Cardinality(InstrLines(n + 1)) = Cardinality(InstrLines(n)) + 1
    BY InstrLinesGrow
<1> QED
    BY <1>5, <1>6, <1>7, Constants

\* The parts of the invariant for a tame file.
LEMMA TameParts ==
    ASSUME IInv, Tame
    PROVE  /\ TypeOK /\ TextHoldsLines /\ LoadingAgrees
           /\ status \in {"loading", "running"} =>
                 \A c \in Cells : c >= FirstOfStack + Depth => mem.cell[c] = 0
BY DEF IInv, StackIsClean

\* Where the addresses of the text segment and of the numbers are.
LEMMA Addresses ==
    /\ \A top \in Nat : TEXT_SEG_BASE <= top /\ top - TEXT_SEG_BASE < TEXT_SEG_LENGTH =>
          /\ InTextSeg(top) /\ ~InStackSeg(top)
          /\ top - TEXT_SEG_BASE <= TEXT_SEG_LENGTH
    /\ \A a \in Name :
          LET t == TEXT_SEG_LENGTH + a - DATA_SEG_BASE
          IN  /\ InDataSeg(a) /\ a \in Nat
              /\ t \in Nat /\ TEXT_SEG_LENGTH <= t /\ t < FirstOfStack
BY Constants DEF Name, InTextSeg, InDataSeg, InStackSeg, FirstOfStack

\* An instruction that is read is written to the next cell of the text.
LEMMA PlaceInstrResult ==
    ASSUME IInv, Tame, status = "loading", line <= Len(file),
           IsInstr(file[line]), segment = "text",
           Place(mem.TEXT_TOP, encode(file[line]))
    PROVE  LET k == mem.TEXT_TOP - TEXT_SEG_BASE
           IN  /\ k \in Nat /\ k < TEXT_SEG_LENGTH
               /\ k <= Cardinality(InstrLines(line))
               /\ encode(file[line]) \in Word
               /\ mem'.cell = [mem.cell EXCEPT ![k] = encode(file[line])]
               /\ mem'.TOS = mem.TOS /\ mem'.TEXT_TOP = mem.TEXT_TOP + 1
               /\ line' = line + 1
               /\ UNCHANGED <<file, segment, PC, status, answer>>
<1> DEFINE k == mem.TEXT_TOP - TEXT_SEG_BASE
           data == encode(file[line])
<1>1. TypeOK /\ TextHoldsLines /\ LoadingAgrees
    BY TameParts
<1>2. /\ line \in Nat /\ line >= 1 /\ line \in DOMAIN file
      /\ file[line] \in Lines /\ file[line].kind = "instr"
    BY <1>1, LineType DEF IsInstr
<1>3. data \in Word
    BY <1>2, EncodeType
<1>4. Cardinality(InstrLines(line)) \in Nat /\ Cardinality(InstrLines(line)) + 1 <= TEXT_SEG_LENGTH
    BY <1>1, <1>2, RoomForInstr
<1>5. /\ mem \in Memory /\ mem.TEXT_TOP \in Nat /\ mem.cell \in [Cells -> Word]
      /\ mem.TOS = STACK_SEG_BASE
    BY <1>1, MemoryType DEF LoadingAgrees
<1>6. k \in Nat /\ k <= Cardinality(InstrLines(line)) /\ k < TEXT_SEG_LENGTH
    BY <1>1, <1>4, <1>5, Constants DEF TextHoldsLines, LoadingAgrees
<1>7. /\ InTextSeg(mem.TEXT_TOP) /\ ~InStackSeg(mem.TEXT_TOP)
      /\ Writable(mem, mem.TEXT_TOP)
  <2>1. TEXT_SEG_BASE <= mem.TEXT_TOP
      BY <1>1 DEF TextHoldsLines
  <2>2. /\ InTextSeg(mem.TEXT_TOP) /\ ~InStackSeg(mem.TEXT_TOP)
        /\ mem.TEXT_TOP - TEXT_SEG_BASE <= TEXT_SEG_LENGTH
      BY <1>5, <1>6, <2>1, Addresses
  <2> QED
      BY <2>2 DEF Writable
<1>8. /\ mem' = write(mem, mem.TEXT_TOP, data) /\ line' = line + 1
      /\ UNCHANGED <<file, segment, PC, status, answer>>
    BY <1>7 DEF Place
<1>9. Target(mem, mem.TEXT_TOP) = k
    BY <1>5, <1>7, TargetIsCell
<1>10. /\ mem'.cell = [mem.cell EXCEPT ![k] = data]
       /\ mem'.TOS = mem.TOS /\ mem'.TEXT_TOP = mem.TEXT_TOP + 1
  <2>1. /\ mem'.cell = [mem.cell EXCEPT ![Target(mem, mem.TEXT_TOP)] = data]
        /\ mem'.TOS = mem.TOS + (IF InStackSeg(mem.TEXT_TOP) THEN 1 ELSE 0)
        /\ mem'.TEXT_TOP = mem.TEXT_TOP + (IF InTextSeg(mem.TEXT_TOP) THEN 1 ELSE 0)
      BY <1>3, <1>5, <1>7, <1>8, WriteType
  <2> QED
      BY <2>1, <1>5, <1>7, <1>9, Constants
<1> QED
    BY <1>3, <1>6, <1>8, <1>10

\* To read a line is to keep the invariant.  The first case is a line of
\* the text segment, whose cell is the next one; the second a number, whose
\* cell is between the text and the stack.
LEMMA PlaceInstrClean ==
    ASSUME IInv, Tame, status = "loading", line <= Len(file),
           IsInstr(file[line]), segment = "text",
           file' = file, Tame',
           Place(mem.TEXT_TOP, encode(file[line])), TypeOK'
    PROVE  IInv'
<1> DEFINE k == mem.TEXT_TOP - TEXT_SEG_BASE
           data == encode(file[line])
<1>1. TypeOK /\ TextHoldsLines /\ LoadingAgrees
    BY TameParts
<1>2. line \in Nat /\ line >= 1 /\ line \in DOMAIN file /\ file[line].kind = "instr"
    BY <1>1, LineType DEF IsInstr
<1>4. Cardinality(InstrLines(line)) \in Nat
    BY <1>1, <1>2, RoomForInstr
<1>5. /\ mem.TEXT_TOP \in Nat /\ mem.cell \in [Cells -> Word]
      /\ mem.TOS = STACK_SEG_BASE
    BY <1>1, MemoryType DEF LoadingAgrees
<1>6. k \in Nat /\ k <= Cardinality(InstrLines(line)) /\ k < TEXT_SEG_LENGTH
    BY PlaceInstrResult
<1>8. line' = line + 1 /\ UNCHANGED <<file, segment, PC, status, answer>>
    BY PlaceInstrResult
<1>10. /\ mem'.cell = [mem.cell EXCEPT ![k] = data]
       /\ mem'.TOS = mem.TOS /\ mem'.TEXT_TOP = mem.TEXT_TOP + 1
    BY PlaceInstrResult
<1>11. TextHoldsLines'
  <2>1. TEXT_SEG_BASE <= mem'.TEXT_TOP /\ mem'.TEXT_TOP <= TEXT_SEG_BASE + TEXT_SEG_LENGTH
    <3>1. /\ TEXT_SEG_BASE <= mem.TEXT_TOP + 1
          /\ mem.TEXT_TOP + 1 <= TEXT_SEG_BASE + TEXT_SEG_LENGTH
        BY <1>5, <1>6, Constants
    <3> QED
        BY <3>1, <1>10
  <2>2. ASSUME NEW c \in 0..(mem'.TEXT_TOP - TEXT_SEG_BASE - 1)
        PROVE  \E n \in DOMAIN file : IsInstr(file[n]) /\ mem'.cell[c] = encode(file[n])
    <3>1. c \in 0..k /\ c \in Cells
      <4>a. (mem.TEXT_TOP + 1) - TEXT_SEG_BASE - 1 = mem.TEXT_TOP - TEXT_SEG_BASE
          BY <1>5, Constants
      <4>1. mem'.TEXT_TOP - TEXT_SEG_BASE - 1 = k
          BY <4>a, <1>10
      <4>2. c \in 0..k
          BY <4>1
      <4> HIDE DEF k
      <4>3. c \in Cells
          BY <4>2, <1>6, Constants DEF Cells
      <4> QED
          BY <4>2, <4>3
    <3>2. CASE c = k
        BY <1>2, <1>5, <1>10, <3>1, <3>2
    <3>3. CASE c # k
      <4>1. c \in 0..(mem.TEXT_TOP - TEXT_SEG_BASE - 1) /\ mem'.cell[c] = mem.cell[c]
          BY <1>5, <1>6, <1>10, <3>1, <3>3, Constants
      <4> QED
          BY <1>1, <4>1 DEF TextHoldsLines
    <3> QED
        BY <3>2, <3>3
  <2> QED
      BY <2>1, <2>2, <1>8 DEF TextHoldsLines, IsInstr, encode
<1>12. LoadingAgrees'
  <2>1. Belongs(line + 1, segment)
      BY <1>1, <1>2, BlockGoesOn DEF LoadingAgrees
  <2>2. Belongs(line, segment)' 
      BY <2>1, <1>8 DEF Belongs
  <2>3. Cardinality(InstrLines(line + 1)) = Cardinality(InstrLines(line)) + 1
      BY <1>2, InstrLinesGrow
  <2>4. InstrLines(line)' = InstrLines(line + 1)
      BY <1>8 DEF InstrLines, IsInstr
  <2>5. mem'.TEXT_TOP - TEXT_SEG_BASE <= Cardinality(InstrLines(line + 1))
      BY <2>3, <1>4, <1>5, <1>6, <1>10, Constants
  <2> QED
      BY <2>2, <2>4, <2>5, <1>1, <1>5, <1>8, <1>10 DEF LoadingAgrees
<1>13. StackIsClean'
  <2>1. Depth' = Depth /\ Depth \in Nat
      BY <1>1, <1>10, MemoryType DEF Depth
  <2>2. ASSUME NEW c \in Cells, c >= FirstOfStack + Depth
        PROVE  mem'.cell[c] = 0
    <3>1. c # k
        BY <2>1, <2>2, <1>6, Constants DEF FirstOfStack
    <3>2. mem.cell[c] = 0
        BY <2>2, TameParts
    <3> QED
        BY <3>1, <3>2, <1>5, <1>10
  <2> QED
      BY <2>1, <2>2 DEF StackIsClean
<1> QED
    BY <1>11, <1>12, <1>13 DEF IInv

\* A number that is read is written to its cell of the data segment.
LEMMA PlaceDatumResult ==
    ASSUME IInv, Tame, status = "loading", line <= Len(file),
           file[line].kind = "datum", segment = "data",
           Place(file[line].address, file[line].word)
    PROVE  LET a == file[line].address
               t == TEXT_SEG_LENGTH + a - DATA_SEG_BASE
           IN  /\ a \in Name /\ file[line].word \in Word
               /\ t \in TEXT_SEG_LENGTH..(FirstOfStack - 1)
               /\ mem'.cell = [mem.cell EXCEPT ![t] = file[line].word]
               /\ mem'.TOS = mem.TOS /\ mem'.TEXT_TOP = mem.TEXT_TOP
               /\ line' = line + 1
               /\ UNCHANGED <<file, segment, PC, status, answer>>
<1> DEFINE a == file[line].address
           t == TEXT_SEG_LENGTH + a - DATA_SEG_BASE
           data == file[line].word
<1>1. TypeOK /\ TextHoldsLines /\ LoadingAgrees
    BY TameParts
<1>2. line \in Nat /\ line >= 1 /\ line \in DOMAIN file /\ file[line] \in Lines
    BY <1>1, LineType
<1>3. data \in Word /\ a \in Name /\ ~IsInstr(file[line])
    BY <1>2 DEF Lines, Tame, IsInstr
<1>4. /\ mem \in Memory /\ mem.TEXT_TOP \in Nat /\ mem.cell \in [Cells -> Word]
      /\ mem.TOS = STACK_SEG_BASE /\ Depth \in Nat
    BY <1>1, MemoryType DEF LoadingAgrees
<1>5. /\ a \in Nat /\ InDataSeg(a) /\ ~InTextSeg(a) /\ ~InStackSeg(a)
      /\ Writable(mem, a)
  <2> HIDE DEF a
  <2>1. a \in Nat /\ DATA_SEG_BASE <= a /\ a < DATA_SEG_BASE + DATA_SEG_LENGTH
      BY <1>3, Constants DEF Name
  <2>2. InDataSeg(a) /\ ~InTextSeg(a) /\ ~InStackSeg(a)
      BY <2>1, Constants DEF InTextSeg, InDataSeg, InStackSeg
  <2>3. Writable(mem, a)
      BY <2>1, <2>2, Constants DEF Writable
  <2> QED
      BY <2>1, <2>2, <2>3
<1>6. /\ mem' = write(mem, a, data) /\ line' = line + 1
      /\ UNCHANGED <<file, segment, PC, status, answer>>
    BY <1>5 DEF Place
<1>7. Target(mem, a) = t /\ t \in TEXT_SEG_LENGTH..(FirstOfStack - 1)
  <2>1. Target(mem, a) = t
      BY <1>4, <1>5, TargetIsCell
  <2>2. t \in TEXT_SEG_LENGTH..(FirstOfStack - 1)
    <3>1. t \in Nat /\ TEXT_SEG_LENGTH <= t /\ t < FirstOfStack
        BY <1>3, Addresses
    <3>2. FirstOfStack \in Nat
        BY Constants DEF FirstOfStack
    <3> HIDE DEF t
    <3> QED
        BY <3>1, <3>2, Constants
  <2> QED
      BY <2>1, <2>2
<1>8. /\ mem'.cell = [mem.cell EXCEPT ![t] = data]
      /\ mem'.TOS = mem.TOS /\ mem'.TEXT_TOP = mem.TEXT_TOP
  <2>1. /\ mem'.cell = [mem.cell EXCEPT ![Target(mem, a)] = data]
        /\ mem'.TOS = mem.TOS + (IF InStackSeg(a) THEN 1 ELSE 0)
        /\ mem'.TEXT_TOP = mem.TEXT_TOP + (IF InTextSeg(a) THEN 1 ELSE 0)
      BY <1>3, <1>4, <1>5, <1>6, WriteType
  <2>2. mem'.cell = [mem.cell EXCEPT ![t] = data]
      BY <2>1, <1>7
  <2>3. mem'.TOS = mem.TOS + 0 /\ mem'.TEXT_TOP = mem.TEXT_TOP + 0
      BY <2>1, <1>5
  <2>4. mem.TOS \in Nat
      BY <1>4, Constants
  <2> QED
      BY <2>2, <2>3, <2>4, <1>4
<1> QED
    BY <1>3, <1>6, <1>7, <1>8

LEMMA PlaceDatumClean ==
    ASSUME IInv, Tame, status = "loading", line <= Len(file),
           file[line].kind = "datum", segment = "data",
           file' = file, Tame',
           Place(file[line].address, file[line].word), TypeOK'
    PROVE  IInv'
<1> DEFINE a == file[line].address
           t == TEXT_SEG_LENGTH + a - DATA_SEG_BASE
           data == file[line].word
<1>1. TypeOK /\ TextHoldsLines /\ LoadingAgrees
    BY TameParts
<1>2. line \in Nat /\ line >= 1 /\ line \in DOMAIN file
    BY <1>1, LineType
<1>3. ~IsInstr(file[line])
    BY DEF IsInstr
<1>4. /\ mem.TEXT_TOP \in Nat /\ mem.cell \in [Cells -> Word]
      /\ mem.TOS = STACK_SEG_BASE /\ Depth \in Nat
    BY <1>1, MemoryType DEF LoadingAgrees
<1>6. line' = line + 1 /\ UNCHANGED <<file, segment, PC, status, answer>>
    BY PlaceDatumResult
<1>7. t \in TEXT_SEG_LENGTH..(FirstOfStack - 1)
    BY PlaceDatumResult
<1>8. /\ mem'.cell = [mem.cell EXCEPT ![t] = data]
      /\ mem'.TOS = mem.TOS /\ mem'.TEXT_TOP = mem.TEXT_TOP
    BY PlaceDatumResult
<1>9. TextHoldsLines'
  <2>1. ASSUME NEW c \in 0..(mem.TEXT_TOP - TEXT_SEG_BASE - 1)
        PROVE  mem'.cell[c] = mem.cell[c]
    <3>1. mem.TEXT_TOP <= TEXT_SEG_BASE + TEXT_SEG_LENGTH
        BY <1>1 DEF TextHoldsLines
    <3>2. c \in Nat /\ c < TEXT_SEG_LENGTH
        BY <1>4, <3>1, Constants
    <3>3. c \in Cells
        BY <3>2, Constants DEF Cells
    <3>4. c # t
      <4> HIDE DEF t
      <4> QED
          BY <1>7, <3>2, Constants DEF FirstOfStack
    <3> QED
        BY <3>3, <3>4, <1>4, <1>8
  <2> QED
      BY <2>1, <1>1, <1>6, <1>8 DEF TextHoldsLines, IsInstr, encode
<1>10. LoadingAgrees'
  <2>1. Belongs(line + 1, segment)
      BY <1>1, <1>2, BlockGoesOn DEF LoadingAgrees
  <2>2. Belongs(line, segment)'
      BY <2>1, <1>6 DEF Belongs
  <2>3. Cardinality(InstrLines(line + 1)) = Cardinality(InstrLines(line))
      BY <1>2, <1>3, InstrLinesGrow
  <2>4. InstrLines(line)' = InstrLines(line + 1)
      BY <1>6 DEF InstrLines, IsInstr
  <2> QED
      BY <2>2, <2>3, <2>4, <1>1, <1>4, <1>6, <1>8 DEF LoadingAgrees
<1>11. StackIsClean'
  <2>1. Depth' = Depth
      BY <1>8 DEF Depth
  <2>2. ASSUME NEW c \in Cells, c >= FirstOfStack + Depth
        PROVE  mem'.cell[c] = 0
    <3>1. c # t
        BY <2>2, <1>4, <1>7, Constants DEF FirstOfStack, Cells
    <3>2. mem.cell[c] = 0
        BY <2>2, TameParts
    <3> QED
        BY <3>1, <3>2, <1>4, <1>8
  <2> QED
      BY <2>1, <2>2 DEF StackIsClean
<1> QED
    BY <1>9, <1>10, <1>11 DEF IInv

\* A directive, a blank line, or one that belongs to no segment.
LEMMA TurnClean ==
    ASSUME IInv, Tame, status = "loading", file' = file, Tame', TypeOK',
           NEW d, Turn(d), d # "none" => Belongs(line + 1, d),
           line <= Len(file), IsInstr(file[line]) => d = "none"
    PROVE  IInv'
<1>1. TypeOK /\ TextHoldsLines /\ LoadingAgrees
    BY TameParts
<1>2. /\ line' = line + 1 /\ segment' = d
      /\ UNCHANGED <<file, mem, PC, status, answer>>
    BY DEF Turn
<1>3. line \in Nat /\ line >= 1
    BY <1>1, LineType
<1>4. TextHoldsLines'
    BY <1>1, <1>2 DEF TextHoldsLines, IsInstr, encode
<1>5. LoadingAgrees'
  <2>1. (segment # "none" => Belongs(line, segment))'
      BY <1>2 DEF Belongs
  <2>2. /\ Cardinality(InstrLines(line)) \in Nat
        /\ Cardinality(InstrLines(line + 1)) \in Nat
        /\ Cardinality(InstrLines(line + 1)) >= Cardinality(InstrLines(line))
    <3> DEFINE x == Cardinality(InstrLines(line))
               y == Cardinality(InstrLines(line + 1))
    <3>1. x \in Nat /\ y \in Nat /\ y = x + (IF IsInstr(file[line]) THEN 1 ELSE 0)
        BY <1>3, InstrLinesGrow
    <3>2. y = x \/ y = x + 1
        BY <3>1
    <3> HIDE DEF x, y
    <3>3. y >= x
        BY <3>1, <3>2
    <3> QED
        BY <3>1, <3>3 DEF x, y
  <2>3. InstrLines(line)' = InstrLines(line + 1)
      BY <1>2 DEF InstrLines, IsInstr
  <2>4. mem.TEXT_TOP - TEXT_SEG_BASE <= Cardinality(InstrLines(line))
      BY <1>1 DEF LoadingAgrees
  <2>5. mem.TEXT_TOP - TEXT_SEG_BASE \in Int
      BY MemoryType, <1>1, Constants
  <2>6. mem.TEXT_TOP - TEXT_SEG_BASE <= Cardinality(InstrLines(line + 1))
      BY <2>2, <2>4, <2>5
  <2> QED
      BY <2>1, <2>3, <2>6, <1>1, <1>2 DEF LoadingAgrees
<1>6. StackIsClean'
    BY <1>2, TameParts DEF StackIsClean, Depth
<1> QED
    BY <1>4, <1>5, <1>6 DEF IInv

\* A program that ends in any way keeps the invariant if its text stays.
LEMMA EndClean ==
    ASSUME IInv, Tame, file' = file, TypeOK',
           status' \notin {"loading", "running"},
           mem'.TEXT_TOP = mem.TEXT_TOP, mem'.cell = mem.cell
    PROVE  IInv'
<1>1. TextHoldsLines'
    BY TameParts DEF TextHoldsLines, IsInstr, encode
<1>2. LoadingAgrees' /\ StackIsClean'
    BY DEF LoadingAgrees, StackIsClean
<1> QED
    BY <1>1, <1>2 DEF IInv

\* Loading keeps the invariant.
LEMMA ReadLineClean ==
    ASSUME IInv, Tame, ReadLine, file' = file, Tame', TypeOK'
    PROVE  IInv'
<1> DEFINE l == file[line]
<1>1. status = "loading" /\ line <= Len(file)
    BY DEF ReadLine
<1>2. TypeOK /\ LoadingAgrees
    BY TameParts
<1>3. line \in Nat /\ line >= 1 /\ line \in DOMAIN file
    BY <1>1, <1>2, LineType
<1>4. CASE l.kind \in {"text", "data"} /\ Turn(l.kind)
    BY <1>1, <1>3, <1>4, BlockBegins, TurnClean DEF IsInstr
<1>5. CASE Turn("none")
    BY <1>1, <1>5, TurnClean
<1>6. CASE l.kind = "datum" /\ segment = "data" /\ Place(l.address, l.word)
    BY <1>1, <1>6, PlaceDatumClean
<1>7. CASE l.kind = "instr" /\ segment = "text" /\ Place(mem.TEXT_TOP, encode(l))
    BY <1>1, <1>7, PlaceInstrClean DEF IsInstr
<1>8. CASE Throw
    BY <1>8, EndClean DEF Throw
<1>9. ~(l.kind = "datum" /\ segment = "text")
    BY <1>1, <1>2, <1>3 DEF LoadingAgrees, Tame
<1> QED
    BY <1>4, <1>5, <1>6, <1>7, <1>8, <1>9 DEF ReadLine

\* The instruction at PC is one of the file, so that its operand is, too.
LEMMA Fetched ==
    ASSUME IInv, Tame, status = "running", NEW instr \in read(mem, PC)
    PROVE  /\ PC - TEXT_SEG_BASE \in 0..(mem.TEXT_TOP - TEXT_SEG_BASE - 1)
           /\ instr = mem.cell[PC - TEXT_SEG_BASE]
           /\ instr \in Word
           /\ OpOf(instr) = PUSH => AddressOf(instr) \in Name
           /\ OpOf(instr) = POP => AddressOf(instr) \in Name \cup Onto
<1> DEFINE c == PC - TEXT_SEG_BASE
<1>1. TypeOK /\ TextHoldsLines
    BY TameParts
<1>2. /\ PC \in Nat /\ PC >= TEXT_SEG_BASE /\ PC < mem.TEXT_TOP
      /\ mem.TEXT_TOP \in Nat /\ mem.TEXT_TOP <= TEXT_SEG_BASE + TEXT_SEG_LENGTH
    BY <1>1, MemoryType DEF TypeOK, TextHoldsLines
<1>3. c \in 0..(mem.TEXT_TOP - TEXT_SEG_BASE - 1) /\ c \in Cells
    BY <1>2, Constants DEF Cells
<1>4. CellOf(PC) = c /\ IsCell(PC)
    BY <1>2, <1>3, Constants DEF CellOf, IsCell, InTextSeg
<1>5. instr = mem.cell[c]
    BY <1>4 DEF read
<1>6. PICK n \in DOMAIN file : IsInstr(file[n]) /\ mem.cell[c] = encode(file[n])
    BY <1>1, <1>3 DEF TextHoldsLines
<1>7. file[n] \in Lines /\ file[n].kind = "instr"
    BY <1>1, <1>6, LineType DEF IsInstr
<1>8. /\ instr \in Word /\ OpOf(instr) = file[n].op
      /\ file[n].op \notin {SUB, DIV, END} => AddressOf(instr) = file[n].address
    BY <1>5, <1>6, <1>7, EncodeType
<1>9. OpOf(instr) \in {PUSH, POP} => AddressOf(instr) = file[n].address
    BY <1>8 DEF SUB, DIV, END, PUSH, POP
<1> QED
    BY <1>3, <1>5, <1>6, <1>8, <1>9 DEF Tame

\* An instruction that leaves the text alone, and zeros above the stack.
LEMMA ProceedClean ==
    ASSUME IInv, Tame, file' = file, TypeOK', status = "running",
           NEW m, Proceed(m), m.TEXT_TOP = mem.TEXT_TOP,
           \A c \in Cells : c < TEXT_SEG_LENGTH => m.cell[c] = mem.cell[c],
           \A c \in Cells : c >= FirstOfStack + (m.TOS - STACK_SEG_BASE) =>
               m.cell[c] = 0
    PROVE  IInv'
<1>1. mem' = m /\ status' \in {"running", "complete"}
    BY DEF Proceed
<1>2. TypeOK /\ TextHoldsLines
    BY TameParts
<1>3. TextHoldsLines'
  <2>1. ASSUME NEW c \in 0..(mem.TEXT_TOP - TEXT_SEG_BASE - 1)
        PROVE  m.cell[c] = mem.cell[c]
    <3>1. mem.TEXT_TOP \in Nat /\ mem.TEXT_TOP <= TEXT_SEG_BASE + TEXT_SEG_LENGTH
        BY <1>2, MemoryType DEF TextHoldsLines
    <3>2. c \in Cells /\ c < TEXT_SEG_LENGTH
        BY <3>1, Constants DEF Cells
    <3> QED
        BY <3>2
  <2> QED
      BY <2>1, <1>1, <1>2 DEF TextHoldsLines, IsInstr, encode
<1>4. LoadingAgrees'
    BY <1>1 DEF LoadingAgrees
<1>5. StackIsClean'
    BY <1>1 DEF StackIsClean, Depth
<1> QED
    BY <1>3, <1>4, <1>5 DEF IInv

\* Execution keeps the invariant: an instruction writes to the data segment
\* or to the top of the stack, and it clears what it takes.
LEMMA ExecuteClean ==
    ASSUME IInv, Tame, execute, file' = file, Tame', TypeOK'
    PROVE  IInv'
<1>1. status = "running" /\ TypeOK
    BY DEF execute, IInv
<1>2. PICK instr \in read(mem, PC) :
          Push(instr) \/ Pop(instr) \/ Operate(instr) \/ EndInstr(instr)
            \/ Break(instr)
    BY DEF execute
<1>3. /\ instr \in Word
      /\ OpOf(instr) = POP => AddressOf(instr) \in Name \cup Onto
    BY <1>1, Fetched
<1>4. /\ mem.cell \in [Cells -> Word] /\ mem.TOS \in Nat /\ mem.TEXT_TOP \in Nat
      /\ Depth \in Nat /\ Depth = mem.TOS - STACK_SEG_BASE
      /\ FirstOfStack \in Nat /\ FirstOfStack >= TEXT_SEG_LENGTH
    BY <1>1, MemoryType, Constants DEF FirstOfStack, Depth
<1>5. \A c \in Cells : c >= FirstOfStack + Depth => mem.cell[c] = 0
    BY <1>1, TameParts
<1>6. \A c \in Cells : c \in Nat
    BY Constants DEF Cells
<1>7. CASE Push(instr)
  <2>1. PICK val \in Word :
            LET m == write(mem, mem.TOS, val)
            IN  /\ Proceed(m)
                /\ m.TOS = mem.TOS + 1
                /\ m.TEXT_TOP = mem.TEXT_TOP
                /\ m.cell = [mem.cell EXCEPT ![FirstOfStack + Depth] = val]
      BY <1>1, <1>3, <1>7, PushResult
  <2> DEFINE m == write(mem, mem.TOS, val)
  <2>2. /\ Proceed(m) /\ m.TEXT_TOP = mem.TEXT_TOP
        /\ m.TOS - STACK_SEG_BASE = Depth + 1
        /\ m.cell = [mem.cell EXCEPT ![FirstOfStack + Depth] = val]
      BY <2>1, <1>4, Constants
  <2> HIDE DEF m
  <2>3. ASSUME NEW c \in Cells, c < TEXT_SEG_LENGTH
        PROVE  m.cell[c] = mem.cell[c]
    <3>1. c # FirstOfStack + Depth
        BY <2>3, <1>4, <1>6, Constants
    <3> QED
        BY <3>1, <2>2, <1>4
  <2>4. ASSUME NEW c \in Cells, c >= FirstOfStack + (m.TOS - STACK_SEG_BASE)
        PROVE  m.cell[c] = 0
    <3>1. c # FirstOfStack + Depth /\ c >= FirstOfStack + Depth
        BY <2>2, <2>4, <1>4, <1>6
    <3> QED
        BY <3>1, <2>2, <1>4, <1>5
  <2> QED
      BY <1>1, <2>2, <2>3, <2>4, ProceedClean
<1>8. CASE Pop(instr)
  <2> DEFINE a == AddressOf(instr)
             top == FirstOfStack + Depth - 1
             t == Target(Below(mem), a)
             cleared == [mem.cell EXCEPT ![top] = 0]
  <2>1. /\ Depth >= 1 /\ Stacked(Depth - 1) \in Word /\ Writable(Below(mem), a)
        /\ \E m : /\ Proceed(m)
                  /\ m.TOS = mem.TOS - 1 + (IF InStackSeg(a) THEN 1 ELSE 0)
                  /\ m.TEXT_TOP = mem.TEXT_TOP + (IF InTextSeg(a) THEN 1 ELSE 0)
                  /\ m.cell = [cleared EXCEPT ![t] = Stacked(Depth - 1)]
      BY <1>1, <1>3, <1>8, PopResult
  <2>2. PICK m : /\ Proceed(m)
                 /\ m.TOS = mem.TOS - 1 + (IF InStackSeg(a) THEN 1 ELSE 0)
                 /\ m.TEXT_TOP = mem.TEXT_TOP + (IF InTextSeg(a) THEN 1 ELSE 0)
                 /\ m.cell = [cleared EXCEPT ![t] = Stacked(Depth - 1)]
      BY <2>1
  <2>3. a \in Nat /\ (a \in Name \/ a \in Onto)
      BY <1>3, <1>8, AddressOfType, Constants DEF Pop, Address
  <2>4. /\ Below(mem) \in Memory /\ Below(mem).TOS = mem.TOS - 1
      BY <1>1, <1>4, <2>1, MemoryType, BelowType, Constants
  <2>5. ~InTextSeg(a)
      BY <2>3, Constants DEF Name, Onto, InTextSeg
  <2>6. m.TEXT_TOP = mem.TEXT_TOP
      BY <2>2, <2>5, <1>4
  <2>7. /\ t >= TEXT_SEG_LENGTH /\ t \in Nat
        /\ t < FirstOfStack + (m.TOS - STACK_SEG_BASE)
        /\ m.TOS - STACK_SEG_BASE >= Depth - 1 /\ m.TOS \in Int
        /\ t # top => m.TOS - STACK_SEG_BASE = Depth - 1
        /\ t = top => m.TOS - STACK_SEG_BASE = Depth
    <3>1. CASE a \in Name
      <4>1. InDataSeg(a) /\ ~InStackSeg(a)
          BY <3>1, <2>3, Constants DEF Name, InDataSeg, InStackSeg
      <4>2. t = TEXT_SEG_LENGTH + a - DATA_SEG_BASE
          BY <4>1, <2>1, <2>3, <2>4, TargetIsCell
      <4>3. t >= TEXT_SEG_LENGTH /\ t < FirstOfStack /\ t \in Nat
          BY <4>2, <3>1, <2>3, Constants DEF Name, FirstOfStack
      <4>4. m.TOS = mem.TOS - 1
          BY <4>1, <2>2, <1>4
      <4>5. m.TOS - STACK_SEG_BASE = Depth - 1 /\ m.TOS \in Int
          BY <4>4, <1>4, Constants
      <4> QED
          BY <4>3, <4>5, <1>4, <2>1
    <3>2. CASE a \in Onto
      <4>1. InStackSeg(a)
          BY <3>2, Constants DEF Onto, InStackSeg
      <4>2. t = FirstOfStack + ((mem.TOS - 1) - STACK_SEG_BASE)
          BY <4>1, <2>1, <2>3, <2>4, TargetIsCell
      <4>3. t = top /\ t >= TEXT_SEG_LENGTH /\ t \in Nat
          BY <4>2, <1>4, <2>1, Constants
      <4>4. m.TOS = mem.TOS - 1 + 1
          BY <4>1, <2>2
      <4>5. m.TOS - STACK_SEG_BASE = Depth /\ m.TOS \in Int
          BY <4>4, <1>4, Constants
      <4> QED
          BY <4>3, <4>5, <1>4, <2>1
    <3> QED
        BY <2>3, <3>1, <3>2
  <2> HIDE DEF a, t
  <2>8. ASSUME NEW c \in Cells, c < TEXT_SEG_LENGTH
        PROVE  m.cell[c] = mem.cell[c]
    <3>1. c # t /\ c # top
        BY <2>7, <2>8, <2>1, <1>4, <1>6, Constants
    <3> QED
        BY <3>1, <2>2, <1>4
  <2>9. ASSUME NEW c \in Cells, c >= FirstOfStack + (m.TOS - STACK_SEG_BASE)
        PROVE  m.cell[c] = 0
    <3>1. c # t /\ (c = top \/ c >= FirstOfStack + Depth)
        BY <2>7, <2>9, <2>1, <1>4, <1>6, Constants
    <3> QED
        BY <3>1, <2>2, <1>4, <1>5
  <2> QED
      BY <1>1, <2>2, <2>6, <2>8, <2>9, ProceedClean
<1>9. CASE Operate(instr)
  <2> DEFINE top == FirstOfStack + Depth - 1
             next == FirstOfStack + Depth - 2
             result == Result(OpOf(instr), Stacked(Depth - 2), Stacked(Depth - 1))
  <2>1. /\ Depth >= 2
        /\ \E m : /\ Proceed(m) /\ m.TOS = mem.TOS - 1
                  /\ m.TEXT_TOP = mem.TEXT_TOP
                  /\ m.cell = [[mem.cell EXCEPT ![top] = 0] EXCEPT ![next] = result]
      BY <1>1, <1>3, <1>9, OperateResult
  <2> HIDE DEF result
  <2>2. PICK m : /\ Proceed(m) /\ m.TOS = mem.TOS - 1
                 /\ m.TEXT_TOP = mem.TEXT_TOP
                 /\ m.cell = [[mem.cell EXCEPT ![top] = 0] EXCEPT ![next] = result]
      BY <2>1
  <2>3. m.TOS - STACK_SEG_BASE = Depth - 1
      BY <2>2, <1>4, Constants
  <2>4. ASSUME NEW c \in Cells, c < TEXT_SEG_LENGTH
        PROVE  m.cell[c] = mem.cell[c]
    <3>1. c # top /\ c # next
        BY <2>1, <2>4, <1>4, <1>6, Constants
    <3> QED
        BY <3>1, <2>2, <1>4
  <2>5. ASSUME NEW c \in Cells, c >= FirstOfStack + (m.TOS - STACK_SEG_BASE)
        PROVE  m.cell[c] = 0
    <3>1. c # next /\ (c = top \/ c >= FirstOfStack + Depth)
        BY <2>1, <2>3, <2>5, <1>4, <1>6
    <3> QED
        BY <3>1, <2>2, <1>4, <1>5
  <2> QED
      BY <1>1, <2>2, <2>4, <2>5, ProceedClean
<1>10. CASE EndInstr(instr)
    BY <1>1, <1>3, <1>10, EndResult, EndClean
<1>11. CASE Break(instr)
    BY <1>11, EndClean DEF Break, Fail
<1> QED
    BY <1>2, <1>7, <1>8, <1>9, <1>10, <1>11

\* The beginning of execution keeps the invariant.
LEMMA StartClean ==
    ASSUME IInv, Tame, Start, file' = file, TypeOK'
    PROVE  IInv'
<1>1. /\ status = "loading" /\ status' \in {"running", "complete"}
      /\ UNCHANGED <<file, line, segment, mem, PC, answer>>
    BY DEF Start
<1>2. TextHoldsLines'
    BY <1>1, TameParts DEF TextHoldsLines, IsInstr, encode
<1>3. LoadingAgrees' /\ StackIsClean'
    BY <1>1, TameParts DEF LoadingAgrees, StackIsClean, Depth
<1> QED
    BY <1>2, <1>3 DEF IInv

LEMMA InitClean == ASSUME Init PROVE IInv
<1>1. TypeOK
    BY InitType
<1>2. /\ mem.cell = [c \in Cells |-> 0] /\ mem.TEXT_TOP = TEXT_SEG_BASE
      /\ mem.TOS = STACK_SEG_BASE /\ PC = TEXT_SEG_BASE
      /\ line = 1 /\ segment = "none"
    BY DEF Init
<1>3. StackIsClean
    BY <1>2 DEF StackIsClean
<1>4. TextHoldsLines
  <2>1. 0..(TEXT_SEG_BASE - TEXT_SEG_BASE - 1) = {}
      BY Constants
  <2> QED
      BY <1>2, <2>1, Constants DEF TextHoldsLines
<1>5. LoadingAgrees
  <2>1. Cardinality(InstrLines(line)) \in Nat
      BY <1>2, InstrLinesGrow
  <2> QED
      BY <1>2, <2>1, Constants DEF LoadingAgrees
<1> QED
    BY <1>1, <1>3, <1>4, <1>5 DEF IInv

LEMMA NextClean == ASSUME IInv, [Next]_vars PROVE IInv'
<1>1. TypeOK' /\ file' = file /\ Tame' = Tame
    BY NextType, FileStays DEF IInv
<1>2. CASE ~Tame
    BY <1>1, <1>2 DEF IInv, StackIsClean
<1>3. CASE Tame
  <2>1. CASE ReadLine
      BY <1>1, <1>3, <2>1, ReadLineClean
  <2>2. CASE Start
      BY <1>1, <1>3, <2>2, StartClean
  <2>3. CASE execute
      BY <1>1, <1>3, <2>3, ExecuteClean
  <2>4. CASE UNCHANGED vars
    <3>1. TextHoldsLines'
        BY <1>3, <2>4, TameParts DEF vars, TextHoldsLines, IsInstr, encode
    <3>2. LoadingAgrees'
        BY <1>3, <2>4, TameParts
           DEF vars, LoadingAgrees, Belongs, InstrLines, IsInstr
    <3>3. StackIsClean'
        BY <1>3, <2>4, TameParts DEF vars, StackIsClean, Depth
    <3> QED
        BY <1>1, <3>1, <3>2, <3>3 DEF IInv
  <2> QED
      BY <2>1, <2>2, <2>3, <2>4 DEF Next
<1> QED
    BY <1>2, <1>3

\* What an instruction takes from the stack is not found there any more
\* (stackSim.cpp:60-64 and 76-80), for every file that keeps to its segments,
\* however long it runs: POP writes by the address it is given, so it takes
\* the whole invariant to know that it leaves the text alone.
THEOREM CleanStack == Spec => []StackIsClean
<1>1. Init => IInv
    BY InitClean
<1>2. IInv /\ [Next]_vars => IInv'
    BY NextClean
<1>3. IInv => StackIsClean
    BY DEF IInv
<1> QED
    BY <1>1, <1>2, <1>3, PTL DEF Spec

(***************************************************************************)
(* What the calculator sees of the memory                                  *)
(***************************************************************************)

Items == [op : Nat, address : Address]

LEMMA ItemType ==
    ASSUME NEW w \in Word PROVE Item(w) \in Items
<1>1. w \in Nat
    BY WordIsNat
<1>2. w \div AddressSize \in Nat
    BY <1>1, Constants, Z3
<1> QED
    BY <1>2, AddressOfType DEF Items, Item, OpOf

\* A function on an interval is a sequence.
LEMMA IntervalSeq ==
    ASSUME NEW S, NEW n \in Nat, NEW f \in [1..n -> S]
    PROVE  f \in Seq(S) /\ Len(f) = n
<1>1. f \in Seq(S)
    BY SeqDef
<1>2. DOMAIN f = 1..n /\ DOMAIN f = 1..Len(f) /\ Len(f) \in Nat
    BY <1>1, LenProperties
<1> QED
    BY <1>1, <1>2

LEMMA TextPicture ==
    ASSUME NEW cell \in [Cells -> Word], NEW k \in 0..TEXT_SEG_LENGTH,
           NEW p, p = [n \in 1..k |-> Item(cell[n - 1])]
    PROVE  /\ p \in Seq(Items) /\ Len(p) = k
           /\ \A n \in 1..k : p[n] = Item(cell[n - 1])
<1>1. k \in Nat
    BY Constants
<1>2. ASSUME NEW n \in 1..k PROVE Item(cell[n - 1]) \in Items
  <2>1. n - 1 \in Cells
      BY Constants DEF Cells
  <2> QED
      BY <2>1, ItemType
<1>3. p \in [1..k -> Items]
    BY <1>2
<1> QED
    BY <1>1, <1>3, IntervalSeq

LEMMA StackPicture ==
    ASSUME NEW cell \in [Cells -> Word], NEW d \in Nat, d <= STACK_SEG_LENGTH + 1,
           NEW s, s = [n \in 1..d |-> cell[FirstOfStack + n - 1]]
    PROVE  /\ s \in Seq(Word) /\ Len(s) = d
           /\ \A n \in 1..d : s[n] = cell[FirstOfStack + n - 1]
<1>1. ASSUME NEW n \in 1..d PROVE cell[FirstOfStack + n - 1] \in Word
  <2>1. FirstOfStack + n - 1 \in Cells
      BY Constants DEF Cells, FirstOfStack
  <2> QED
      BY <2>1
<1>2. s \in [1..d -> Word]
    BY <1>1
<1> QED
    BY <1>2, IntervalSeq

\* The cells of the numbers.
LEMMA NameCell ==
    ASSUME NEW d \in Name
    PROVE  /\ CellOf(d) = TEXT_SEG_LENGTH + d - DATA_SEG_BASE
           /\ CellOf(d) \in Cells /\ CellOf(d) \in Nat
           /\ TEXT_SEG_LENGTH <= CellOf(d) /\ CellOf(d) < FirstOfStack
           /\ IsCell(d) /\ d \in Nat
           /\ InDataSeg(d) /\ ~InTextSeg(d) /\ ~InStackSeg(d)
           /\ \A m : Writable(m, d)
<1>1. /\ d \in Nat /\ DATA_SEG_BASE <= d /\ d < DATA_SEG_BASE + DATA_SEG_LENGTH
    BY Constants DEF Name
<1>2. InDataSeg(d) /\ ~InTextSeg(d) /\ ~InStackSeg(d)
    BY <1>1, Constants DEF InDataSeg, InTextSeg, InStackSeg
<1>3. CellOf(d) = TEXT_SEG_LENGTH + d - DATA_SEG_BASE
    BY <1>2 DEF CellOf
<1>4. /\ CellOf(d) \in Cells /\ CellOf(d) \in Nat
      /\ TEXT_SEG_LENGTH <= CellOf(d) /\ CellOf(d) < FirstOfStack
    BY <1>1, <1>3, Constants DEF Cells, FirstOfStack
<1>5. IsCell(d)
    BY <1>1, <1>4, Constants DEF IsCell
<1>6. \A m : Writable(m, d)
    BY <1>1, <1>2, Constants DEF Writable
<1> QED
    BY <1>1, <1>2, <1>3, <1>4, <1>5, <1>6

\* The pictures of a tame file.
LEMMA Pictures ==
    /\ Tame => /\ Program = [n \in 1..(mem.TEXT_TOP - TEXT_SEG_BASE) |->
                                Item(mem.cell[n - 1])]
               /\ Store = [d \in Name |-> mem.cell[CellOf(d)]]
               /\ Stack = [n \in 1..Depth |-> mem.cell[FirstOfStack + n - 1]]
               /\ Counter = PC - TEXT_SEG_BASE + 1
               /\ Status = status /\ Answer = answer
    /\ Tame' => /\ Program' = [n \in 1..(mem'.TEXT_TOP - TEXT_SEG_BASE) |->
                                  Item(mem'.cell[n - 1])]
                /\ Store' = [d \in Name |-> mem'.cell[CellOf(d)]]
                /\ Stack' = [n \in 1..Depth' |-> mem'.cell[FirstOfStack + n - 1]]
                /\ Counter' = PC' - TEXT_SEG_BASE + 1
                /\ Status' = status' /\ Answer' = answer'
BY DEF Program, Store, Stack, Counter, Status, Answer, Of

\* What stays as it is in memory stays as it is in the picture.
LEMMA ProgramStays ==
    ASSUME IInv, Tame, Tame', status # "answered",
           mem'.TEXT_TOP = mem.TEXT_TOP,
           \A c \in Cells : c < TEXT_SEG_LENGTH => mem'.cell[c] = mem.cell[c]
    PROVE  Program' = Program
<1> DEFINE k == mem.TEXT_TOP - TEXT_SEG_BASE
<1>1. TypeOK /\ TextHoldsLines
    BY TameParts
<1>2. k \in 0..TEXT_SEG_LENGTH
    BY <1>1, MemoryType, Constants DEF TextHoldsLines
<1>3. ASSUME NEW n \in 1..k PROVE mem'.cell[n - 1] = mem.cell[n - 1]
  <2>1. n - 1 \in Cells /\ n - 1 < TEXT_SEG_LENGTH
      BY <1>2, Constants DEF Cells
  <2> QED
      BY <2>1
<1>4. /\ Program = [n \in 1..k |-> Item(mem.cell[n - 1])]
      /\ Program' = [n \in 1..k |-> Item(mem'.cell[n - 1])]
    BY Pictures
<1> HIDE DEF k
<1> QED
    BY <1>3, <1>4

LEMMA StoreStays ==
    ASSUME Tame, Tame',
           \A c \in Cells : TEXT_SEG_LENGTH <= c /\ c < FirstOfStack =>
               mem'.cell[c] = mem.cell[c]
    PROVE  Store' = Store
<1>1. \A d \in Name : mem'.cell[CellOf(d)] = mem.cell[CellOf(d)]
    BY NameCell
<1> QED
    BY <1>1, Pictures

LEMMA StackStays ==
    ASSUME IInv, Tame, Tame', status # "answered", mem'.TOS = mem.TOS,
           \A c \in Cells : FirstOfStack <= c => mem'.cell[c] = mem.cell[c]
    PROVE  Stack' = Stack
<1>1. Depth' = Depth /\ Depth \in Nat /\ Depth <= STACK_SEG_LENGTH + 1
    BY MemoryType DEF Depth, IInv
<1>2. ASSUME NEW n \in 1..Depth
      PROVE  mem'.cell[FirstOfStack + n - 1] = mem.cell[FirstOfStack + n - 1]
  <2>1. FirstOfStack + n - 1 \in Cells /\ FirstOfStack <= FirstOfStack + n - 1
      BY <1>1, Constants DEF Cells, FirstOfStack
  <2> QED
      BY <2>1
<1>3. /\ Stack = [n \in 1..Depth |-> mem.cell[FirstOfStack + n - 1]]
      /\ Stack' = [n \in 1..Depth |-> mem'.cell[FirstOfStack + n - 1]]
    BY <1>1, Pictures
<1> QED
    BY <1>2, <1>3

\* The calculator has the same words.
LEMMA SameWords ==
    /\ C!Word = Word /\ C!Address = Address /\ C!OpCodes = OpCodes
    /\ C!Operators = Operators
    /\ C!PUSH = PUSH /\ C!POP = POP /\ C!END = END /\ C!DIV = DIV
    /\ \A op, v, w : C!Result(op, v, w) = Result(op, v, w)
<1>1. /\ C!ADD = ADD /\ C!SUB = SUB /\ C!MULT = MULT /\ C!DIV = DIV
      /\ C!PUSH = PUSH /\ C!POP = POP /\ C!LOAD = LOAD /\ C!STORE = STORE
      /\ C!END = END /\ C!WordSize = WordSize
    BY DEF C!ADD, C!SUB, C!MULT, C!DIV, C!PUSH, C!POP, C!LOAD, C!STORE, C!END,
           C!WordSize, ADD, SUB, MULT, DIV, PUSH, POP, LOAD, STORE, END, WordSize
<1>2. C!Word = Word /\ C!Address = Address
    BY <1>1 DEF C!Word, C!Address, Word, Address
<1>3. C!OpCodes = OpCodes /\ C!Operators = Operators
    BY <1>1 DEF C!OpCodes, C!Operators, OpCodes, Operators
<1>4. ASSUME NEW op, NEW v, NEW w PROVE C!Result(op, v, w) = Result(op, v, w)
    BY <1>1 DEF C!Result, Result
<1> QED
    BY <1>1, <1>2, <1>3, <1>4

(***************************************************************************)
(* Loading                                                                 *)
(***************************************************************************)

\* An instruction is read: it is entered.
LEMMA InstrIsEntered ==
    ASSUME IInv, Tame, Tame', status = "loading", line <= Len(file),
           IsInstr(file[line]), segment = "text",
           Place(mem.TEXT_TOP, encode(file[line]))
    PROVE  C!Enter
<1> DEFINE k == mem.TEXT_TOP - TEXT_SEG_BASE
           w == encode(file[line])
           item == Item(w)
<1>1. TypeOK
    BY TameParts
<1>2. /\ mem.cell \in [Cells -> Word] /\ mem.TEXT_TOP \in Nat
    BY <1>1, MemoryType
<1>3. /\ k \in Nat /\ k < TEXT_SEG_LENGTH /\ w \in Word
      /\ mem'.cell = [mem.cell EXCEPT ![k] = w]
      /\ mem'.TOS = mem.TOS /\ mem'.TEXT_TOP = mem.TEXT_TOP + 1
      /\ UNCHANGED <<PC, status, answer>>
    BY PlaceInstrResult
<1>4. item \in Items /\ item \in C!Item
  <2>1. file[line] \in Lines /\ file[line].kind = "instr"
      BY <1>1, LineType DEF IsInstr
  <2>2. OpOf(w) \in OpCodes
      BY <2>1, EncodeType
  <2> QED
      BY <2>2, <1>3, ItemType, AddressOfType, SameWords DEF Item, C!Item
<1> HIDE DEF k
<1>5. k \in Cells /\ k + 1 \in 0..TEXT_SEG_LENGTH /\ k \in 0..TEXT_SEG_LENGTH
    BY <1>3, Constants DEF Cells
<1>6. /\ Program = [n \in 1..k |-> Item(mem.cell[n - 1])]
      /\ Program' = [n \in 1..(k + 1) |-> Item(mem'.cell[n - 1])]
  <2>a. mem.TEXT_TOP \in Nat /\ TEXT_SEG_BASE \in Nat
      BY <1>2, Constants
  <2>1. (mem.TEXT_TOP + 1) - TEXT_SEG_BASE = k + 1
      BY <2>a DEF k
  <2>2. mem'.TEXT_TOP - TEXT_SEG_BASE = k + 1
      BY <1>3, <2>1
  <2> QED
      BY <2>2, Pictures DEF k
<1>7. mem'.cell \in [Cells -> Word]
    BY <1>2, <1>3, <1>5
<1> HIDE DEF w, item
<1>8. /\ Program \in Seq(Items) /\ Len(Program) = k
      /\ \A n \in 1..k : Program[n] = Item(mem.cell[n - 1])
    BY <1>2, <1>5, <1>6, TextPicture
<1>9. /\ Program' \in Seq(Items) /\ Len(Program') = k + 1
      /\ \A n \in 1..(k + 1) : Program'[n] = Item(mem'.cell[n - 1])
    BY <1>5, <1>6, <1>7, TextPicture
<1>10. Program'[k + 1] = item
  <2>1. k + 1 \in 1..(k + 1) /\ (k + 1) - 1 = k
      BY <1>3
  <2>2. mem'.cell[k] = w
      BY <1>2, <1>3, <1>5
  <2> QED
      BY <2>1, <2>2, <1>9 DEF item
<1>11. Program' = Append(Program, item)
  <2>1. /\ Append(Program, item) \in Seq(Items)
        /\ Len(Append(Program, item)) = k + 1
        /\ \A n \in 1..k : Append(Program, item)[n] = Program[n]
        /\ Append(Program, item)[k + 1] = item
      BY <1>4, <1>8, AppendProperties
  <2>2. ASSUME NEW n \in 1..(k + 1)
        PROVE  Program'[n] = Append(Program, item)[n]
    <3>1. CASE n = k + 1
        BY <3>1, <2>1, <1>10
    <3>2. CASE n # k + 1
      <4>1. n \in 1..k /\ n - 1 \in Cells /\ n - 1 # k
          BY <3>2, <1>3, Constants DEF Cells
      <4>2. mem'.cell[n - 1] = mem.cell[n - 1]
          BY <4>1, <1>2, <1>3
      <4> QED
          BY <4>1, <4>2, <2>1, <1>8, <1>9
    <3> QED
        BY <3>1, <3>2
  <2> QED
      BY <2>1, <2>2, <1>9, SeqEqual
<1>12. Program' # <<>> /\ Program'[Len(Program')] = item
    BY <1>3, <1>9, <1>10
<1>13. Store' = Store
  <2>1. \A c \in Cells : TEXT_SEG_LENGTH <= c => mem'.cell[c] = mem.cell[c]
      BY <1>2, <1>3, Constants
  <2> QED
      BY <2>1, StoreStays
<1>14. Stack' = Stack
  <2>a. FirstOfStack \in Nat /\ TEXT_SEG_LENGTH <= FirstOfStack
      BY Constants DEF FirstOfStack
  <2>b. k \in Nat /\ k < TEXT_SEG_LENGTH
      BY <1>3
  <2>1. k < FirstOfStack /\ FirstOfStack \in Nat
      BY <2>a, <2>b, Constants
  <2>2. \A c \in Cells : FirstOfStack <= c => c # k
      BY <1>3, <2>1
  <2>3. \A c \in Cells : FirstOfStack <= c => mem'.cell[c] = mem.cell[c]
      BY <2>2, <1>2, <1>3
  <2> QED
      BY <2>3, <1>3, StackStays
<1>15. /\ Status = "loading" /\ Status' = Status
       /\ Counter' = Counter /\ Answer' = Answer
    BY <1>3, Pictures
<1> QED
    BY <1>4, <1>11, <1>12, <1>13, <1>14, <1>15 DEF C!Enter

\* A number is read: it is recorded.
LEMMA DatumIsRecorded ==
    ASSUME IInv, Tame, Tame', status = "loading", line <= Len(file),
           file[line].kind = "datum", segment = "data",
           Place(file[line].address, file[line].word)
    PROVE  C!Record
<1> DEFINE a == file[line].address
           t == TEXT_SEG_LENGTH + a - DATA_SEG_BASE
           w == file[line].word
<1>1. TypeOK
    BY TameParts
<1>2. mem.cell \in [Cells -> Word]
    BY <1>1, MemoryType
<1>3. /\ a \in Name /\ w \in Word
      /\ t \in TEXT_SEG_LENGTH..(FirstOfStack - 1)
      /\ mem'.cell = [mem.cell EXCEPT ![t] = w]
      /\ mem'.TOS = mem.TOS /\ mem'.TEXT_TOP = mem.TEXT_TOP
      /\ UNCHANGED <<PC, status, answer>>
    BY PlaceDatumResult
<1>4. t \in Nat /\ t >= TEXT_SEG_LENGTH /\ t < FirstOfStack /\ t \in Cells
    BY <1>3, Constants DEF Cells, FirstOfStack
<1>5. CellOf(a) = t
    BY <1>3, NameCell
<1>6. \A d \in Name : CellOf(d) = t => d = a
  <2>1. SUFFICES ASSUME NEW d \in Name, CellOf(d) = t PROVE d = a
      OBVIOUS
  <2>2. CellOf(d) = TEXT_SEG_LENGTH + d - DATA_SEG_BASE /\ d \in Nat /\ a \in Nat
      BY <1>3, NameCell
  <2> QED
      BY <2>1, <2>2, Constants
<1> HIDE DEF a, t, w
<1>7. /\ Store = [d \in Name |-> mem.cell[CellOf(d)]]
      /\ Store' = [d \in Name |-> mem'.cell[CellOf(d)]]
    BY Pictures
<1>8. Store'[a] = w
    BY <1>2, <1>3, <1>4, <1>5, <1>7
<1>9. Store' = [Store EXCEPT ![a] = Store'[a]]
  <2>1. ASSUME NEW d \in Name, d # a PROVE mem'.cell[CellOf(d)] = mem.cell[CellOf(d)]
      BY <2>1, <1>2, <1>3, <1>6, NameCell
  <2> QED
      BY <2>1, <1>7
<1>10. Program' = Program
  <2>1. \A c \in Cells : c < TEXT_SEG_LENGTH => mem'.cell[c] = mem.cell[c]
      BY <1>2, <1>3, <1>4, Constants
  <2> QED
      BY <2>1, <1>3, ProgramStays
<1>11. Stack' = Stack
  <2>1. \A c \in Cells : FirstOfStack <= c => mem'.cell[c] = mem.cell[c]
      BY <1>2, <1>3, <1>4, Constants DEF FirstOfStack
  <2> QED
      BY <2>1, <1>3, StackStays
<1>12. /\ Status = "loading" /\ Status' = Status
       /\ Counter' = Counter /\ Answer' = Answer
    BY <1>3, Pictures
<1> QED
    BY <1>3, <1>8, <1>9, <1>10, <1>11, <1>12, SameWords DEF C!Record

\* Every line that is read is a key that is pressed, or none.
LEMMA LineIsKeyed ==
    ASSUME IInv, Tame, Tame', ReadLine
    PROVE  C!Next \/ UNCHANGED C!vars
<1> DEFINE l == file[line]
<1>1. status = "loading" /\ line <= Len(file)
    BY DEF ReadLine
<1>2. TypeOK /\ LoadingAgrees
    BY TameParts
<1>3. line \in DOMAIN file
    BY <1>1, <1>2, LineType
<1>4. ASSUME NEW d, Turn(d) PROVE UNCHANGED C!vars
  <2>1. UNCHANGED <<mem, PC, status, answer>>
      BY <1>4 DEF Turn
  <2> QED
      BY <2>1, Pictures DEF C!vars, Depth
<1>5. CASE l.kind = "datum" /\ segment = "data" /\ Place(l.address, l.word)
    BY <1>1, <1>5, DatumIsRecorded DEF C!Next
<1>6. CASE l.kind = "instr" /\ segment = "text" /\ Place(mem.TEXT_TOP, encode(l))
    BY <1>1, <1>6, InstrIsEntered DEF C!Next, IsInstr
<1>7. ~(l.kind = "datum" /\ segment = "text")
    BY <1>1, <1>2, <1>3 DEF LoadingAgrees, Tame
<1>8. ~(l.kind = "instr" /\ segment = "data")
    BY <1>1, <1>2, <1>3 DEF LoadingAgrees, Tame, IsInstr
<1> QED
    BY <1>4, <1>5, <1>6, <1>7, <1>8 DEF ReadLine

\* How far the program is carried out.
LEMMA Progress ==
    ASSUME IInv, Tame, status \in {"loading", "running"}
    PROVE  /\ Program \in Seq(Items)
           /\ Len(Program) = mem.TEXT_TOP - TEXT_SEG_BASE
           /\ Len(Program) \in 0..TEXT_SEG_LENGTH
           /\ \A n \in 1..Len(Program) : Program[n] = Item(mem.cell[n - 1])
           /\ PC \in Nat /\ mem.TEXT_TOP \in Nat
           /\ Counter <= Len(Program) <=> PC < mem.TEXT_TOP
           /\ Counter + 1 <= Len(Program) <=> PC + 1 < mem.TEXT_TOP
<1>1. TypeOK /\ TextHoldsLines
    BY TameParts
<1>2. /\ mem.cell \in [Cells -> Word] /\ mem.TEXT_TOP \in Nat /\ PC \in Nat
      /\ mem.TEXT_TOP - TEXT_SEG_BASE \in 0..TEXT_SEG_LENGTH
    BY <1>1, MemoryType, Constants DEF TextHoldsLines, TypeOK
<1>3. /\ Program \in Seq(Items)
      /\ Len(Program) = mem.TEXT_TOP - TEXT_SEG_BASE
      /\ \A n \in 1..(mem.TEXT_TOP - TEXT_SEG_BASE) : Program[n] = Item(mem.cell[n - 1])
    BY <1>2, Pictures, TextPicture
<1>4. Counter = PC - TEXT_SEG_BASE + 1
    BY Pictures
<1> QED
    BY <1>2, <1>3, <1>4, Constants

LEMMA StartIsStart ==
    ASSUME IInv, Tame, Tame', Start
    PROVE  C!Next
<1>1. /\ status = "loading"
      /\ status' = IF PC < mem.TEXT_TOP THEN "running" ELSE "complete"
      /\ UNCHANGED <<mem, PC, answer>>
    BY DEF Start
<1>2. Status = status /\ Status' = status' /\ Answer' = Answer /\ Counter' = Counter
    BY <1>1, Pictures
<1>3. Program' = Program /\ Store' = Store /\ Stack' = Stack
    BY <1>1, Pictures DEF Depth
<1>4. Status' = C!Reached(Counter)
    BY <1>1, <1>2, Progress DEF C!Reached
<1> QED
    BY <1>1, <1>2, <1>3, <1>4 DEF C!Start, C!Next

(***************************************************************************)
(* Execution                                                               *)
(***************************************************************************)

\* The item at the counter is the instruction at PC.
LEMMA CurrentItem ==
    ASSUME IInv, Tame, status = "running", NEW instr \in read(mem, PC)
    PROVE  /\ C!i.op = OpOf(instr) /\ C!i.address = AddressOf(instr)
           /\ C!i.op = PUSH => C!i.address \in Name
           /\ C!i.op = POP => C!i.address \in Name \cup Onto
<1> DEFINE c == PC - TEXT_SEG_BASE
<1>1. /\ c \in 0..(mem.TEXT_TOP - TEXT_SEG_BASE - 1) /\ instr = mem.cell[c]
      /\ OpOf(instr) = PUSH => AddressOf(instr) \in Name
      /\ OpOf(instr) = POP => AddressOf(instr) \in Name \cup Onto
    BY Fetched
<1>2. /\ Len(Program) = mem.TEXT_TOP - TEXT_SEG_BASE /\ Len(Program) \in Nat
      /\ \A n \in 1..Len(Program) : Program[n] = Item(mem.cell[n - 1])
      /\ c \in Int
  <2>1. /\ Len(Program) = mem.TEXT_TOP - TEXT_SEG_BASE
        /\ Len(Program) \in 0..TEXT_SEG_LENGTH
        /\ \A n \in 1..Len(Program) : Program[n] = Item(mem.cell[n - 1])
        /\ PC \in Nat
      BY Progress
  <2>2. c \in Int
      BY <2>1, Constants
  <2>3. Len(Program) \in Nat
      BY <2>1, Constants
  <2> QED
      BY <2>1, <2>2, <2>3
<1>3. Counter = c + 1
    BY Pictures
<1> HIDE DEF c
<1>4. c \in 0..(Len(Program) - 1)
    BY <1>1, <1>2
<1>5. c + 1 \in 1..Len(Program) /\ (c + 1) - 1 = c
    BY <1>2, <1>4
<1>6. C!i = Item(instr)
    BY <1>1, <1>2, <1>3, <1>5 DEF C!i
<1> QED
    BY <1>1, <1>6 DEF Item

\* The stack before a step and, given the memory, after it.
LEMMA OldStack ==
    ASSUME IInv, Tame, status = "running"
    PROVE  /\ Stack \in Seq(Word) /\ Len(Stack) = Depth
           /\ Depth \in Nat /\ Depth <= STACK_SEG_LENGTH + 1
           /\ Depth = mem.TOS - STACK_SEG_BASE /\ mem.TOS \in Nat
           /\ mem.cell \in [Cells -> Word]
           /\ \A n \in 1..Depth : Stack[n] = mem.cell[FirstOfStack + n - 1]
<1>1. TypeOK
    BY DEF IInv
<1>2. /\ Depth \in Nat /\ Depth <= STACK_SEG_LENGTH + 1
      /\ mem.TOS \in Nat /\ mem.cell \in [Cells -> Word]
    BY <1>1, MemoryType
<1>3. Stack = [n \in 1..Depth |-> mem.cell[FirstOfStack + n - 1]]
    BY Pictures
<1> QED
    BY <1>2, <1>3, StackPicture DEF Depth

LEMMA NewStack ==
    ASSUME Tame', mem'.cell \in [Cells -> Word], NEW d \in Nat,
           d <= STACK_SEG_LENGTH + 1, d = mem'.TOS - STACK_SEG_BASE
    PROVE  /\ Stack' \in Seq(Word) /\ Len(Stack') = d
           /\ \A n \in 1..d : Stack'[n] = mem'.cell[FirstOfStack + n - 1]
<1>1. Depth' = d
    BY DEF Depth
<1>2. Stack' = [n \in 1..d |-> mem'.cell[FirstOfStack + n - 1]]
    BY <1>1, Pictures
<1> QED
    BY <1>2, StackPicture

\* The words on top of it.
LEMMA TopsOfStack ==
    ASSUME IInv, Tame, status = "running"
    PROVE  /\ Depth >= 1 => C!Top = Stacked(Depth - 1)
           /\ Depth >= 2 => C!Second = Stacked(Depth - 2)
<1>1. /\ Len(Stack) = Depth /\ Depth \in Nat
      /\ \A n \in 1..Depth : Stack[n] = mem.cell[FirstOfStack + n - 1]
    BY OldStack
<1>2. ASSUME Depth >= 1 PROVE C!Top = Stacked(Depth - 1)
  <2>1. Depth \in 1..Depth /\ FirstOfStack + Depth - 1 = FirstOfStack + (Depth - 1)
      BY <1>1, <1>2, Constants DEF FirstOfStack
  <2> QED
      BY <1>1, <2>1 DEF C!Top, Stacked
<1>3. ASSUME Depth >= 2 PROVE C!Second = Stacked(Depth - 2)
  <2>1. /\ Depth - 1 \in 1..Depth
        /\ FirstOfStack + (Depth - 1) - 1 = FirstOfStack + (Depth - 2)
      BY <1>1, <1>3, Constants DEF FirstOfStack
  <2> QED
      BY <1>1, <2>1 DEF C!Second, Stacked
<1> QED
    BY <1>2, <1>3

\* What an instruction that goes on leaves is the next state.
LEMMA Goes ==
    ASSUME IInv, Tame, Tame', status = "running",
           NEW m, Proceed(m), m.TEXT_TOP = mem.TEXT_TOP,
           \A c \in Cells : c < TEXT_SEG_LENGTH => m.cell[c] = mem.cell[c]
    PROVE  C!Then(Stack', Store')
<1>1. /\ mem' = m /\ PC' = PC + 1 /\ answer' = answer
      /\ status' = IF PC + 1 < mem.TEXT_TOP THEN "running" ELSE "complete"
    BY DEF Proceed
<1>2. Program' = Program
    BY <1>1, ProgramStays
<1>3. Counter' = Counter + 1
  <2>1. PC \in Nat
      BY Progress
  <2> QED
      BY <2>1, <1>1, Pictures, Constants
<1>4. Status' = C!Reached(Counter + 1) /\ Answer' = Answer
    BY <1>1, Pictures, Progress DEF C!Reached
<1> QED
    BY <1>2, <1>3, <1>4 DEF C!Then

LEMMA PushIsPush ==
    ASSUME IInv, Tame, Tame', status = "running", NEW instr \in read(mem, PC),
           Push(instr)
    PROVE  C!Push
<1> DEFINE a == AddressOf(instr)
<1>1. TypeOK /\ instr \in Word
    BY TameParts, Fetched
<1>2. C!i.op = PUSH /\ C!i.address = a /\ a \in Name
    BY CurrentItem DEF Push
<1>3. PICK val \in Word :
          /\ val \in read(mem, a)
          /\ mem.TOS < Room
          /\ LET m == write(mem, mem.TOS, val)
             IN  /\ Proceed(m)
                 /\ m.TOS = mem.TOS + 1
                 /\ m.TEXT_TOP = mem.TEXT_TOP
                 /\ m.cell = [mem.cell EXCEPT ![FirstOfStack + Depth] = val]
    BY <1>1, PushResult
<1> DEFINE m == write(mem, mem.TOS, val)
<1> HIDE DEF m, a
<1>4. /\ Proceed(m) /\ mem' = m /\ m.TOS = mem.TOS + 1 /\ m.TEXT_TOP = mem.TEXT_TOP
      /\ m.cell = [mem.cell EXCEPT ![FirstOfStack + Depth] = val]
    BY <1>3 DEF m, Proceed
<1>5. /\ Stack \in Seq(Word) /\ Len(Stack) = Depth /\ Depth \in Nat
      /\ Depth = mem.TOS - STACK_SEG_BASE /\ mem.TOS \in Nat
      /\ mem.cell \in [Cells -> Word]
      /\ \A n \in 1..Depth : Stack[n] = mem.cell[FirstOfStack + n - 1]
    BY OldStack
<1>6. Depth <= STACK_SEG_LENGTH
    BY <1>3, <1>5, Constants DEF Room
<1>7. FirstOfStack \in Nat /\ FirstOfStack >= TEXT_SEG_LENGTH
    BY Constants DEF FirstOfStack
<1>8. FirstOfStack + Depth \in Cells /\ \A c \in Cells : c \in Nat
    BY <1>5, <1>6, Constants DEF FirstOfStack, Cells
<1>9. val = Store[a]
  <2>1. val = mem.cell[CellOf(a)]
      BY <1>2, <1>3, NameCell DEF read
  <2> QED
      BY <2>1, <1>2, Pictures
<1>10. /\ Stack' \in Seq(Word) /\ Len(Stack') = Depth + 1
       /\ \A n \in 1..(Depth + 1) : Stack'[n] = m.cell[FirstOfStack + n - 1]
  <2>1. m.cell \in [Cells -> Word]
      BY <1>4, <1>5, <1>8
  <2>2. m.TOS - STACK_SEG_BASE = Depth + 1
      BY <1>4, <1>5, Constants
  <2>3. Depth + 1 <= STACK_SEG_LENGTH + 1 /\ Depth + 1 \in Nat
      BY <1>5, <1>6, Constants
  <2> QED
      BY <2>1, <2>2, <2>3, <1>4, NewStack
<1>11. Stack' = Append(Stack, val)
  <2>1. /\ Append(Stack, val) \in Seq(Word)
        /\ Len(Append(Stack, val)) = Depth + 1
        /\ \A n \in 1..Depth : Append(Stack, val)[n] = Stack[n]
        /\ Append(Stack, val)[Depth + 1] = val
      BY <1>5, AppendProperties
  <2>2. ASSUME NEW n \in 1..(Depth + 1) PROVE Stack'[n] = Append(Stack, val)[n]
    <3>1. CASE n = Depth + 1
      <4>1. FirstOfStack + n - 1 = FirstOfStack + Depth
          BY <3>1, <1>5, <1>7
      <4>2. m.cell[FirstOfStack + Depth] = val
          BY <1>4, <1>5, <1>8
      <4> QED
          BY <4>1, <4>2, <3>1, <2>1, <1>10
    <3>2. CASE n # Depth + 1
      <4>1. /\ n \in 1..Depth /\ FirstOfStack + n - 1 # FirstOfStack + Depth
            /\ FirstOfStack + n - 1 \in Cells
          BY <3>2, <1>5, <1>6, <1>7, Constants DEF Cells, FirstOfStack
      <4>2. m.cell[FirstOfStack + n - 1] = mem.cell[FirstOfStack + n - 1]
          BY <4>1, <1>4, <1>5
      <4> QED
          BY <4>1, <4>2, <2>1, <1>5, <1>10
    <3> QED
        BY <3>1, <3>2
  <2> QED
      BY <2>1, <2>2, <1>10, SeqEqual
<1>12. Store' = Store
  <2>1. \A c \in Cells : c < FirstOfStack => m.cell[c] = mem.cell[c]
      BY <1>4, <1>5, <1>7, <1>8
  <2> QED
      BY <2>1, <1>4, StoreStays
<1>13. C!Then(Stack', Store')
  <2>1. \A c \in Cells : c < TEXT_SEG_LENGTH => m.cell[c] = mem.cell[c]
      BY <1>4, <1>5, <1>7, <1>8, Constants
  <2> QED
      BY <2>1, <1>4, Goes
<1>14. Len(Stack) < STACK_SEG_LENGTH + 1
    BY <1>5, <1>6, Constants
<1> QED
    BY <1>2, <1>9, <1>11, <1>12, <1>13, <1>14, SameWords DEF C!Push

\* What is left of the stack when n words are taken.
LEMMA Taken ==
    ASSUME IInv, Tame, status = "running", NEW n \in Nat, n <= Depth
    PROVE  /\ C!Without(n) \in Seq(Word) /\ Len(C!Without(n)) = Depth - n
           /\ \A j \in 1..(Depth - n) : C!Without(n)[j] = Stack[j]
<1>1. Stack \in Seq(Word) /\ Len(Stack) = Depth /\ Depth \in Nat
    BY OldStack
<1>2. \A j \in 1..(Depth - n) : Stack[j] \in Word
    BY <1>1, ElementOfSeq
<1>3. C!Without(n) = SubSeq(Stack, 1, Depth - n)
    BY <1>1 DEF C!Without
<1>4. /\ SubSeq(Stack, 1, Depth - n) \in Seq(Word)
      /\ Len(SubSeq(Stack, 1, Depth - n)) =
            IF 1 <= Depth - n THEN (Depth - n) - 1 + 1 ELSE 0
      /\ \A j \in 1..((Depth - n) - 1 + 1) :
            SubSeq(Stack, 1, Depth - n)[j] = Stack[1 + j - 1]
    BY <1>1, <1>2, SubSeqProperties
<1>5. \A j \in 1..(Depth - n) : 1 + j - 1 = j
    BY <1>1
<1>6. (Depth - n) - 1 + 1 = Depth - n
    BY <1>1
<1>7. Len(SubSeq(Stack, 1, Depth - n)) = Depth - n
    BY <1>1, <1>4
<1> QED
    BY <1>3, <1>4, <1>5, <1>6, <1>7

\* A memory whose stack is the old one without n words.
LEMMA TakenFromMemory ==
    ASSUME IInv, Tame, Tame', status = "running", NEW n \in Nat, n <= Depth,
           mem'.cell \in [Cells -> Word], mem'.TOS = mem.TOS - n,
           \A c \in Cells : FirstOfStack <= c /\ c < FirstOfStack + Depth - n =>
               mem'.cell[c] = mem.cell[c]
    PROVE  Stack' = C!Without(n)
<1>1. /\ Depth \in Nat /\ Depth <= STACK_SEG_LENGTH + 1
      /\ Depth = mem.TOS - STACK_SEG_BASE /\ mem.TOS \in Nat
      /\ \A j \in 1..Depth : Stack[j] = mem.cell[FirstOfStack + j - 1]
    BY OldStack
<1>2. /\ C!Without(n) \in Seq(Word) /\ Len(C!Without(n)) = Depth - n
      /\ \A j \in 1..(Depth - n) : C!Without(n)[j] = Stack[j]
    BY Taken
<1>3. /\ Depth - n \in Nat /\ Depth - n <= STACK_SEG_LENGTH + 1
      /\ Depth - n = mem'.TOS - STACK_SEG_BASE
    BY <1>1, Constants
<1>4. /\ Stack' \in Seq(Word) /\ Len(Stack') = Depth - n
      /\ \A j \in 1..(Depth - n) : Stack'[j] = mem'.cell[FirstOfStack + j - 1]
    BY <1>3, NewStack
<1>5. ASSUME NEW j \in 1..(Depth - n) PROVE Stack'[j] = C!Without(n)[j]
  <2>a. FirstOfStack \in Nat
      BY Constants DEF FirstOfStack
  <2>b. j \in Nat /\ 1 <= j /\ j <= Depth - n
      BY <1>3
  <2>c. Depth \in Nat /\ Depth <= STACK_SEG_LENGTH + 1
      BY <1>1
  <2>d. j \in 1..Depth
      BY <2>b, <2>c
  <2>e. FirstOfStack + j - 1 \in Cells
      BY <2>a, <2>c, <2>d, Constants DEF FirstOfStack, Cells
  <2>f. /\ FirstOfStack <= FirstOfStack + j - 1
        /\ FirstOfStack + j - 1 < FirstOfStack + Depth - n
      BY <2>a, <2>b, <2>c
  <2>1. /\ j \in 1..Depth /\ FirstOfStack + j - 1 \in Cells
        /\ FirstOfStack <= FirstOfStack + j - 1
        /\ FirstOfStack + j - 1 < FirstOfStack + Depth - n
      BY <2>d, <2>e, <2>f
  <2>2. mem'.cell[FirstOfStack + j - 1] = mem.cell[FirstOfStack + j - 1]
      BY <2>1
  <2> QED
      BY <2>1, <2>2, <1>1, <1>2, <1>4
<1> QED
    BY <1>2, <1>4, <1>5, SeqEqual

LEMMA PopIsPop ==
    ASSUME IInv, Tame, Tame', status = "running", NEW instr \in read(mem, PC),
           Pop(instr)
    PROVE  C!Pop \/ C!PopOnto
<1> DEFINE a == AddressOf(instr)
           top == FirstOfStack + Depth - 1
           t == Target(Below(mem), a)
           val == Stacked(Depth - 1)
           cleared == [mem.cell EXCEPT ![top] = 0]
<1>1. TypeOK /\ instr \in Word
    BY TameParts, Fetched
<1>2. C!i.op = POP /\ C!i.address = a /\ (a \in Name \/ a \in Onto)
    BY CurrentItem DEF Pop
<1>3. /\ Depth >= 1 /\ val \in Word /\ Writable(Below(mem), a)
      /\ \E m : /\ Proceed(m) /\ Sized(m)
                /\ m.TOS = mem.TOS - 1 + (IF InStackSeg(a) THEN 1 ELSE 0)
                /\ m.TEXT_TOP = mem.TEXT_TOP + (IF InTextSeg(a) THEN 1 ELSE 0)
                /\ m.cell = [cleared EXCEPT ![t] = val]
    BY <1>1, PopResult
<1>4. PICK m : /\ Proceed(m) /\ Sized(m)
               /\ m.TOS = mem.TOS - 1 + (IF InStackSeg(a) THEN 1 ELSE 0)
               /\ m.TEXT_TOP = mem.TEXT_TOP + (IF InTextSeg(a) THEN 1 ELSE 0)
               /\ m.cell = [cleared EXCEPT ![t] = val]
    BY <1>3
<1>5. mem' = m /\ m.cell \in [Cells -> Word]
    BY <1>4 DEF Proceed, Sized, Memory
<1>6. /\ Stack \in Seq(Word) /\ Len(Stack) = Depth /\ Depth \in Nat
      /\ Depth = mem.TOS - STACK_SEG_BASE /\ mem.TOS \in Nat
      /\ Depth <= STACK_SEG_LENGTH + 1 /\ mem.cell \in [Cells -> Word]
    BY OldStack
<1>7. /\ FirstOfStack \in Nat /\ FirstOfStack >= TEXT_SEG_LENGTH
      /\ \A c \in Cells : c \in Nat
    BY Constants DEF FirstOfStack, Cells
<1>8. top \in Cells /\ top >= FirstOfStack /\ top \in Nat
    BY <1>3, <1>6, Constants DEF FirstOfStack, Cells
<1>9. C!Top = val /\ Stack # <<>>
    BY <1>3, <1>6, TopsOfStack, EmptySeq
<1>10. a \in Nat /\ mem.TEXT_TOP \in Nat
    BY <1>1, AddressOfType, MemoryType, Constants DEF Address
<1>11. Below(mem) \in Memory /\ Below(mem).TOS = mem.TOS - 1
    BY <1>1, <1>3, <1>6, MemoryType, BelowType, Constants
<1> HIDE DEF a, t, val, top
<1>12. CASE a \in Name
  <2>1. ~InStackSeg(a) /\ ~InTextSeg(a) /\ InDataSeg(a) /\ CellOf(a) \in Cells
      BY <1>12, NameCell
  <2>2. t = CellOf(a) /\ TEXT_SEG_LENGTH <= t /\ t < FirstOfStack /\ t \in Nat
      BY <1>12, <2>1, NameCell DEF t, Target
  <2>3. m.TEXT_TOP = mem.TEXT_TOP /\ m.TOS = mem.TOS - 1
      BY <1>4, <1>6, <1>10, <2>1
  <2>4. \A c \in Cells : c # t /\ c # top => m.cell[c] = mem.cell[c]
      BY <1>4, <1>6
  <2>5. C!Then(Stack', Store')
    <3>1. \A c \in Cells : c < TEXT_SEG_LENGTH => m.cell[c] = mem.cell[c]
        BY <2>2, <2>4, <1>7, <1>8, Constants
    <3> QED
        BY <3>1, <2>3, <1>4, Goes
  <2>6. Stack' = C!Without(1)
    <3>1. \A c \in Cells : FirstOfStack <= c /\ c < FirstOfStack + Depth - 1 =>
              m.cell[c] = mem.cell[c]
        BY <2>2, <2>4, <1>6, <1>7 DEF top
    <3> QED
        BY <3>1, <2>3, <1>3, <1>5, <1>6, TakenFromMemory
  <2>7. Store' = [Store EXCEPT ![a] = C!Top]
    <3>1. /\ Store = [d \in Name |-> mem.cell[CellOf(d)]]
          /\ Store' = [d \in Name |-> m.cell[CellOf(d)]]
        BY <1>5, Pictures
    <3>2. ASSUME NEW d \in Name
          PROVE  m.cell[CellOf(d)] = IF d = a THEN val ELSE mem.cell[CellOf(d)]
      <4>1. CellOf(d) \in Cells /\ CellOf(d) # top
          BY <1>8, <1>7, NameCell
      <4>2. CASE d = a
          BY <4>1, <4>2, <2>2, <1>4, <1>6
      <4>3. CASE d # a
        <5>1. CellOf(d) # t
          <6>1. /\ CellOf(d) = TEXT_SEG_LENGTH + d - DATA_SEG_BASE /\ d \in Nat
                /\ CellOf(a) = TEXT_SEG_LENGTH + a - DATA_SEG_BASE /\ a \in Nat
              BY <1>12, NameCell
          <6> QED
              BY <6>1, <4>3, <2>2, Constants
        <5> QED
            BY <5>1, <4>1, <4>3, <2>4
      <4> QED
          BY <4>2, <4>3
    <3> QED
        BY <3>1, <3>2, <1>9, <1>12
  <2> QED
      BY <1>2, <1>9, <1>12, <2>5, <2>6, <2>7, SameWords DEF C!Pop
<1>13. CASE a \in Onto
  <2>1. InStackSeg(a) /\ ~InTextSeg(a)
      BY <1>13, <1>10, Constants DEF Onto, InStackSeg, InTextSeg
  <2>2. t = top
    <3>1. t = FirstOfStack + ((mem.TOS - 1) - STACK_SEG_BASE)
        BY <2>1, <1>3, <1>10, <1>11, TargetIsCell DEF t
    <3> QED
        BY <3>1, <1>6, <1>7, Constants DEF top
  <2>3. m.TEXT_TOP = mem.TEXT_TOP /\ m.TOS = mem.TOS
      BY <1>4, <1>6, <1>10, <2>1
  <2>4. val = mem.cell[top]
    <3>1. FirstOfStack + (Depth - 1) = FirstOfStack + Depth - 1
        BY <1>6, <1>7
    <3> QED
        BY <3>1 DEF val, top, Stacked
  <2>5. m.cell = mem.cell
      BY <2>2, <2>4, <1>4, <1>6, <1>8
  <2>6. C!Then(Stack', Store')
      BY <2>3, <2>5, <1>4, Goes
  <2>7. Stack' = Stack /\ Store' = Store
      BY <2>3, <2>5, <1>5, StackStays, StoreStays
  <2> QED
      BY <1>2, <1>9, <1>13, <2>6, <2>7, SameWords DEF C!PopOnto
<1> QED
    BY <1>2, <1>12, <1>13

LEMMA OperateIsOperate ==
    ASSUME IInv, Tame, Tame', status = "running", NEW instr \in read(mem, PC),
           Operate(instr)
    PROVE  C!Operate
<1> DEFINE top == FirstOfStack + Depth - 1
           next == FirstOfStack + Depth - 2
           val1 == Stacked(Depth - 1)
           val2 == Stacked(Depth - 2)
           result == Result(OpOf(instr), val2, val1)
<1>1. TypeOK /\ instr \in Word
    BY TameParts, Fetched
<1>2. C!i.op = OpOf(instr) /\ OpOf(instr) \in Operators
    BY CurrentItem DEF Operate
<1>3. /\ Depth >= 2 /\ (OpOf(instr) = DIV => val1 # 0) /\ result \in Word
      /\ \E m : /\ Proceed(m) /\ Sized(m) /\ m.TOS = mem.TOS - 1
                /\ m.TEXT_TOP = mem.TEXT_TOP
                /\ m.cell = [[mem.cell EXCEPT ![top] = 0] EXCEPT ![next] = result]
    BY <1>1, OperateResult
<1> HIDE DEF result
<1>4. PICK m : /\ Proceed(m) /\ Sized(m) /\ m.TOS = mem.TOS - 1
               /\ m.TEXT_TOP = mem.TEXT_TOP
               /\ m.cell = [[mem.cell EXCEPT ![top] = 0] EXCEPT ![next] = result]
    BY <1>3
<1>5. mem' = m /\ m.cell \in [Cells -> Word]
    BY <1>4 DEF Proceed, Sized, Memory
<1>6. /\ Stack \in Seq(Word) /\ Len(Stack) = Depth /\ Depth \in Nat
      /\ Depth = mem.TOS - STACK_SEG_BASE /\ mem.TOS \in Nat
      /\ Depth <= STACK_SEG_LENGTH + 1 /\ mem.cell \in [Cells -> Word]
      /\ \A n \in 1..Depth : Stack[n] = mem.cell[FirstOfStack + n - 1]
    BY OldStack
<1>7. /\ FirstOfStack \in Nat /\ FirstOfStack >= TEXT_SEG_LENGTH
      /\ \A c \in Cells : c \in Nat
    BY Constants DEF FirstOfStack, Cells
<1>8. /\ top \in Cells /\ next \in Cells /\ next >= FirstOfStack /\ top = next + 1
  <2>1. Depth >= 2
      BY <1>3
  <2>2. /\ Depth - 1 \in 0..STACK_SEG_LENGTH /\ Depth - 2 \in 0..STACK_SEG_LENGTH
        /\ top = FirstOfStack + (Depth - 1) /\ next = FirstOfStack + (Depth - 2)
      BY <2>1, <1>6, <1>7, Constants
  <2>3. top \in Cells /\ next \in Cells
      BY <2>2, StackCell
  <2> QED
      BY <2>1, <2>3, <1>6, <1>7
<1>9. C!Top = val1 /\ C!Second = val2
    BY <1>3, <1>6, TopsOfStack
<1>10. \A c \in Cells : c # next /\ c # top => m.cell[c] = mem.cell[c]
    BY <1>4, <1>6
<1>11. m.cell[next] = result
    BY <1>4, <1>6, <1>8
<1> HIDE DEF val1, val2
<1>12. C!Then(Stack', Store')
  <2>1. \A c \in Cells : c < TEXT_SEG_LENGTH => m.cell[c] = mem.cell[c]
      BY <1>7, <1>8, <1>10, Constants
  <2> QED
      BY <2>1, <1>4, Goes
<1>13. Store' = Store
  <2>1. \A c \in Cells : c < FirstOfStack => m.cell[c] = mem.cell[c]
      BY <1>7, <1>8, <1>10
  <2> QED
      BY <2>1, <1>5, StoreStays
<1>14. /\ Stack' \in Seq(Word) /\ Len(Stack') = Depth - 1
       /\ \A n \in 1..(Depth - 1) : Stack'[n] = m.cell[FirstOfStack + n - 1]
  <2>1. /\ Depth - 1 \in Nat /\ Depth - 1 <= STACK_SEG_LENGTH + 1
        /\ Depth - 1 = m.TOS - STACK_SEG_BASE
      BY <1>3, <1>4, <1>6, Constants
  <2> QED
      BY <2>1, <1>5, NewStack
<1>15. Stack' = Append(C!Without(2), result)
  <2> DEFINE s == Append(C!Without(2), result)
  <2>1. /\ C!Without(2) \in Seq(Word) /\ Len(C!Without(2)) = Depth - 2
        /\ \A n \in 1..(Depth - 2) : C!Without(2)[n] = Stack[n]
      BY <1>3, Taken
  <2>2. /\ s \in Seq(Word) /\ Len(s) = (Depth - 2) + 1
        /\ \A n \in 1..(Depth - 2) : s[n] = Stack[n]
        /\ s[(Depth - 2) + 1] = result
      BY <2>1, <1>3, AppendProperties
  <2>3. (Depth - 2) + 1 = Depth - 1
      BY <1>6
  <2> HIDE DEF s
  <2>4. ASSUME NEW n \in 1..(Depth - 1) PROVE Stack'[n] = s[n]
    <3>1. CASE n = Depth - 1
      <4>1. FirstOfStack + n - 1 = next
          BY <3>1, <1>6, <1>7
      <4> QED
          BY <4>1, <3>1, <2>2, <2>3, <1>11, <1>14
    <3>2. CASE n # Depth - 1
      <4>1. /\ n \in 1..(Depth - 2) /\ n \in 1..Depth
            /\ FirstOfStack + n - 1 # next /\ FirstOfStack + n - 1 # top
            /\ FirstOfStack + n - 1 \in Cells
        <5>1. n \in 1..(Depth - 2) /\ n \in 1..Depth
            BY <3>2, <1>6
        <5>2. n - 1 \in 0..STACK_SEG_LENGTH /\ FirstOfStack + n - 1 = FirstOfStack + (n - 1)
          <6>1. n - 1 \in 0..STACK_SEG_LENGTH
              BY <5>1, <1>6, Constants
          <6>2. FirstOfStack + n - 1 = FirstOfStack + (n - 1)
              BY <5>1, <1>7
          <6> QED
              BY <6>1, <6>2
        <5>3. FirstOfStack + n - 1 \in Cells
            BY <5>2, StackCell
        <5>4. FirstOfStack + n - 1 # next /\ FirstOfStack + n - 1 # top
            BY <5>1, <1>6, <1>7
        <5> QED
            BY <5>1, <5>3, <5>4
      <4>2. m.cell[FirstOfStack + n - 1] = mem.cell[FirstOfStack + n - 1]
          BY <4>1, <1>10
      <4> QED
          BY <4>1, <4>2, <2>2, <1>6, <1>14
    <3> QED
        BY <3>1, <3>2
  <2>5. Stack' = s
      BY <2>2, <2>3, <2>4, <1>14, SeqEqual
  <2> QED
      BY <2>5 DEF s
<1>16. result = C!Result(C!i.op, C!Second, C!Top)
    BY <1>2, <1>9, SameWords DEF result
<1> QED
    BY <1>2, <1>3, <1>6, <1>9, <1>12, <1>13, <1>15, <1>16, SameWords DEF C!Operate

LEMMA EndIsEnd ==
    ASSUME IInv, Tame, Tame', status = "running", NEW instr \in read(mem, PC),
           EndInstr(instr)
    PROVE  C!End
<1>1. TypeOK /\ instr \in Word
    BY TameParts, Fetched
<1>2. /\ answer' \in Word /\ status' = "answered"
      /\ Depth >= 1 => answer' = Stacked(Depth - 1)
      /\ mem'.TOS = mem.TOS - 1 /\ mem'.cell = mem.cell
      /\ mem'.TEXT_TOP = mem.TEXT_TOP /\ UNCHANGED PC
    BY <1>1, EndResult
<1>3. C!i.op = END
    BY CurrentItem, SameWords DEF EndInstr
<1>4. /\ Stack \in Seq(Word) /\ Len(Stack) = Depth /\ Depth \in Nat
      /\ Depth = mem.TOS - STACK_SEG_BASE /\ mem.TOS \in Nat
      /\ mem.cell \in [Cells -> Word]
    BY OldStack
<1>5. Stack # <<>> => Answer' = C!Top
  <2>1. Stack # <<>> => Depth >= 1
      BY <1>4, EmptySeq
  <2> QED
      BY <2>1, <1>2, Pictures, TopsOfStack
<1>6. Stack' = C!Without(1)
  <2>1. CASE Depth >= 1
      BY <2>1, <1>2, <1>4, TakenFromMemory
  <2>2. CASE Depth = 0
    <3>1. Depth' = -1
        BY <2>2, <1>2, <1>4, Constants DEF Depth
    <3>2. Stack' = [n \in 1..0 |-> mem'.cell[FirstOfStack + n - 1]]
      <4>1. 1..Depth' = 1..0
          BY <3>1
      <4> QED
          BY <4>1, Pictures
    <3>3. Stack' \in [1..0 -> {mem'.cell[FirstOfStack + n - 1] : n \in 1..0}]
        BY <3>2
    <3>4. Stack' = <<>>
      <4>1. /\ Stack' \in Seq({mem'.cell[FirstOfStack + n - 1] : n \in 1..0})
            /\ Len(Stack') = 0
          BY <3>3, IntervalSeq
      <4> QED
          BY <4>1, EmptySeq
    <3>5. C!Without(1) = <<>>
      <4>1. C!Without(1) = SubSeq(Stack, 1, -1)
          BY <2>2, <1>4 DEF C!Without
      <4> QED
          BY <4>1, SubSeqEmpty
    <3> QED
        BY <3>4, <3>5
  <2> QED
      BY <2>1, <2>2, <1>4
<1>7. Program' = Program /\ Store' = Store /\ Counter' = Counter
  <2>1. Program' = Program
      BY <1>2, ProgramStays
  <2>2. Store' = Store
      BY <1>2, StoreStays
  <2> QED
      BY <2>1, <2>2, <1>2, Pictures
<1>8. Status' = "answered" /\ Answer' \in Word
    BY <1>2, Pictures
<1> QED
    BY <1>3, <1>5, <1>6, <1>7, <1>8, SameWords DEF C!End

LEMMA BreakIsStop ==
    ASSUME IInv, Tame, Tame', status = "running", NEW instr \in read(mem, PC),
           Break(instr)
    PROVE  C!Stop
<1> DEFINE a == AddressOf(instr)
           op == OpOf(instr)
<1>1. TypeOK /\ instr \in Word
    BY TameParts, Fetched
<1>2. /\ C!i.op = op
      /\ op = PUSH => a \in Name
      /\ op = POP => a \in Name \/ a \in Onto
    BY CurrentItem
<1>3. /\ Stack \in Seq(Word) /\ Len(Stack) = Depth /\ Depth \in Nat
      /\ Depth = mem.TOS - STACK_SEG_BASE /\ mem.TOS \in Nat
      /\ Depth <= STACK_SEG_LENGTH + 1
    BY OldStack
<1>4. IsCell(PC)
  <2>1. /\ PC \in Nat /\ PC >= TEXT_SEG_BASE /\ PC < mem.TEXT_TOP
        /\ mem.TEXT_TOP \in Nat
        /\ mem.TEXT_TOP <= TEXT_SEG_BASE + TEXT_SEG_LENGTH
      BY <1>1, TameParts, MemoryType DEF TypeOK, TextHoldsLines
  <2> QED
      BY <2>1, Constants DEF IsCell, CellOf, InTextSeg, Cells
<1>5. op = PUSH => IsCell(a)
    BY <1>2, NameCell
<1>6. ASSUME op = POP, Depth # 0 PROVE Writable(Below(mem), a)
  <2>1. CASE a \in Name
      BY <2>1, NameCell
  <2>2. CASE a \in Onto
    <3>1. mem.TOS - 1 - STACK_SEG_BASE \in 0..STACK_SEG_LENGTH
        BY <1>3, <1>6, Constants
    <3>2. Below(mem).TOS = mem.TOS - 1
        BY <1>1, <1>3, <1>6, MemoryType, BelowType, Constants
    <3>3. InStackSeg(a)
        BY <2>2, Constants DEF Onto, InStackSeg
    <3> QED
        BY <3>1, <3>2, <3>3 DEF Writable
  <2> QED
      BY <1>2, <1>6, <2>1, <2>2
<1>7. Depth = 0 => Stack = <<>>
    BY <1>3, EmptySeq
<1>8. ASSUME Depth >= 2 PROVE C!Top = mem.cell[CellOf(mem.TOS - 1)]
  <2>1. Depth - 1 \in 0..STACK_SEG_LENGTH /\ mem.TOS - 1 = STACK_SEG_BASE + (Depth - 1)
      BY <1>3, <1>8, Constants
  <2>2. CellOf(mem.TOS - 1) = FirstOfStack + (Depth - 1)
      BY <2>1, StackCell
  <2> QED
      BY <2>2, <1>8, <1>3, TopsOfStack DEF Stacked
<1>9. C!Impossible
  <2> HIDE DEF a, op
  <2>1. Breaks(instr)
      BY DEF Break
  <2>2. \/ op = PUSH /\ Depth > STACK_SEG_LENGTH
        \/ op = POP /\ Depth = 0
        \/ op \in Operators /\ Depth < 2
        \/ op = DIV /\ Depth >= 2 /\ mem.cell[CellOf(mem.TOS - 1)] = 0
        \/ op = END /\ Depth = 0
        \/ op \notin {PUSH, POP, END} \cup Operators
      BY <2>1, <1>4, <1>5, <1>6 DEF Breaks, a, op
  <2>3. Depth > STACK_SEG_LENGTH => Len(Stack) = STACK_SEG_LENGTH + 1
      BY <1>3, Constants
  <2> QED
      BY <2>2, <2>3, <1>2, <1>3, <1>7, <1>8, SameWords DEF C!Impossible
<1>10. /\ status' \in {"threw", "crashed"} /\ UNCHANGED <<mem, PC, answer>>
    BY DEF Break, Fail
<1>11. /\ Status' \in {"threw", "crashed"}
       /\ UNCHANGED <<Program, Store, Stack, Counter, Answer>>
    BY <1>10, Pictures DEF Depth
<1> QED
    BY <1>9, <1>11 DEF C!Stop

(***************************************************************************)
(* The refinement                                                          *)
(***************************************************************************)

LEMMA StepIsStep ==
    ASSUME IInv, [Next]_vars PROVE [C!Next]_(C!vars)
<1>1. Tame' = Tame
    BY FileStays
<1>2. CASE ~Tame
    BY <1>1, <1>2
       DEF C!vars, Program, Store, Stack, Counter, Status, Answer, Of
<1>3. CASE Tame
  <2>1. CASE ReadLine
      BY <1>1, <1>3, <2>1, LineIsKeyed
  <2>2. CASE Start
      BY <1>1, <1>3, <2>2, StartIsStart
  <2>3. CASE execute
    <3>1. status = "running" /\ Status = "running"
        BY <1>3, <2>3, Pictures DEF execute
    <3>2. PICK instr \in read(mem, PC) :
              Push(instr) \/ Pop(instr) \/ Operate(instr) \/ EndInstr(instr)
                \/ Break(instr)
        BY <2>3 DEF execute
    <3>3. C!Push \/ C!Pop \/ C!PopOnto \/ C!Operate \/ C!End \/ C!Stop
        BY <1>1, <1>3, <3>1, <3>2, PushIsPush, PopIsPop, OperateIsOperate,
           EndIsEnd, BreakIsStop
    <3> QED
        BY <3>1, <3>3 DEF C!Next
  <2>4. CASE UNCHANGED vars
    <3>1. UNCHANGED <<mem, PC, status, answer>>
        BY <2>4 DEF vars
    <3> QED
        BY <1>1, <1>3, <3>1, Pictures DEF C!vars, Depth
  <2> QED
      BY <2>1, <2>2, <2>3, <2>4 DEF Next
<1> QED
    BY <1>2, <1>3

LEMMA InitIsInit == ASSUME Init PROVE C!Init
<1>1. /\ mem.cell = [c \in Cells |-> 0] /\ mem.TEXT_TOP = TEXT_SEG_BASE
      /\ mem.TOS = STACK_SEG_BASE /\ PC = TEXT_SEG_BASE
      /\ status = "loading" /\ answer = 0
    BY DEF Init
<1>2. ASSUME NEW f, f \in [1..0 -> {0}] PROVE f = <<>>
  <2>1. f \in Seq({0}) /\ Len(f) = 0
      BY <1>2, IntervalSeq
  <2> QED
      BY <2>1, EmptySeq
<1>3. CASE Tame
  <2>1. 1..(mem.TEXT_TOP - TEXT_SEG_BASE) = 1..0 /\ 1..Depth = 1..0
      BY <1>1, Constants DEF Depth
  <2>2. Program = <<>> /\ Stack = <<>>
    <3>1. Program \in [1..0 -> {0}]
      <4>1. Program = [n \in 1..0 |-> Item(mem.cell[n - 1])]
          BY <1>3, <2>1, Pictures
      <4>2. \A n \in 1..0 : Item(mem.cell[n - 1]) \in {0}
          OBVIOUS
      <4> QED
          BY <4>1, <4>2
    <3>2. Stack \in [1..0 -> {0}]
      <4>1. Stack = [n \in 1..0 |-> mem.cell[FirstOfStack + n - 1]]
          BY <1>3, <2>1, Pictures
      <4>2. \A n \in 1..0 : mem.cell[FirstOfStack + n - 1] \in {0}
          OBVIOUS
      <4> QED
          BY <4>1, <4>2
    <3> QED
        BY <3>1, <3>2, <1>2
  <2>3. Store = [d \in Name |-> 0]
      BY <1>1, <1>3, Pictures, NameCell
  <2>4. Counter = 1 /\ Status = "loading" /\ Answer = 0
      BY <1>1, <1>3, Pictures, Constants
  <2> QED
      BY <2>2, <2>3, <2>4 DEF C!Init
<1>4. CASE ~Tame
    BY <1>4 DEF C!Init, Program, Store, Stack, Counter, Status, Answer, Of
<1> QED
    BY <1>3, <1>4

\* A file that keeps to its segments makes the simulator a calculator: for
\* every such file, every size of the segments and every content of the memory
\* beside them, an instruction takes its operands from the top of the stack
\* and leaves the rest of the stack, the program and the other numbers alone
\* (stackSim.cpp:51-128).
THEOREM Refinement == Spec => ImplementsCalculator
<1>1. Init => C!Init
    BY InitIsInit
<1>2. IInv /\ [Next]_vars => [C!Next]_(C!vars)
    BY StepIsStep
<1>3. Init => IInv
    BY InitClean
<1>4. IInv /\ [Next]_vars => IInv'
    BY NextClean
<1> QED
    BY <1>1, <1>2, <1>3, <1>4, PTL DEF Spec, ImplementsCalculator, C!Spec

(***************************************************************************)
(* Both machines                                                           *)
(***************************************************************************)

\* The accumulator machine has words, lines and memory of the same kind, and
\* writes to it as the stack machine does.
LEMMA SameMemory ==
    /\ A!Word = Word /\ A!Address = Address /\ A!OpCodes = OpCodes
    /\ A!Lines = Lines /\ A!Cells = Cells /\ A!Memory = Memory
    /\ \A m, address : A!Writable(m, address) <=> Writable(m, address)
    /\ \A m, address : A!read(m, address) = read(m, address)
    /\ \A m, address, data : A!write(m, address, data) = write(m, address, data)
    /\ \A l : A!encode(l) = encode(l)
<1>1. A!Word = Word /\ A!Address = Address
    BY DEF A!Word, Word, A!WordSize, WordSize, A!Address, Address
<1>2. A!OpCodes = OpCodes
    BY DEF A!OpCodes, OpCodes, A!ADD, A!SUB, A!MULT, A!DIV, A!PUSH, A!POP,
           A!LOAD, A!STORE, A!END, ADD, SUB, MULT, DIV, PUSH, POP, LOAD, STORE, END
<1>3. A!Lines = Lines /\ A!Cells = Cells /\ A!Memory = Memory
    BY <1>1, <1>2 DEF A!Lines, Lines, A!Cells, Cells, A!Memory, Memory
<1>4. /\ \A address : A!InTextSeg(address) <=> InTextSeg(address)
      /\ \A address : A!InDataSeg(address) <=> InDataSeg(address)
      /\ \A address : A!InStackSeg(address) <=> InStackSeg(address)
    BY DEF A!InTextSeg, InTextSeg, A!InDataSeg, InDataSeg, A!InStackSeg, InStackSeg
<1>5. \A m, address : A!Writable(m, address) <=> Writable(m, address)
    BY <1>4 DEF A!Writable, Writable
<1>6. \A address : A!CellOf(address) = CellOf(address)
    BY <1>4 DEF A!CellOf, CellOf, A!FirstOfStack, FirstOfStack
<1>7. \A m, address : A!read(m, address) = read(m, address)
    BY <1>3, <1>6 DEF A!read, read, A!IsCell, IsCell
<1>8. ASSUME NEW m, NEW address, NEW data
      PROVE  A!write(m, address, data) = write(m, address, data)
  <2>1. A!put(m, address, data) = put(m, address, data)
    <3>1. CASE InStackSeg(address)
        BY <1>4, <1>6, <3>1 DEF A!put, put
    <3>2. CASE ~InStackSeg(address)
        BY <1>4, <1>6, <3>2 DEF A!put, put
    <3> QED
        BY <3>1, <3>2
  <2> QED
      BY <1>4, <2>1 DEF A!write, write
<1>9. \A l : A!encode(l) = encode(l)
    BY DEF A!encode, encode, A!SUB, A!DIV, A!END, SUB, DIV, END
<1> QED
    BY <1>1, <1>2, <1>3, <1>5, <1>7, <1>8, <1>9

\* A write leaves a memory of the right size.
LEMMA WriteSized ==
    ASSUME NEW m \in Memory, STACK_SEG_BASE <= m.TOS, m.TOS <= Room,
           NEW address \in Nat, NEW data \in Word, Writable(m, address)
    PROVE  LET w == write(m, address, data)
           IN  /\ w \in Memory /\ w.TOS \in Nat /\ w.TOS <= Room
               /\ ~(w.TOS < STACK_SEG_BASE)
<1> DEFINE w == write(m, address, data)
<1>1. w \in Memory /\ w.TOS = m.TOS + (IF InStackSeg(address) THEN 1 ELSE 0)
    BY WriteType
<1>2. InStackSeg(address) => m.TOS < Room
    BY TargetIsCell
<1>3. m.TOS \in Nat /\ Room \in Nat
    BY Constants DEF Memory, Room
<1> HIDE DEF w
<1> QED
    BY <1>1, <1>2, <1>3, Constants DEF w

\* What the type invariant says of the accumulator machine until it ends.
LEMMA AccumTypes ==
    ASSUME A!TypeOK
    PROVE  /\ Len(a_file) \in Nat
           /\ a_line \in Nat /\ 1 <= a_line /\ a_line <= Len(a_file) + 1
           /\ \A n \in 1..Len(a_file) : a_file[n] \in Lines
           /\ a_mem \in Memory /\ a_mem.TOS \in Nat /\ a_mem.TEXT_TOP \in Nat
           /\ a_mem.TOS <= Room
           /\ a_status # "answered" => STACK_SEG_BASE <= a_mem.TOS
           /\ a_PC \in Nat /\ a_PC \in Int
<1>1. /\ a_file \in Seq(Lines) /\ a_line \in 1..(Len(a_file) + 1)
      /\ a_mem \in Memory /\ a_mem.TOS <= Room /\ a_PC \in Nat
      /\ a_mem.TOS < STACK_SEG_BASE => a_status = "answered"
    BY SameMemory DEF A!TypeOK, Room
<1>2. a_mem.TOS \in Nat /\ a_mem.TEXT_TOP \in Nat /\ Len(a_file) \in Nat
    BY <1>1 DEF Memory
<1> QED
    BY <1>1, <1>2, Constants

\* A line that it writes keeps its types; so does one that it does not.
LEMMA AccumPlaceType ==
    ASSUME A!TypeOK, a_status = "loading", a_line <= Len(a_file),
           NEW address \in Nat, NEW data \in Word, A!Place(address, data)
    PROVE  A!TypeOK'
<1>1. CASE A!Throw
    BY <1>1 DEF A!TypeOK, A!Throw
<1>2. CASE /\ Writable(a_mem, address)
           /\ a_mem' = write(a_mem, address, data)
           /\ a_line' = a_line + 1
           /\ UNCHANGED <<a_file, a_segment, a_PC, a_status, a_answer>>
  <2>1. a_mem' \in Memory /\ a_mem'.TOS <= Room /\ ~(a_mem'.TOS < STACK_SEG_BASE)
      BY <1>2, AccumTypes, WriteSized
  <2>2. a_line' \in 1..(Len(a_file') + 1)
      BY <1>2, AccumTypes
  <2> QED
      BY <1>2, <2>1, <2>2, SameMemory DEF A!TypeOK, Room
<1> QED
    BY <1>1, <1>2, SameMemory DEF A!Place

LEMMA AccumTurnType ==
    ASSUME A!TypeOK, a_line <= Len(a_file),
           NEW d, d \in {"text", "data", "none"}, A!Turn(d)
    PROVE  A!TypeOK'
<1>1. a_line' \in 1..(Len(a_file) + 1) /\ a_file' = a_file
    BY AccumTypes DEF A!Turn
<1> QED
    BY <1>1 DEF A!TypeOK, A!Turn

\* Loading keeps the types.
LEMMA AccumReadLineType == ASSUME A!TypeOK, A!ReadLine PROVE A!TypeOK'
<1> DEFINE l == a_file[a_line]
<1>1. a_status = "loading" /\ a_line <= Len(a_file)
    BY DEF A!ReadLine
<1>2. l \in Lines
    BY <1>1, AccumTypes
<1>3. CASE l.kind \in {"text", "data"} /\ A!Turn(l.kind)
    BY <1>1, <1>3, AccumTurnType
<1>4. CASE A!Turn("none")
    BY <1>1, <1>4, AccumTurnType
<1>5. CASE l.kind = "datum" /\ A!Place(l.address, l.word)
  <2>1. l.address \in Nat /\ l.word \in Word
      BY <1>2, <1>5, Constants DEF Lines, Address
  <2> QED
      BY <1>1, <1>5, <2>1, AccumPlaceType
<1>6. CASE l.kind = "instr" /\ A!Place(a_mem.TEXT_TOP, A!encode(l))
  <2>1. a_mem.TEXT_TOP \in Nat /\ A!encode(l) \in Word
      BY <1>1, <1>2, <1>6, EncodeType, AccumTypes, SameMemory
  <2> QED
      BY <1>1, <1>6, <2>1, AccumPlaceType
<1>7. CASE A!Throw
    BY <1>1, <1>7 DEF A!TypeOK, A!Throw
<1>8. CASE \E word \in Junk : A!Place(a_mem.TEXT_TOP, word)
  <2>1. PICK word \in Junk : A!Place(a_mem.TEXT_TOP, word)
      BY <1>8
  <2>2. a_mem.TEXT_TOP \in Nat /\ word \in Word
      BY <1>1, Constants, AccumTypes
  <2> QED
      BY <1>1, <2>1, <2>2, AccumPlaceType
<1> QED
    BY <1>3, <1>4, <1>5, <1>6, <1>7, <1>8 DEF A!ReadLine

LEMMA AccumStartType == ASSUME A!TypeOK, A!Start PROVE A!TypeOK'
<1>1. /\ ~(a_mem.TOS < STACK_SEG_BASE)
      /\ UNCHANGED <<a_file, a_line, a_segment, a_mem, a_PC, a_answer>>
    BY DEF A!TypeOK, A!Start
<1>2. /\ a_status' \in {"running", "complete"}
      /\ a_status' = "running" => a_PC' < a_mem'.TEXT_TOP
    BY DEF A!Start
<1> QED
    BY <1>1, <1>2 DEF A!TypeOK

\* An instruction that leaves a word at an address that may be written keeps
\* the types, the stack segment included.
LEMMA LeaveType ==
    ASSUME A!TypeOK, a_status = "running", NEW address \in Nat,
           NEW val \in Word, A!Leave(address, val)
    PROVE  A!TypeOK'
<1> DEFINE m == write(a_mem, address, val)
<1>1. Writable(a_mem, address) /\ A!Proceed(m)
    BY SameMemory DEF A!Leave
<1>2. m \in Memory /\ m.TOS <= Room /\ ~(m.TOS < STACK_SEG_BASE)
    BY <1>1, AccumTypes, WriteSized
<1> HIDE DEF m
<1>3. a_PC \in Nat /\ a_PC >= TEXT_SEG_BASE
    BY DEF A!TypeOK
<1>4. a_PC' \in Nat /\ a_PC' >= TEXT_SEG_BASE
    BY <1>1, <1>3, Constants DEF A!Proceed
<1>5. /\ a_status' = "running" => a_PC' < a_mem'.TEXT_TOP
      /\ a_status' \in {"running", "complete"}
    BY <1>1 DEF A!Proceed
<1> QED
    BY <1>1, <1>2, <1>4, <1>5, SameMemory DEF A!TypeOK, A!Proceed, Room

\* Executing keeps the types.
LEMMA AccumExecuteType == ASSUME A!TypeOK, A!execute PROVE A!TypeOK'
<1>1. a_status = "running"
    BY DEF A!execute
<1>2. PICK instr \in read(a_mem, a_PC) :
          A!Load(instr) \/ A!Store(instr) \/ A!Operate(instr)
            \/ A!EndInstr(instr) \/ A!Break(instr)
    BY SameMemory DEF A!execute
<1> DEFINE a == A!AddressOf(instr)
<1>3. instr \in Word
    BY <1>2, AccumTypes, ReadType
<1>4. a \in Nat
  <2>1. a = AddressOf(instr)
      BY DEF A!AddressOf, AddressOf
  <2> QED
      BY <1>3, <2>1, AddressOfType, Constants DEF Address
<1>5. A!ACCUMULATOR \in Nat
    BY Constants DEF A!ACCUMULATOR
<1>6. ASSUME NEW address \in Nat, NEW val \in A!read(a_mem, address)
      PROVE  val \in Word
  <2>1. address \in Int /\ val \in read(a_mem, address)
      BY <1>6, SameMemory
  <2> QED
      BY <2>1, AccumTypes, ReadType
<1>7. CASE A!Load(instr)
  <2>1. PICK val \in A!read(a_mem, a) : A!Leave(A!ACCUMULATOR, val)
      BY <1>7 DEF A!Load
  <2> QED
      BY <1>1, <1>4, <1>5, <1>6, <2>1, LeaveType
<1>8. CASE A!Store(instr)
  <2>1. PICK val1 \in A!read(a_mem, A!ACCUMULATOR) : A!Leave(a, val1)
      BY <1>8 DEF A!Store
  <2> QED
      BY <1>1, <1>4, <1>5, <1>6, <2>1, LeaveType
<1>9. CASE A!Operate(instr)
  <2>1. PICK val1 \in A!read(a_mem, a), val2 \in A!read(a_mem, A!ACCUMULATOR) :
            A!Leave(A!ACCUMULATOR, A!Result(A!OpOf(instr), val2, val1))
      BY <1>9 DEF A!Operate
  <2>2. A!OpOf(instr) \in {ADD, MULT}
      BY <1>9 DEF A!Operate, A!ADD, A!MULT, ADD, MULT
  <2>3. val1 \in Word /\ val2 \in Word
      BY <1>4, <1>5, <1>6, <2>1
  <2>4. \A op \in {ADD, MULT} : A!Result(op, val2, val1) = Result(op, val2, val1)
      BY DEF A!Result, Result, A!ADD, A!MULT, A!SUB, A!DIV, ADD, MULT, SUB, DIV,
             A!WordSize, WordSize
  <2>5. \A op \in {ADD, MULT} : op \in Operators /\ op # DIV
      BY DEF Operators, ADD, MULT, DIV
  <2>6. A!Result(A!OpOf(instr), val2, val1) \in Word
      BY <2>2, <2>3, <2>4, <2>5, ResultIsWord
  <2> QED
      BY <1>1, <1>5, <2>1, <2>6, LeaveType
<1>10. CASE A!EndInstr(instr)
  <2>1. PICK val \in A!read(a_mem, A!ACCUMULATOR) : A!Printout(a_mem, val)
      BY <1>10 DEF A!EndInstr
  <2>2. val \in Word
      BY <1>5, <1>6, <2>1
  <2> QED
      BY <2>1, <2>2, SameMemory DEF A!Printout, A!TypeOK
<1>11. CASE A!Break(instr)
  <2>1. A!Fail /\ ~(a_mem.TOS < STACK_SEG_BASE)
      BY <1>1, <1>11 DEF A!Break, A!TypeOK
  <2> QED
      BY <2>1 DEF A!TypeOK, A!Fail
<1> QED
    BY <1>2, <1>7, <1>8, <1>9, <1>10, <1>11

LEMMA AccumInitType == ASSUME A!Init PROVE A!TypeOK
<1>1. a_mem \in Memory /\ a_mem.TOS = STACK_SEG_BASE
    BY WordIsNat, Constants, SameMemory DEF A!Init, Memory
<1>2. /\ ~(a_mem.TOS < STACK_SEG_BASE)
      /\ a_mem.TOS <= STACK_SEG_BASE + STACK_SEG_LENGTH + 1
    BY <1>1, Constants
<1>3. a_line \in 1..(Len(a_file) + 1)
    BY DEF A!Init
<1>4. a_PC \in Nat /\ a_PC >= TEXT_SEG_BASE
    BY Constants DEF A!Init
<1> QED
    BY <1>1, <1>2, <1>3, <1>4, WordIsNat, SameMemory DEF A!Init, A!TypeOK

LEMMA AccumNextType ==
    ASSUME A!TypeOK, A!Next PROVE A!TypeOK'
BY AccumReadLineType, AccumStartType, AccumExecuteType DEF A!Next

\* One machine after the other: memory holds words, the stack pointer stays
\* within the stack segment and the cell behind it, and the next instruction
\* is below the top of the text segment, for any two files.
THEOREM BothTypesCorrect == BothSpec => []BothTypeOK
<1>1. InitBoth => BothTypeOK
    BY InitType, AccumInitType DEF InitBoth, BothTypeOK
<1>2. BothTypeOK /\ [NextBoth]_<<vars, accumVars>> => BothTypeOK'
  <2> SUFFICES ASSUME BothTypeOK, [NextBoth]_<<vars, accumVars>>
               PROVE  BothTypeOK'
      OBVIOUS
  <2>1. [Next]_vars /\ (A!Next \/ UNCHANGED accumVars)
      BY DEF NextBoth, StackStep, AccumStep
  <2>2. TypeOK'
      BY <2>1, NextType DEF BothTypeOK
  <2>3. A!TypeOK'
    <3>1. CASE A!Next
        BY <3>1, AccumNextType DEF BothTypeOK
    <3>2. CASE UNCHANGED accumVars
        BY <3>2 DEF BothTypeOK, accumVars, A!TypeOK
    <3> QED
        BY <2>1, <3>1, <3>2
  <2> QED
      BY <2>2, <2>3 DEF BothTypeOK
<1> QED
    BY <1>1, <1>2, PTL DEF BothSpec
=============================================================================
