----------------------------- MODULE Assembler -----------------------------
(***************************************************************************)
(* The two passes of comp4300/project3/src/mem/mem.cpp over an assembler   *)
(* file: index_symbols() gives every label its place, init_segs() encodes  *)
(* the instructions one after the other.  The passes have to agree on what *)
(* a line is; each has its own tests.                                      *)
(*                                                                         *)
(* A source is a sequence of lines.  Which string tests a line meets is    *)
(* its kind:                                                               *)
(*   "text", "data"  a directive;                                          *)
(*   "label"         a line with a colon in the text segment;              *)
(*   "datum"         a line with a colon in the data segment, with the     *)
(*                   number of cells it takes;                             *)
(*   "instr"         any other line with a letter or a digit;              *)
(*   "blank"         an empty line, or one that begins with \r;            *)
(*   "odd"           any other line without a letter or a digit.           *)
(* Letters are small ones (mem.cpp:43): a line of capital letters only,    *)
(* which no program here has, is none of these kinds.                      *)
(***************************************************************************)
EXTENDS Integers, FiniteSetsExt, SequencesExt

CONSTANTS
    ImmSize,      \* the number of values of an immediate field, 2^16
    DataBase      \* DATA_SEG_BASE

ASSUME AssemblerAssumption == ImmSize \in Nat \ {0} /\ DataBase \in Nat

\* The segment that line p belongs to is the one opened last above it.
Directives(src) == {q \in DOMAIN src : src[q].kind \in {"text", "data"}}

Segment(src, p) ==
    LET above == {q \in Directives(src) : q < p}
    IN  IF above = {} THEN "none" ELSE src[Max(above)].kind

LinesOf(src, kinds, segment) ==
    {p \in DOMAIN src : src[p].kind \in kinds /\ Segment(src, p) = segment}

(***************************************************************************)
(* The first pass, index_symbols()                                         *)
(***************************************************************************)

\* Faulty: only lines with a digit in them are counted.
Counted_Digits(src) ==
    {p \in LinesOf(src, {"instr"}, "text") :
        src[p].op \notin {"nop", "syscall", "b"}}

\* A line of the text segment with a letter or a digit in it is counted if
\* it is no label.
Counted(src) == LinesOf(src, {"instr"}, "text")

offset(src, p) == Cardinality({q \in Counted(src) : q < p})

\* DATA_TOP when line p is read: a string takes one cell, its characters are
\* kept elsewhere.
DATA_TOP(src, p) ==
    DataBase + MapThenSumSet(LAMBDA q : src[q].size,
                             {q \in LinesOf(src, {"datum"}, "data") : q < p})

\* A symbol stands for the last line that defines it.  operator[] of a
\* std::map makes a zero for a name it does not have.
Defining(src, lines, name) == {p \in lines : src[p].name = name}

text_symbol_table(src, name) ==
    LET lines == Defining(src, LinesOf(src, {"label"}, "text"), name)
    IN  IF lines = {} THEN 0 ELSE offset(src, Max(lines))

data_symbol_table(src, name) ==
    LET lines == Defining(src, LinesOf(src, {"datum"}, "data"), name)
    IN  IF lines = {} THEN 0 ELSE DATA_TOP(src, Max(lines))

(***************************************************************************)
(* The second pass, init_segs()                                            *)
(***************************************************************************)
Branches == {"b", "beqz", "bge", "bne"}

\* The fields of an instruction word; which bits they occupy is left out.
\* An immediate loses its sign: -1 is ImmSize - 1.
EncodeRegisters(line) == [line EXCEPT !.imm = line.imm % ImmSize]

EncodeBranch(src, line) ==
    [line EXCEPT !.imm = text_symbol_table(src, line.label) % ImmSize]

EncodeAddress(src, line) ==
    [line EXCEPT !.imm = data_symbol_table(src, line.label) % ImmSize]

\* An odd line matches no instruction: its word is never assigned.
encode_instruction(src, line) ==
    CASE line.kind = "odd" -> [op |-> "undefined"]
      [] line.kind = "instr" /\ line.op \in Branches -> EncodeBranch(src, line)
      [] line.kind = "instr" /\ line.op = "la" -> EncodeAddress(src, line)
      [] OTHER -> EncodeRegisters(line)

\* This pass leaves out labels and empty lines, but not odd ones.
Encoded(src) == LinesOf(src, {"instr", "odd"}, "text")

\* The line whose word is the n-th one: each is written to TEXT_TOP, behind
\* those of the lines above.
LineOfWord(lines, n) ==
    CHOOSE p \in lines : Cardinality({q \in lines : q <= p}) = n

\* TEXT_SEG up to TEXT_TOP.
init_segs(src) ==
    LET lines == Encoded(src)
    IN  [n \in 1..Cardinality(lines) |->
            encode_instruction(src, src[LineOfWord(lines, n)])]

(***************************************************************************)
(* Lines                                                                   *)
(***************************************************************************)
SourceLine ==
    [kind : {"text", "data", "blank", "odd"}]
        \cup [kind : {"label"}, name : STRING]
        \cup [kind : {"datum"}, name : STRING, size : Nat]
        \cup [kind : {"instr"}, op : STRING, rd : Nat, rs : Nat, rt : Nat,
              imm : Int, label : STRING]

Directive(segment) == [kind |-> segment]
Label(name) == [kind |-> "label", name |-> name]
Datum(name, size) == [kind |-> "datum", name |-> name, size |-> size]
Blank == [kind |-> "blank"]
Odd == [kind |-> "odd"]

Instr(op, rd, rs, rt, imm, label) ==
    [kind |-> "instr", op |-> op, rd |-> rd, rs |-> rs, rt |-> rt,
     imm |-> imm, label |-> label]

add(rd, rs, rt) == Instr("add", rd, rs, rt, 0, "")
addi(rd, rs, imm) == Instr("addi", rd, rs, 0, imm, "")
subi(rd, rs, imm) == Instr("subi", rd, rs, 0, imm, "")
li(rd, imm) == Instr("li", rd, 0, 0, imm, "")
la(rd, label) == Instr("la", rd, 0, 0, 0, label)
lb(rd, rs) == Instr("lb", rd, rs, 0, 0, "")
b(label) == Instr("b", 0, 0, 0, 0, label)
beqz(rd, label) == Instr("beqz", rd, 0, 0, 0, label)
bge(rd, rt, label) == Instr("bge", rd, 0, rt, 0, label)
bne(rd, rt, label) == Instr("bne", rd, 0, rt, 0, label)
syscall == Instr("syscall", 0, 0, 0, 0, "")
nop == Instr("nop", 0, 0, 0, 0, "")

(***************************************************************************)
(* Properties                                                              *)
(***************************************************************************)

\* A branch goes to the instruction below its label: the word at the label's
\* symbol is the one that the second pass encodes for the first instruction
\* after the label ("text_symbol_table[symbol_name] = offset", mem.cpp:66,
\* against "write_mem(TEXT_TOP, instr)", line 174).  Each odd line above a
\* label puts it one word off, and nothing else does: no order of labels,
\* data, directives and empty lines.
LabelNamesNextInstruction(src) ==
    \A p \in DOMAIN src :
        LET name == src[p].name
            replaced == \E q \in (p + 1)..Len(src) :
                            src[q].kind = "label" /\ src[q].name = name
            odd == {q \in LinesOf(src, {"odd"}, "text") : q < p}
        IN  p \in LinesOf(src, {"label"}, "text") /\ ~replaced =>
                text_symbol_table(src, name) + Cardinality(odd) =
                    Len(init_segs(SubSeq(src, 1, p)))

=============================================================================
