---------------------------- MODULE GprAssembler ----------------------------
(***************************************************************************)
(* The two passes of comp4300/project2/src/mem.cpp over an assembler file, *)
(* the ancestors of those in project3.  They were written for files with   *)
(* CR LF at the end of a line, where an empty line is "\r".  Besides the   *)
(* kinds of lines of Assembler there are those without the CR:             *)
(*   "text_lf", "data_lf"  directives, which only the first pass knows;    *)
(*   "empty"               a line of length 0, which only the second pass  *)
(*                         leaves out.                                     *)
(* "odd" is any other line that is no instruction.                         *)
(***************************************************************************)
EXTENDS Assembler

FileLine == SourceLine \cup [kind : {"text_lf", "data_lf", "empty"}]

WithoutCR(l) ==
    CASE l.kind = "text" -> Directive("text_lf")
      [] l.kind = "data" -> Directive("data_lf")
      [] l.kind = "blank" -> [kind |-> "empty"]
      [] OTHER -> l

(***************************************************************************)
(* The first pass, index_symbols()                                         *)
(***************************************************************************)
Indexed(src) ==
    [p \in DOMAIN src |->
        CASE src[p].kind = "text_lf" -> Directive("text")
          [] src[p].kind = "data_lf" -> Directive("data")
          [] OTHER -> src[p]]

\* Faulty: a line that holds nothing but a CR counts.
LinesCounted_Blank(src) ==
    LinesOf(Indexed(src), {"instr", "odd", "empty", "blank"}, "text")

\* Every line of the text segment counts that is no label and does not begin
\* with a CR.
LinesCounted(src) == LinesOf(Indexed(src), {"instr", "odd", "empty"}, "text")

text_symbol(src, name) ==
    LET labels == Defining(src, LinesOf(Indexed(src), {"label"}, "text"), name)
    IN  IF labels = {} THEN 0
        ELSE Cardinality({q \in LinesCounted(src) : q < Max(labels)})

data_symbol(src, name) == data_symbol_table(Indexed(src), name)

\* The addresses that a message was put under; any other has the empty one.
\* (A .space of size 1 is among them here.  No program prints its address.)
string_table(src) ==
    {data_symbol(src, src[p].name) :
        p \in {q \in LinesOf(Indexed(src), {"datum"}, "data") :
                  src[q].size = 1}}

(***************************************************************************)
(* The second pass, init()                                                 *)
(***************************************************************************)

\* A register field stays what it is; the last 16 bits are an offset, an
\* address or an immediate.  Nothing is sign extended later on.
encode(src, l) ==
    LET field == CASE l.op \in Branches -> text_symbol(src, l.label)
                   [] l.op = "la" -> data_symbol(src, l.label)
                   [] OTHER -> l.imm
    IN  [l EXCEPT !.imm = field % ImmSize]

\* The lines that a word is written for.
LinesEncoded(src) == LinesOf(src, {"instr", "odd", "text_lf", "data_lf"}, "text")

\* The word of a line that is no instruction was never assigned.  The bound
\* on the text segment (mem.cpp:422) is left out: files here are shorter.
init(src) ==
    LET lines == LinesEncoded(src)
    IN  [n \in 1..Cardinality(lines) |->
            LET l == src[LineOfWord(lines, n)]
            IN  IF l.kind = "instr" THEN encode(src, l)
                ELSE [op |-> "undefined"]]

(***************************************************************************)
(* The program                                                             *)
(***************************************************************************)

\* palindrome.s with a buffer of another size.
palindrome(size) == <<
    Directive("data"),
    Datum("is_palin_msg", 1),
    Datum("not_palin_msg", 1),
    Datum("string_space", size),
    Blank,
    Directive("text"),
    Label("main"),
    Blank,
    la(30, "string_space"), li(31, size), li(29, 8), syscall,
    Blank,
    la(1, "string_space"), la(2, "string_space"),
    Blank,
    Label("length_loop"),
    lb(3, 2), beqz(3, "end_length_loop"),
    Blank,
    addi(2, 2, 1), b("length_loop"),
    Blank,
    Label("end_length_loop"),
    subi(2, 2, 2),
    Blank,
    Label("test_loop"),
    bge(1, 2, "is_palin"),
    Blank,
    lb(3, 1), lb(4, 2), bne(3, 4, "not_palin"),
    Blank,
    addi(1, 1, 1), subi(2, 2, 1), b("test_loop"),
    Blank,
    Label("is_palin"),
    Blank,
    la(30, "is_palin_msg"), li(29, 4), syscall, b("exit"),
    Blank,
    Label("not_palin"),
    la(30, "not_palin_msg"), li(29, 4), syscall, b("exit"),
    Blank,
    Label("exit"),
    li(29, 10),
    syscall >>

(***************************************************************************)
(* Properties                                                              *)
(***************************************************************************)

\* In a file with CR LF throughout a branch goes to the instruction below its
\* label: the offset that the first pass gave the label (mem.cpp:490) is the
\* number of words that the second has written up to there (mem.cpp:592).
LabelsAgree(src) ==
    (\A p \in DOMAIN src : src[p].kind \notin {"empty", "text_lf", "data_lf"}) =>
        \A p \in LinesOf(src, {"label"}, "text") :
            LET name == src[p].name
            IN  \/ \E q \in (p + 1)..Len(src) :
                      src[q].kind = "label" /\ src[q].name = name
                \/ text_symbol(src, name) = Len(init(SubSeq(src, 1, p)))
=============================================================================
